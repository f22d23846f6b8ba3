------------------------------ MODULE FirstBoot ------------------------------
(***************************************************************************)
(* The first boots of an image: stage1 runs ir0-firstboot --early, the     *)
(* console service runs ir0-firstboot --wizard, and whichever finds a way  *)
(* (development seed, appliance seed, seed file, answers of the user)      *)
(* writes the account files one after the other and then a done marker.    *)
(* services/ir0_firstboot.c, services/runit_stage1.c,                      *)
(* services/runit_console_run.c.                                           *)
(*                                                                         *)
(* write_file truncates in place and then writes: a power cut between the  *)
(* two leaves an empty file, and the next boot finds it so.  An operation  *)
(* that fails does not stop the boot.                                      *)
(***************************************************************************)
EXTENDS Naturals, Sequences

CONSTANTS Profiles,   \* the /etc/ir0-profile of the images considered
          Users,      \* names for accounts, "root" and "labuser" among them
          ValidUsers, \* those valid_username accepts
          Hashes,     \* hashes that some password verifies
          Unusable,   \* fields no password verifies: "!", "*", a password in plain text
          Seeds,      \* seed files: [user, hash, wheel, lock_root, recovery]
          MaxFaults   \* power cuts and failed calls

Locked == "!"
Empty  == ""

\* The password fields of a shadow line.
Fields == Hashes \cup Unusable \cup {Empty}

ASSUME ProfilesAssumption == Profiles \subseteq {"minimal", "desktop", "development", "appliance"}
ASSUME UsersAssumption == {"root", "labuser"} \subseteq Users /\ ValidUsers \subseteq Users \ {"root"}
ASSUME HashesAssumption ==
  /\ Locked \in Unusable /\ Hashes \cap Unusable = {}
  /\ Empty \notin Hashes \cup Unusable
ASSUME MaxFaultsAssumption == MaxFaults \in Nat
ASSUME SeedsAssumption ==
  Seeds \subseteq [user : Users, hash : Fields, wheel : BOOLEAN,
                    lock_root : BOOLEAN, recovery : BOOLEAN]

Files == {"passwd", "shadow", "group", "hostname", "noroot", "recovery",
          "autologin", "done_etc", "done_var", "seed"}

VARIABLES
  profile,  \* /etc/ir0-profile
  seed,     \* what the seed file says, if there is one
  exists,   \* the files there are
  text,     \* their lines; {} when the file is empty
  pc,       \* where the boot is
  plan,     \* what the running ir0-firstboot still has to do
  opened,   \* has it truncated the file at the head of the plan?
  marked,   \* has mark_done written a marker?
  faults

vars == <<profile, seed, exists, text, pc, plan, opened, marked, faults>>

-----------------------------------------------------------------------------
(* Plans                                                                   *)

\* write_file whose failure ends the run, one whose failure is ignored, unlink.
WriteFile(f, lines) == [do |-> "write", file |-> f, lines |-> lines, must |-> TRUE]
TryWrite(f, lines)  == [do |-> "write", file |-> f, lines |-> lines, must |-> FALSE]
Unlink(f)           == [do |-> "unlink", file |-> f, lines |-> {}, must |-> FALSE]
Flag(on, f)         == IF on THEN TryWrite(f, {<<"1">>}) ELSE Unlink(f)

\* Two markers; one of them is enough, which is checked after them.
MarkDone == << TryWrite("done_etc", {<<"ok">>}), TryWrite("done_var", {<<"ok">>}),
               [do |-> "check", file |-> "done_etc", lines |-> {}, must |-> TRUE] >>

\* The first half of write_accounts.
AccountFiles(u, h, wheel, rootHash) ==
  << WriteFile("passwd", {<<"root">>, <<u>>}),
     WriteFile("shadow", {<<"root", rootHash>>, <<u, h>>}),
     WriteFile("group", {<<"users", u>>} \cup (IF wheel THEN {<<"wheel", u>>} ELSE {})),
     WriteFile("hostname", {<<"ir0">>}) >>

\* Bug: the marker is written before the files it speaks of.
MarkThenWriteAccounts(u, h, wheel, lock_root, recovery) ==
  MarkDone \o AccountFiles(u, h, wheel, IF lock_root THEN Locked ELSE h)
           \o << Flag(lock_root, "noroot"), Flag(recovery, "recovery"), Unlink("autologin") >>

\* Bug: root gets the user's password whatever lock_root says.
WriteAccountsOpenRoot(u, h, wheel, lock_root, recovery) ==
  AccountFiles(u, h, wheel, h)
  \o << Unlink("noroot"), Flag(recovery, "recovery"), Unlink("autologin") >> \o MarkDone

\* The accounts, the flags, and only then the marker.
write_accounts(u, h, wheel, lock_root, recovery) ==
  AccountFiles(u, h, wheel, IF lock_root THEN Locked ELSE h)
  \o << Flag(lock_root, "noroot"), Flag(recovery, "recovery"), Unlink("autologin") >>
  \o MarkDone

\* Autologin as root, lab accounts, the marker, autologin and open passwords again.
seed_development ==
  << WriteFile("autologin", {<<"root">>}) >>
  \o write_accounts("labuser", Empty, TRUE, FALSE, TRUE)
  \o << WriteFile("autologin", {<<"root">>}),
        WriteFile("shadow", {<<"root", Empty>>, <<"labuser", Empty>>}) >>

\* Nobody can log in to an appliance.
seed_appliance ==
  << WriteFile("passwd", {<<"root">>}), WriteFile("shadow", {<<"root", Locked>>}),
     WriteFile("group", {}), TryWrite("hostname", {<<"ir0">>}),
     Flag(TRUE, "noroot"), Unlink("autologin") >>
  \o MarkDone

\* apply_seed_file accepts a seed with a valid name and some hash, whether or not
\* a password can ever verify it.
SeedIsValid == seed.user \in ValidUsers /\ seed.hash # Empty

-----------------------------------------------------------------------------
\* already_done and firstboot_pending: a marker is there, with or without text.
Done == {"done_etc", "done_var"} \cap exists # {}

\* The image as stage-rootfs.sh and pack-minix.sh make it, with or without a seed.
Init ==
  /\ profile \in Profiles
  /\ seed \in Seeds
  /\ \E s \in SUBSET {"seed"} :
       exists = {"passwd", "shadow", "group", "hostname"} \cup s
                \cup (IF profile = "development" THEN {"autologin"} ELSE {})
                \cup (IF profile \in {"desktop", "appliance"} THEN {"noroot"} ELSE {})
  /\ LET dev == profile = "development"
     IN  text = [f \in Files |->
                   CASE f = "passwd" -> {<<"root">>} \cup (IF dev THEN {<<"labuser">>} ELSE {})
                     [] f = "shadow" -> IF dev THEN {<<"root", Empty>>, <<"labuser", Empty>>}
                                               ELSE {<<"root", Locked>>}
                     [] f = "autologin" -> IF dev THEN {<<"root">>} ELSE {}
                     [] OTHER -> {}]
  /\ pc = "off"
  /\ plan = <<>>
  /\ opened = FALSE
  /\ marked = FALSE
  /\ faults = 0

-----------------------------------------------------------------------------
(* The boot                                                                *)

\* stage1 (or rcS of sysvinit) reaches its firstboot step.
PowerOn ==
  /\ pc = "off"
  /\ pc' = "early"
  /\ UNCHANGED <<profile, seed, exists, text, plan, opened, marked, faults>>

\* What comes after ir0-firstboot, however it ended: stage1 hands over to the
\* services, among them the console, which shows the login prompt in the end.
After == CASE pc \in {"early", "early_run"} -> IF profile = "appliance" THEN "services" ELSE "console"
           [] OTHER -> "login"

\* Bug: the wizard, too, leaves firstboot pending.
SkipWizard ==
  /\ pc \in {"early", "console"}
  /\ \/ Done
     \/ "seed" \in exists /\ profile # "appliance" /\ ~SeedIsValid
     \/ "seed" \notin exists /\ profile \in {"minimal", "desktop"}
  /\ pc' = After
  /\ UNCHANGED <<profile, seed, exists, text, plan, opened, marked, faults>>

\* ir0-firstboot is done, has nothing to go by, or rejects its seed.
SkipFirstboot ==
  /\ pc \in {"early", "console"}
  /\ \/ Done
     \/ "seed" \in exists /\ profile # "appliance" /\ ~SeedIsValid
     \/ pc = "early" /\ "seed" \notin exists /\ profile \in {"minimal", "desktop"}
  /\ pc' = After
  /\ UNCHANGED <<profile, seed, exists, text, plan, opened, marked, faults>>

\* fork fails, or ir0-firstboot cannot read its seed or hash a password: the boot
\* goes on without it.
FirstbootFails ==
  /\ pc \in {"early", "console"} /\ ~Done
  /\ faults < MaxFaults
  /\ faults' = faults + 1
  /\ pc' = After
  /\ UNCHANGED <<profile, seed, exists, text, plan, opened, marked>>

\* Bug: no look at the markers.
StartAgain(p) ==
  /\ plan' = p
  /\ pc' = IF pc = "early" THEN "early_run" ELSE "console_run"
  /\ UNCHANGED <<profile, seed, exists, text, opened, marked, faults>>

\* The first run that knows what to write.
Start(p) ==
  /\ ~Done
  /\ plan' = p
  /\ pc' = IF pc = "early" THEN "early_run" ELSE "console_run"
  /\ UNCHANGED <<profile, seed, exists, text, opened, marked, faults>>

\* A development image seeds itself.
StartDevelopment ==
  /\ pc \in {"early", "console"}
  /\ profile = "development" /\ "seed" \notin exists
  /\ Start(seed_development)

\* An appliance does, too, and only early.
StartAppliance ==
  /\ pc = "early"
  /\ profile = "appliance"
  /\ Start(seed_appliance)

\* Development keeps the seed file, the other profiles remove it in the end.
StartSeed ==
  /\ pc \in {"early", "console"}
  /\ profile # "appliance" /\ "seed" \in exists
  /\ SeedIsValid
  /\ Start(write_accounts(seed.user, seed.hash, seed.wheel, seed.lock_root, seed.recovery)
           \o IF profile = "development" THEN <<>> ELSE <<Unlink("seed")>>)

\* wizard_interactive asks until the name is valid and the passwords are equal
\* and not empty.
AnswerWizard ==
  /\ pc = "console"
  /\ profile \in {"minimal", "desktop"} /\ "seed" \notin exists
  /\ \E u \in ValidUsers, h \in Hashes : Start(write_accounts(u, h, TRUE, TRUE, TRUE))

-----------------------------------------------------------------------------
(* ir0-firstboot at work                                                   *)

\* Is ir0-firstboot running, and is op the next thing it does?
Running == pc \in {"early_run", "console_run"}
Doing(op) == Running /\ plan # <<>> /\ Head(plan).do = op

\* open(O_CREAT | O_TRUNC)
Truncate ==
  /\ Doing("write") /\ ~opened
  /\ opened' = TRUE
  /\ exists' = exists \cup {Head(plan).file}
  /\ text' = [text EXCEPT ![Head(plan).file] = {}]
  /\ UNCHANGED <<profile, seed, pc, plan, marked, faults>>

\* write, fsync, close
Fill ==
  /\ Doing("write") /\ opened
  /\ text' = [text EXCEPT ![Head(plan).file] = Head(plan).lines]
  /\ marked' = (marked \/ Head(plan).file \in {"done_etc", "done_var"})
  /\ plan' = Tail(plan)
  /\ opened' = FALSE
  /\ UNCHANGED <<profile, seed, exists, pc, faults>>

\* unlink, of a file that may not be there
Remove ==
  /\ Doing("unlink")
  /\ exists' = exists \ {Head(plan).file}
  /\ text' = [text EXCEPT ![Head(plan).file] = {}]
  /\ plan' = Tail(plan)
  /\ UNCHANGED <<profile, seed, pc, opened, marked, faults>>

\* ir0-firstboot exits with an error, and the boot goes on without it.
GiveUp ==
  /\ plan' = <<>>
  /\ pc' = After
  /\ marked' = FALSE

\* mark_done fails only if neither marker could be written.
CheckMarked ==
  /\ Doing("check")
  /\ IF marked THEN plan' = Tail(plan) /\ UNCHANGED <<pc, marked>> ELSE GiveUp
  /\ UNCHANGED <<profile, seed, exists, text, opened, faults>>

\* open or write fails, before or after the truncation; unlink fails unnoticed.
OperationFails ==
  /\ \/ Doing("write")
     \/ Doing("unlink")
  /\ faults < MaxFaults
  /\ faults' = faults + 1
  /\ IF Head(plan).must THEN GiveUp ELSE plan' = Tail(plan) /\ UNCHANGED <<pc, marked>>
  /\ opened' = FALSE
  /\ UNCHANGED <<profile, seed, exists, text>>

\* Bug: nobody waits for ir0-firstboot.
FinishUnwaited ==
  /\ Running
  /\ pc' = After
  /\ UNCHANGED <<profile, seed, exists, text, plan, opened, marked, faults>>

\* Exit 0; stage1 or the console has been waiting for it.
FinishFirstboot ==
  /\ Running /\ plan = <<>>
  /\ pc' = After
  /\ marked' = FALSE
  /\ UNCHANGED <<profile, seed, exists, text, plan, opened, faults>>

-----------------------------------------------------------------------------
\* The machine stops anywhere before the login prompt.
PowerCut ==
  /\ pc \notin {"off", "login", "services"}
  /\ faults < MaxFaults
  /\ faults' = faults + 1
  /\ pc' = "off"
  /\ plan' = <<>>
  /\ opened' = FALSE
  /\ marked' = FALSE
  /\ UNCHANGED <<profile, seed, exists, text>>

\* Somebody reboots a running machine.
Reboot ==
  /\ pc \in {"login", "services"}
  /\ pc' = "off"
  /\ UNCHANGED <<profile, seed, exists, text, plan, opened, marked, faults>>

Boot == \/ PowerOn \/ SkipFirstboot \/ StartDevelopment \/ StartAppliance \/ StartSeed
        \/ AnswerWizard \/ Truncate \/ Fill \/ Remove \/ CheckMarked \/ FinishFirstboot

Next == Boot \/ FirstbootFails \/ OperationFails \/ PowerCut \/ Reboot

Spec == Init /\ [][Next]_vars

-----------------------------------------------------------------------------
\* auth_user of the console accepts some password for u.
CanLogin(u) ==
  /\ <<u>> \in text["passwd"]
  /\ \E h \in Hashes \cup {Empty} : <<u, h>> \in text["shadow"]
  /\ u = "root" => "noroot" \notin exists

\* The boot goes on and the user answers; somebody who faces a login prompt that
\* accepts nobody turns the machine off and on again.
Fairness == WF_vars(Boot) /\ WF_vars(Reboot /\ \A u \in Users : ~CanLogin(u))

FairSpec == Spec /\ Fairness

PCs == {"off", "early", "early_run", "console", "console_run", "login", "services"}

\* The values the variables range over; ir0-firstboot has work only while it runs.
TypeOK ==
  /\ profile \in Profiles /\ seed \in Seeds
  /\ exists \subseteq Files
  /\ text \in [Files -> SUBSET ((Users \X Fields)
                                \cup ({"wheel", "users"} \X Users)
                                \cup {<<l>> : l \in Users \cup {"1", "ok", "ir0"}})]
  /\ \A f \in Files \ exists : text[f] = {}
  /\ pc \in PCs
  /\ ~Running => plan = <<>> /\ ~opened /\ ~marked
  /\ opened => Head(plan).do = "write" /\ Head(plan).file \in exists
  /\ faults \in 0..MaxFaults

\* The canonical profiles: an image for people, without lab accounts.
Canonical == profile \in {"minimal", "desktop"}

\* The done marker is never ahead of the accounts: however many boots were cut
\* short, when firstboot will not run again there is exactly one user, who has a
\* password field, a group entry and a host name, and can log in, unless the field
\* is what the seed said and verifies no password.
DoneMeansComplete ==
  Canonical /\ Done =>
    \E u \in ValidUsers, h \in Hashes \cup Unusable :
      /\ text["passwd"] = {<<"root">>, <<u>>}
      /\ <<u, h>> \in text["shadow"]
      /\ <<"users", u>> \in text["group"]
      /\ text["hostname"] # {}
      /\ CanLogin(u) \/ (h \in Unusable /\ u = seed.user /\ h = seed.hash)

\* "Root shadow locked (!) until an explicit seed changes policy", "empty password
\* rejected": on a canonical image, between any two writes of any boot, root can log
\* in only where a seed said so, and no account has an empty password.
PolicyHolds ==
  Canonical =>
    /\ CanLogin("root") => ~seed.lock_root
    /\ \A u \in Users : <<u, Empty>> \notin text["shadow"]

\* Once firstboot is done no boot touches the accounts again, so what adduser and
\* passwd store there survives every reboot.
DoneIsFinal ==
  [][Canonical /\ Done => \A f \in {"passwd", "shadow", "group"} : text'[f] = text[f]]_vars

\* The seed is one that apply_seed_file rejects on every boot or whose hash
\* verifies no password, or such a hash has been stored already.
SeedShutsOut ==
  \/ "seed" \in exists /\ ~(SeedIsValid /\ seed.hash \in Hashes)
  \/ seed.hash \in Unusable /\ \E u \in ValidUsers : <<u, seed.hash>> \in text["shadow"]

\* A machine with a console ends up with somebody who can log in, unless its seed
\* shuts everybody out.
EventuallyUsable ==
  Canonical /\ ~SeedShutsOut ~> \E u \in Users : CanLogin(u)

=============================================================================
