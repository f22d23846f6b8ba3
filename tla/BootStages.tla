----------------------------- MODULE BootStages -----------------------------
(***************************************************************************)
(* A machine from power on to the login prompt and back: the boot program  *)
(* of runit (services/runit_stage1.c, runit_stage2.c) or of sysvinit and   *)
(* openrc (services/sysvinit_boot.c), the recovery shell                   *)
(* (services/ir0_recovery.c, mount_root_rw.c), the console service up to   *)
(* its prompt (services/runit_console_run.c) with the keyboard layout of   *)
(* module Keymap, and the way down (services/runit_stage3.c,               *)
(* ir0_force_power.c).                                                     *)
(*                                                                         *)
(* A step of the boot that fails is skipped; only a failed exec ends the   *)
(* boot program.  What is written reaches its disk at fsync(2), at sync(2) *)
(* or before, and a power cut may lose what was written since.  Of         *)
(* ir0-firstboot there are here the layout, the home directory and the     *)
(* marker; its account files are in module FirstBoot.                      *)
(***************************************************************************)
EXTENDS Keymap, FiniteSetsExt

CONSTANTS MaxBoots,  \* bound: times the machine is switched on
          Images     \* [init, fsck, home, dennis, seeded, appliance, devs]

\* init: which init system; fsck, home, dennis: are fsck, a home disk and a source
\* mount asked for; seeded: firstboot needs no wizard; devs: the disks fsck tries.
ImageType ==
  [init : {"runit", "sysvinit", "openrc"}, fsck : BOOLEAN, home : BOOLEAN, dennis : BOOLEAN,
   seeded : BOOLEAN, appliance : BOOLEAN, devs : Seq({"absent", "short", "other", "minix"})]

ASSUME MaxBootsAssumption == MaxBoots \in Nat
ASSUME ImagesAssumption == Images \subseteq ImageType

VARIABLES
  image,
  boots,      \* how often it was switched on
  stage,      \* where the boot is
  fsck,       \* what fsck.ir0 told the boot program
  home,       \* the file system /home is on: "root" or "disk"
  done,       \* the marker of ir0-firstboot
  homes,      \* where the user's home directory has been made: "root", "disk"
  disk,       \* the files as they are surely on their disks
  power,      \* "on", and "synced" on the way down
  screen,     \* what the recovery console said of root
  calm,       \* so far in this boot, or since firstboot, nothing failed and no two met
  homeless    \* in some boot a home directory was not made, lost, or not mounted

fixed == <<image, boots>>
stored == <<done, homes, disk>>
rest == <<fixed, fsck, home, stored, power, screen, homeless>>
kernelVars == <<layout, root, keymap, temp, data, run>>  \* of module Keymap, but for faults

bootVars == <<stage, rest>>
vars == <<keymapVars, bootVars, calm>>

Nobody == [p \in Procs |-> Idle]

\* The files as the next boot would find them.
File(i) == IF i = NoInode THEN <<>> ELSE <<data[i]>>
Files == [keymap |-> File(keymap), temp |-> File(temp), done |-> done, homes |-> homes]

\* The root side of some files and the home side of others.
Sides(f, h) == [f EXCEPT !.homes = (@ \cap {"root"}) \cup (h.homes \cap {"disk"})]

\* An image that was never booted, on its disk.
Init ==
  /\ image \in Images /\ boots = 0
  /\ layout = Us /\ root = "rw" /\ keymap = NoInode /\ temp = NoInode
  /\ data = [i \in Inodes |-> <<>>]
  /\ run = Nobody /\ faults = 0
  /\ stage = "off" /\ fsck = "none" /\ home = "root"
  /\ done = FALSE /\ homes = {}
  /\ disk = Files
  /\ power = "on" /\ screen = "none" /\ calm = TRUE /\ homeless = FALSE

-----------------------------------------------------------------------------
(* main of runit_stage1 and of sysvinit_boot                               *)

Steps == <<"fsck", "tmp", "home", "early", "dennis", "handoff">>

\* Bug: firstboot before the home disk is mounted.
NextStepEarly(s) ==
  CASE s = "fsck" -> "tmp" [] s = "tmp" -> "early" [] s = "early" -> "home"
    [] s = "home" -> "dennis" [] OTHER -> "handoff"

\* One after the other, whatever became of the last.
NextStep(s) == CHOOSE n \in {Steps[i] : i \in 2..Len(Steps)} :
                 \E i \in 2..Len(Steps) : n = Steps[i] /\ s = Steps[i - 1]

\* The step s of the boot program is over.
StepOver(s) == stage = s /\ stage' = NextStep(s)

\* A call of it fails, and nobody minds.
SkipStep(s) ==
  /\ StepOver(s) /\ Fault
  /\ UNCHANGED kernelVars

\* The kernel mounts root and runs init.
PowerOn ==
  /\ stage = "off" /\ stage' = "fsck"
  /\ boots < MaxBoots /\ boots' = boots + 1
  /\ UNCHANGED <<keymapVars, image, fsck, home, stored, power, screen, homeless>>

\* main of fsck.ir0: the first device with a readable superblock decides.
fsck_main(devs) ==
  LET usable == {i \in DOMAIN devs : devs[i] \notin {"absent", "short"}}
  IN  IF usable = {} THEN "skipped" ELSE IF devs[Min(usable)] = "minix" THEN "ok" ELSE "fail"

\* The image has no /etc/ir0-skip-fsck.
want_fsck == image.fsck

\* Bug: a failed check ends the boot.
FsckStops ==
  /\ stage = "fsck"
  /\ fsck' = IF want_fsck THEN fsck_main(image.devs) ELSE "none"
  /\ stage' = IF fsck' = "fail" THEN "halted" ELSE "tmp"
  /\ UNCHANGED <<keymapVars, fixed, home, stored, power, screen, homeless>>

\* run_helper waits for fsck.ir0 and ignores what it says.
Fsck ==
  /\ StepOver("fsck")
  /\ fsck' = IF want_fsck THEN fsck_main(image.devs) ELSE "none"
  /\ UNCHANGED <<keymapVars, fixed, home, stored, power, screen, homeless>>

\* fork or exec of fsck.ir0 fails.
FsckNotRun ==
  /\ want_fsck /\ SkipStep("fsck")
  /\ UNCHANGED rest

\* What is at /tmp and at the source tree makes no difference to the rest.
mount_runtime_tmp ==
  /\ StepOver("tmp")
  /\ UNCHANGED <<keymapVars, rest>>

try_mount_dennis_src ==
  /\ StepOver("dennis")
  /\ UNCHANGED <<keymapVars, rest>>

mount_persistent_home ==
  /\ StepOver("home")
  /\ home' = IF image.home THEN "disk" ELSE "root"
  /\ UNCHANGED <<keymapVars, fixed, fsck, stored, power, screen, homeless>>

\* mount(2) fails: /tmp stays on root, the source tree empty, /home on root.
MountFails ==
  /\ \/ SkipStep("tmp") /\ UNCHANGED homeless
     \/ image.home /\ SkipStep("home") /\ homeless' = TRUE
     \/ image.dennis /\ SkipStep("dennis") /\ UNCHANGED homeless
  /\ UNCHANGED <<fixed, fsck, home, stored, power, screen>>

\* fsync of a file of root writes all of root, and nothing of the home disk.
SyncRoot == disk' = Sides(Files', disk)

\* An appliance has no user; else the directory is made where /home is now.
MakeHome ==
  homes' = IF ~image.appliance /\ (home = "disk" \/ root = "rw")
           THEN homes \cup {home} ELSE homes

\* ir0-firstboot makes the home directory, and in the end, synced, the marker;
\* with root read-only it gets no further than the directory.
Accounts(to) ==
  /\ stage' = to
  /\ UNCHANGED keymapVars
  /\ MakeHome
  /\ done' = (root = "rw")
  /\ IF done' THEN SyncRoot ELSE UNCHANGED disk
  /\ UNCHANGED <<fixed, fsck, home, power, screen, homeless>>

\* It fails before or after it has made the directory, or without noticing that
\* it could not.
AccountsFail(to) ==
  /\ stage' = to
  /\ Fault
  /\ UNCHANGED kernelVars
  /\ \/ (MakeHome \/ UNCHANGED homes) /\ UNCHANGED <<done, disk, homeless>>
     \/ root = "rw" /\ done' = TRUE /\ UNCHANGED homes /\ SyncRoot /\ homeless' = TRUE
  /\ UNCHANGED <<fixed, fsck, home, power, screen>>

\* run_firstboot_early: seeded images only, the others have to ask somebody.
FirstbootEarly ==
  /\ stage = "early"
  /\ IF image.seeded /\ ~done THEN Accounts(NextStep("early")) \/ AccountsFail(NextStep("early"))
     ELSE /\ StepOver("early")
          /\ UNCHANGED <<keymapVars, rest>>

\* ir0.recovery=1 is on the command line of this boot, and it can be read, or not.
cmdline_has_recovery == {TRUE, FALSE}

\* exec of the next program, or the end of this one.
Handoff ==
  /\ stage = "handoff"
  /\ \E recovery \in cmdline_has_recovery :
       stage' = IF recovery THEN "recovery" ELSE IF image.init = "runit" THEN "stage2" ELSE "ended"
  /\ fsck' = "none"
  /\ UNCHANGED <<keymapVars, fixed, home, stored, power, screen, homeless>>

\* "return 111"
HandoffFails ==
  /\ stage = "handoff" /\ Fault
  /\ stage' = "ended"
  /\ fsck' = "none"
  /\ UNCHANGED <<kernelVars, fixed, home, stored, power, screen, homeless>>

\* init goes on when its boot program is over, however it ended.
InitGoesOn ==
  /\ stage = "ended"
  /\ stage' = IF image.init = "runit" THEN "stage2" ELSE "services"
  /\ UNCHANGED <<keymapVars, rest>>

\* main of runit_stage2; runit runs it again after "return 111".
Stage2 ==
  /\ stage = "stage2"
  /\ \/ stage' = "services" /\ UNCHANGED faults
     \/ stage' = "stage2" /\ Fault
  /\ UNCHANGED <<kernelVars, rest>>

-----------------------------------------------------------------------------
(* main of runit_console_run, up to the prompt                             *)

\* The console service, started or started again, applies /etc/keymap.
StartConsole ==
  /\ stage = "services" /\ stage' = "apply1"
  /\ Begin(Console, "apply", "read", Us)
  /\ UNCHANGED <<layout, root, keymap, temp, data, faults>>
  /\ UNCHANGED rest

\* It has finished what it was doing.
ConsoleOver(s) == stage = s /\ At(Console, "end") /\ run' = [run EXCEPT ![Console] = Idle]

firstboot_pending == ~done

\* An appliance stops here, a firstboot that is pending runs now.
Applied ==
  /\ ConsoleOver("apply1")
  /\ stage' = IF image.appliance THEN "paused" ELSE IF firstboot_pending THEN "wizard" ELSE "reapply"
  /\ UNCHANGED <<layout, root, keymap, temp, data, faults>>
  /\ UNCHANGED rest

\* wizard_interactive asks for the layout; an answer it does not know means us.
AskLayout ==
  /\ stage = "wizard" /\ ~image.seeded /\ stage' = "layout"
  /\ \E a \in Answers :
       LET l == ir0_keymap_parse(a)
       IN  Begin(Console, "wizard", "open", IF l = Unknown THEN Us ELSE l)
  /\ UNCHANGED <<layout, root, keymap, temp, data, faults>>
  /\ UNCHANGED rest

\* Bug: the console service does not wait for the wizard.
LayoutUnwaited ==
  /\ stage = "layout" /\ stage' = "accounts"
  /\ UNCHANGED <<keymapVars, rest>>

LayoutAsked ==
  /\ ConsoleOver("layout") /\ stage' = "accounts"
  /\ UNCHANGED <<layout, root, keymap, temp, data, faults>>
  /\ UNCHANGED rest

\* The rest of the wizard, or a seed that was not applied early.
FirstbootConsole ==
  /\ stage = "accounts" \/ (stage = "wizard" /\ image.seeded)
  /\ Accounts("reapply") \/ AccountsFail("reapply")

\* run_firstboot_if_pending cannot fork.
WizardNotRun ==
  /\ stage = "wizard" /\ stage' = "reapply" /\ Fault
  /\ UNCHANGED <<kernelVars, rest>>

\* Bug: it is not applied again.
ReapplySkipped ==
  /\ stage = "reapply" /\ stage' = "login"
  /\ UNCHANGED <<keymapVars, rest>>

\* "Firstboot may have written /etc/keymap - re-apply before login."
Reapply ==
  /\ stage = "reapply" /\ stage' = "apply2"
  /\ Begin(Console, "apply", "read", Us)
  /\ UNCHANGED <<layout, root, keymap, temp, data, faults>>
  /\ UNCHANGED rest

\* From here on module ConsoleSession.
Reapplied ==
  /\ ConsoleOver("apply2") /\ stage' = "login"
  /\ UNCHANGED <<layout, root, keymap, temp, data, faults>>
  /\ UNCHANGED rest

\* The service is killed, and its supervisor starts another.
ConsoleDies ==
  /\ stage \in {"apply1", "apply2", "login"} /\ stage' = "services"
  /\ Fault
  /\ run' = [run EXCEPT ![Console] = Idle]
  /\ UNCHANGED <<layout, root, keymap, temp, data>>
  /\ UNCHANGED rest

-----------------------------------------------------------------------------
(* main of ir0_recovery, and its shell                                     *)

\* Bug: root stays as it is.
RemountSkipped ==
  /\ stage = "recovery" /\ stage' = "shell"
  /\ screen' = "ro"
  /\ UNCHANGED <<keymapVars, fixed, fsck, home, stored, power, homeless>>

\* Root becomes read-only, or the screen says that it did not.
RemountRo ==
  /\ stage = "recovery" /\ stage' = "shell"
  /\ \/ root' = "ro" /\ screen' = "ro" /\ UNCHANGED faults
     \/ Fault /\ screen' = "warning" /\ UNCHANGED root
  /\ UNCHANGED <<layout, keymap, temp, data, run>>
  /\ UNCHANGED <<fixed, fsck, home, stored, power, homeless>>

\* It is left when its last command is over.
LeaveShell ==
  /\ stage = "shell" /\ run = Nobody /\ power = "on"
  /\ stage' = "ended" /\ screen' = "none"
  /\ UNCHANGED <<keymapVars, fixed, fsck, home, stored, power, homeless>>

\* exec of the shell fails after a remount that did or did not.
ShellFails ==
  /\ stage = "recovery" /\ stage' = "ended" /\ Fault
  /\ root' \in {root, "ro"}
  /\ UNCHANGED <<layout, keymap, temp, data, run, rest>>

\* main of mount_root_rw, run by root; a failure changes nothing.
MountRootRw ==
  /\ stage \in {"shell", "login"} /\ root = "ro" /\ power = "on"
  /\ root' = "rw"
  /\ screen' = IF stage = "shell" THEN "rw" ELSE screen
  /\ UNCHANGED <<layout, keymap, temp, data, run, faults>>
  /\ UNCHANGED <<stage, fixed, fsck, home, stored, power, homeless>>

-----------------------------------------------------------------------------
(* The keymap tool, run by root                                            *)

RunKeymap ==
  /\ stage \in {"shell", "login"} /\ power = "on"
  /\ \E p \in Tools : StartTool(p)
  /\ UNCHANGED bootVars

KeymapGoesOn ==
  /\ \E p \in Procs : KeymapStep(p)
  /\ UNCHANGED bootVars

-----------------------------------------------------------------------------
(* The way down, and power cuts                                            *)

\* Bug: straight to reboot(2).
SyncSkipped ==
  /\ stage \in {"shell", "login"} /\ power = "on"
  /\ power' = "synced"
  /\ UNCHANGED <<keymapVars, stage, fixed, fsck, home, stored, screen, homeless>>

\* stage 3 of runit, or halt, poweroff or reboot from a shell: first of all sync(2).
Sync ==
  /\ stage \in {"shell", "login"} /\ power = "on"
  /\ power' = "synced"
  /\ disk' = Files
  /\ UNCHANGED <<keymapVars, stage, fixed, fsck, home, done, homes, screen, homeless>>

\* What a power cut may leave of root and of the home disk: what was on the disk at
\* the last sync, or all of it; or a new /etc/keymap without its text, which is
\* not synced before the rename.
Left ==
  LET both == {Sides(f, h) : f \in {disk, Files}, h \in {disk, Files}}
  IN  both \cup (IF keymap # NoInode /\ Files.keymap # disk.keymap
                 THEN {[f EXCEPT !.keymap = <<<<>>>>] : f \in both} ELSE {})

\* The two inodes of the next boot.
Inode1 == CHOOSE k \in Inodes : TRUE
Inode2 == CHOOSE k \in Inodes \ {Inode1} : TRUE

\* Nothing but these files goes on.
Off(left) ==
  /\ stage' = "off"
  /\ disk' = left
  /\ keymap' = IF left.keymap = <<>> THEN NoInode ELSE Inode1
  /\ temp' = IF left.temp = <<>> THEN NoInode ELSE Inode2
  /\ data' = [k \in Inodes |-> IF k = keymap' THEN left.keymap[1]
                               ELSE IF k = temp' THEN left.temp[1] ELSE <<>>]
  /\ done' = left.done /\ homes' = left.homes
  /\ homeless' = (homeless \/ homes # left.homes)
  /\ layout' = Us /\ root' = "rw" /\ run' = Nobody
  /\ fsck' = "none" /\ home' = "root" /\ power' = "on" /\ screen' = "none"
  /\ UNCHANGED <<faults, image, boots>>

\* The kernel writes nothing more on the way.
Reboot == power = "synced" /\ \E left \in Left : Off(left)

\* reboot(2) returns, and so does the program.
RebootFails ==
  /\ power = "synced" /\ power' = "on" /\ Fault
  /\ UNCHANGED kernelVars
  /\ UNCHANGED <<fixed, stage, fsck, home, stored, screen, homeless>>

PowerCut == stage # "off" /\ \E left \in Left : Off(left)

-----------------------------------------------------------------------------
\* The machine gets from power on to a prompt by itself, and the user answers the
\* wizard.
Boot ==
  \/ Fsck \/ FsckNotRun \/ mount_runtime_tmp \/ mount_persistent_home \/ try_mount_dennis_src
  \/ MountFails \/ FirstbootEarly \/ Handoff \/ HandoffFails \/ InitGoesOn \/ Stage2
  \/ StartConsole \/ Applied \/ AskLayout \/ LayoutAsked \/ FirstbootConsole \/ WizardNotRun
  \/ Reapply \/ Reapplied \/ RemountRo \/ KeymapGoesOn

\* What people and supply do.
World ==
  \/ PowerOn \/ ConsoleDies \/ LeaveShell \/ ShellFails \/ MountRootRw \/ RunKeymap
  \/ Sync \/ Reboot \/ RebootFails \/ PowerCut

\* Nothing fails, no process meets another, and none is at work on the way down.
StaysCalm ==
  /\ faults' = faults
  /\ \A p \in Procs : ~run'[p].met /\ run'[p].pc # "fail"
  /\ power' # "on" => run' = Nobody

\* Every power on, and the console service after firstboot, begins anew.
CalmNext == calm' = (stage' = "off" \/ (stage = "reapply" /\ power = "on") \/ (calm /\ StaysCalm))

Next == (Boot \/ World) /\ CalmNext

Spec == Init /\ [][Next]_vars

\* Everything in Boot runs without anybody's help; the user of the wizard answers.
FairSpec == Spec /\ WF_vars(Boot /\ CalmNext)

-----------------------------------------------------------------------------
Stages == {"off", "fsck", "tmp", "home", "early", "dennis", "handoff", "recovery", "shell",
           "ended", "stage2", "services", "apply1", "wizard", "layout", "accounts", "reapply",
           "apply2", "login", "paused"}

\* Two file systems of the machine, root and the home disk.
Disks == {"root", "disk"}

\* Types; the console service is at work exactly in its stages, and a run of keymap
\* is over before a boot begins.
BootTypeOK ==
  /\ KeymapTypeOK
  /\ image \in Images /\ boots \in 0..MaxBoots
  /\ stage \in Stages
  /\ fsck \in {"none", "skipped", "ok", "fail"}
  /\ home \in Disks /\ homes \subseteq Disks /\ done \in BOOLEAN
  /\ DOMAIN disk = {"keymap", "temp", "done", "homes"}
  /\ disk.keymap \in Seq(Seq(Chars)) /\ disk.temp \in Seq(Seq(Chars))
  /\ disk.done \in BOOLEAN /\ disk.homes \subseteq Disks
  /\ power \in {"on", "synced"} /\ screen \in {"none", "warning", "ro", "rw"}
  /\ calm \in BOOLEAN /\ homeless \in BOOLEAN
  /\ Active(Console) <=> stage \in {"apply1", "layout", "apply2"}
  /\ stage \in {"off", "fsck", "tmp", "home", "early", "dennis", "handoff", "recovery"} => run = Nobody

\* A run of keymap that reported success has set the layout and stored it, whole,
\* whatever earlier runs and power cuts had left behind, if no other process came
\* in between.  One failure it does not notice: a write that ends after the first
\* character of the name returns the 1 that "n != 1" takes for the newline.
SuccessIsStored ==
  \A p \in Tools :
    run[p].pc = "ok" /\ ~run[p].met /\ ~run[p].nicked =>
      layout = run[p].want /\ File(keymap) = <<Line(run[p].want)>>

\* "Persist layout from /etc/keymap", "re-apply before login": who faces the prompt
\* types with the layout of the file, whoever wrote it, however often it was changed
\* and whatever failed before the service applied it.
LoginHasStoredLayout ==
  calm /\ stage = "login" /\ run = Nobody =>
    \A l \in Layouts : File(keymap) = <<Line(l)>> => layout = l

\* "stage 3 - sync + halt (ordered shutdown path)": an ordered shutdown loses
\* nothing that was written before, by any boot.
ShutdownKeepsFiles == [][calm /\ power = "synced" /\ stage' = "off" => Files' = Files]_vars

\* The home directory firstboot made once and for all is on the file system that
\* every later boot has at /home, unless the home disk failed or a power cut took
\* the directory and not the marker.
HomeIsReachable == stage = "login" /\ done /\ ~homeless => home \in homes

\* "Root filesystem: read-only", unless the next line says otherwise: keymap, the
\* only program of the recovery shell modelled that writes, changes no file of the
\* root disk before mount-root-rw.  (The home disk stays writable.)
RecoveryKeepsDisk ==
  [][stage = "shell" /\ screen = "ro" => Files' = Files \/ stage' = "off"]_vars

\* Every boot ends at a prompt, or an appliance with its services running, whatever
\* fails on the way.
BootEnds == stage = "fsck" ~> stage \in {"login", "paused", "shell", "off"}

=============================================================================
