--------------------------- MODULE FirstBootProofs ---------------------------
(***************************************************************************)
(* Theorems about FirstBoot, for any users, hashes and seeds and any       *)
(* number of faults and boots.                                             *)
(***************************************************************************)
EXTENDS FirstBoot, SequenceTheorems, TLAPS

\* The lines of the files.
Lines == (Users \X Fields) \cup ({"wheel", "users"} \X Users)
         \cup {<<l>> : l \in Users \cup {"1", "ok", "ir0"}}

\* The items of a plan.
Op == [do : {"write", "unlink", "check"}, file : Files, lines : SUBSET Lines, must : BOOLEAN]

\* The files a finished firstboot has filled, and the markers.
Accounts == {"passwd", "shadow", "group", "hostname"}
Markers == {"done_etc", "done_var"}

\* The texts t let one user log in, or shut everybody out as the seed said.
Complete(t) ==
  \E u \in ValidUsers, h \in Hashes \cup Unusable :
    /\ h \in Unusable => u = seed.user /\ h = seed.hash
    /\ t["passwd"] = {<<"root">>, <<u>>}
    /\ <<u, h>> \in t["shadow"]
    /\ <<"users", u>> \in t["group"]
    /\ t["hostname"] # {}

\* The lines s of a shadow file let root in only where the seed does.
ShadowOK(s) ==
  /\ (\E h \in Hashes \cup {Empty} : <<"root", h>> \in s) => ~seed.lock_root
  /\ \A u \in Users : <<u, Empty>> \notin s

\* The rest of a plan that is to leave the texts w: what is not yet as in w is still
\* to be written, and all of that before the first marker.
Pursues(p, w) ==
  /\ w \in [Files -> SUBSET Lines] /\ Complete(w) /\ ShadowOK(w["shadow"])
  /\ \A i \in 1..Len(p) : p[i].file \in Accounts =>
       p[i].do = "write" /\ p[i].must /\ p[i].lines = w[p[i].file]
  /\ \A i, j \in 1..Len(p) : i < j /\ p[i].file \in Markers => p[j].file \notin Accounts

\* As far as it has been carried out.
InProgress(w) ==
  /\ Pursues(plan, w)
  /\ \A f \in Accounts : text[f] = w[f] \/ \E i \in 1..Len(plan) : plan[i].file = f
  /\ Done => \A i \in 1..Len(plan) : plan[i].file \notin Accounts

\* The variables have their types, the plan among them.
TypeInv ==
  /\ TypeOK
  /\ plan \in Seq(Op)
  /\ opened => plan # <<>>

\* The strengthening: on a canonical image what is stored is fit for use, and what
\* ir0-firstboot is about to do leaves it so.
CanonicalInv ==
  Canonical => /\ ShadowOK(text["shadow"])
               /\ Done => Complete(text)
               /\ Running => \E w : InProgress(w)

IndInv == TypeInv /\ CanonicalInv

-----------------------------------------------------------------------------
(* Plans                                                                   *)

\* The parts of a plan are plans.
LEMMA PartTypes ==
  /\ \A f \in Files, ls \in SUBSET Lines :
       WriteFile(f, ls) \in Op /\ TryWrite(f, ls) \in Op /\ Unlink(f) \in Op
  /\ \A on \in BOOLEAN, f \in Files : Flag(on, f) \in Op
  /\ MarkDone \in Seq(Op) /\ Len(MarkDone) = 3
<1>1. \A f \in Files, ls \in SUBSET Lines :
        WriteFile(f, ls) \in Op /\ TryWrite(f, ls) \in Op /\ Unlink(f) \in Op
  BY DEF WriteFile, TryWrite, Unlink, Op
<1>2. {<<"1">>} \in SUBSET Lines /\ {<<"ok">>} \in SUBSET Lines /\ {} \in SUBSET Lines
  BY DEF Lines
<1>3. \A on \in BOOLEAN, f \in Files : Flag(on, f) \in Op
  BY <1>1, <1>2 DEF Flag
<1>4. [do |-> "check", file |-> "done_etc", lines |-> {}, must |-> TRUE] \in Op
  BY <1>2 DEF Op, Files
<1>5. MarkDone \in Seq(Op) /\ Len(MarkDone) = 3
  BY <1>1, <1>2, <1>4 DEF MarkDone, Files
<1>. QED
  BY <1>1, <1>3, <1>5

\* What stands in the group file and as the password of root.
GroupLines(u, wheel) == {<<"users", u>>} \cup (IF wheel THEN {<<"wheel", u>>} ELSE {})
RootHash(lock_root, h) == IF lock_root THEN Locked ELSE h

\* The plan of write_accounts as one sequence, alone and with the removal of the seed.
LEMMA PlanLiteral ==
  ASSUME NEW o1, NEW o2, NEW o3, NEW o4, NEW o5, NEW o6, NEW o7, NEW o8, NEW o9, NEW o10
  PROVE  (<<o1, o2, o3, o4>> \o <<o5, o6, o7>>) \o <<o8, o9, o10>>
         = <<o1, o2, o3, o4, o5, o6, o7, o8, o9, o10>>
<1>s. PICK S : S = {o1, o2, o3, o4, o5, o6, o7, o8, o9, o10}
  OBVIOUS
<1>l. PICK l : l = (<<o1, o2, o3, o4>> \o <<o5, o6, o7>>) \o <<o8, o9, o10>>
  OBVIOUS
<1>r. PICK r : r = <<o1, o2, o3, o4, o5, o6, o7, o8, o9, o10>>
  OBVIOUS
<1>1. <<o1, o2, o3, o4>> \in Seq(S) /\ <<o5, o6, o7>> \in Seq(S) /\ <<o8, o9, o10>> \in Seq(S)
      /\ r \in Seq(S) /\ Len(r) = 10
  BY <1>s, <1>r
<1>2. l \in Seq(S)
  BY <1>l, <1>1, ConcatProperties, Zenon
<1>3. Len(l) = 10
  BY <1>l
<1>4. /\ l[1] = r[1] /\ l[2] = r[2] /\ l[3] = r[3] /\ l[4] = r[4] /\ l[5] = r[5]
      /\ l[6] = r[6] /\ l[7] = r[7] /\ l[8] = r[8] /\ l[9] = r[9] /\ l[10] = r[10]
  BY <1>l, <1>r
<1>5. \A i \in 1..10 : i = 1 \/ i = 2 \/ i = 3 \/ i = 4 \/ i = 5 \/ i = 6 \/ i = 7 \/ i = 8
                       \/ i = 9 \/ i = 10
  OBVIOUS
<1>6. \A i \in 1..Len(l) : l[i] = r[i]
  BY <1>3, <1>4, <1>5
<1>7. l = r
  BY <1>1, <1>2, <1>3, <1>6, SeqEqual, Zenon
<1>. QED
  BY <1>7, <1>l, <1>r

\* One more item.
LEMMA PlanAndOne ==
  ASSUME NEW o1, NEW o2, NEW o3, NEW o4, NEW o5, NEW o6, NEW o7, NEW o8, NEW o9, NEW o10, NEW o11
  PROVE  <<o1, o2, o3, o4, o5, o6, o7, o8, o9, o10>> \o <<o11>>
         = <<o1, o2, o3, o4, o5, o6, o7, o8, o9, o10, o11>>
<1>s. PICK S : S = {o1, o2, o3, o4, o5, o6, o7, o8, o9, o10, o11}
  OBVIOUS
<1>l. PICK l : l = <<o1, o2, o3, o4, o5, o6, o7, o8, o9, o10>> \o <<o11>>
  OBVIOUS
<1>r. PICK r : r = <<o1, o2, o3, o4, o5, o6, o7, o8, o9, o10, o11>>
  OBVIOUS
<1>1. <<o1, o2, o3, o4, o5, o6, o7, o8, o9, o10>> \in Seq(S) /\ <<o11>> \in Seq(S)
      /\ r \in Seq(S) /\ Len(r) = 11
  BY <1>s, <1>r
<1>2. l \in Seq(S)
  BY <1>l, <1>1, ConcatProperties, Zenon
<1>3. Len(l) = 11
  BY <1>l
<1>4. /\ l[1] = r[1] /\ l[2] = r[2] /\ l[3] = r[3] /\ l[4] = r[4] /\ l[5] = r[5] /\ l[6] = r[6]
      /\ l[7] = r[7] /\ l[8] = r[8] /\ l[9] = r[9] /\ l[10] = r[10] /\ l[11] = r[11]
  BY <1>l, <1>r
<1>5. \A i \in 1..11 : i = 1 \/ i = 2 \/ i = 3 \/ i = 4 \/ i = 5 \/ i = 6 \/ i = 7 \/ i = 8
                       \/ i = 9 \/ i = 10 \/ i = 11
  OBVIOUS
<1>6. \A i \in 1..Len(l) : l[i] = r[i]
  BY <1>3, <1>4, <1>5
<1>7. l = r
  BY <1>1, <1>2, <1>3, <1>6, SeqEqual, Zenon
<1>. QED
  BY <1>7, <1>l, <1>r

\* The items of write_accounts.
LEMMA WriteAccountsItems ==
  ASSUME NEW u, NEW h, NEW wheel, NEW lock_root, NEW recovery
  PROVE  write_accounts(u, h, wheel, lock_root, recovery)
         = << WriteFile("passwd", {<<"root">>, <<u>>}),
              WriteFile("shadow", {<<"root", RootHash(lock_root, h)>>, <<u, h>>}),
              WriteFile("group", GroupLines(u, wheel)), WriteFile("hostname", {<<"ir0">>}),
              Flag(lock_root, "noroot"), Flag(recovery, "recovery"), Unlink("autologin"),
              TryWrite("done_etc", {<<"ok">>}), TryWrite("done_var", {<<"ok">>}),
              [do |-> "check", file |-> "done_etc", lines |-> {}, must |-> TRUE] >>
<1>a. PICK o1, o2, o3, o4 : /\ o1 = WriteFile("passwd", {<<"root">>, <<u>>})
                            /\ o2 = WriteFile("shadow", {<<"root", RootHash(lock_root, h)>>, <<u, h>>})
                            /\ o3 = WriteFile("group", GroupLines(u, wheel))
                            /\ o4 = WriteFile("hostname", {<<"ir0">>})
  OBVIOUS
<1>f. PICK o5, o6, o7 : o5 = Flag(lock_root, "noroot") /\ o6 = Flag(recovery, "recovery")
                        /\ o7 = Unlink("autologin")
  OBVIOUS
<1>m. PICK o8, o9, o10 :
        /\ o8 = TryWrite("done_etc", {<<"ok">>}) /\ o9 = TryWrite("done_var", {<<"ok">>})
        /\ o10 = [do |-> "check", file |-> "done_etc", lines |-> {}, must |-> TRUE]
  OBVIOUS
<1>1. AccountFiles(u, h, wheel, IF lock_root THEN Locked ELSE h) = <<o1, o2, o3, o4>>
  BY <1>a, Zenon DEF AccountFiles, RootHash, GroupLines
<1>2. MarkDone = <<o8, o9, o10>>
  BY <1>m, Zenon DEF MarkDone
<1>3. write_accounts(u, h, wheel, lock_root, recovery)
      = (<<o1, o2, o3, o4>> \o <<o5, o6, o7>>) \o <<o8, o9, o10>>
  BY <1>f, <1>1, <1>2, Zenon DEF write_accounts
<1>4. (<<o1, o2, o3, o4>> \o <<o5, o6, o7>>) \o <<o8, o9, o10>>
      = <<o1, o2, o3, o4, o5, o6, o7, o8, o9, o10>>
  BY PlanLiteral
<1>. QED
  BY <1>a, <1>f, <1>m, <1>3, <1>4, Zenon

\* The account files come first, with the lines of u, and the markers after the flags.
IsAccountPlan(p, u, h, wheel, lock_root) ==
  /\ p \in Seq(Op) /\ Len(p) \in {10, 11}
  /\ p[1] = WriteFile("passwd", {<<"root">>, <<u>>})
  /\ p[2] = WriteFile("shadow", {<<"root", RootHash(lock_root, h)>>, <<u, h>>})
  /\ p[3] = WriteFile("group", GroupLines(u, wheel))
  /\ p[4] = WriteFile("hostname", {<<"ir0">>})
  /\ \A i \in 5..Len(p) : p[i].file \notin Accounts
  /\ \A i \in 5..7 : p[i].file \notin Markers

\* What firstboot is going to do for one user.
LEMMA AccountPlan ==
  ASSUME NEW u \in Users, NEW h \in Fields, NEW wheel \in BOOLEAN,
         NEW lock_root \in BOOLEAN, NEW recovery \in BOOLEAN, NEW p,
         \/ p = write_accounts(u, h, wheel, lock_root, recovery)
         \/ p = write_accounts(u, h, wheel, lock_root, recovery) \o <<Unlink("seed")>>
  PROVE  IsAccountPlan(p, u, h, wheel, lock_root)
<1>1. PICK o1, o2, o3, o4 : /\ o1 = WriteFile("passwd", {<<"root">>, <<u>>})
                            /\ o2 = WriteFile("shadow", {<<"root", RootHash(lock_root, h)>>, <<u, h>>})
                            /\ o3 = WriteFile("group", GroupLines(u, wheel))
                            /\ o4 = WriteFile("hostname", {<<"ir0">>})
  OBVIOUS
<1>2. PICK o5, o6, o7 : o5 = Flag(lock_root, "noroot") /\ o6 = Flag(recovery, "recovery")
                        /\ o7 = Unlink("autologin")
  OBVIOUS
<1>3. PICK o8, o9, o10, o11 :
        /\ o8 = TryWrite("done_etc", {<<"ok">>}) /\ o9 = TryWrite("done_var", {<<"ok">>})
        /\ o10 = [do |-> "check", file |-> "done_etc", lines |-> {}, must |-> TRUE]
        /\ o11 = Unlink("seed")
  OBVIOUS
<1>4. o1 \in Op /\ o2 \in Op /\ o3 \in Op /\ o4 \in Op
  <2>1. /\ {<<"root">>, <<u>>} \in SUBSET Lines
        /\ {<<"root", RootHash(lock_root, h)>>, <<u, h>>} \in SUBSET Lines
        /\ GroupLines(u, wheel) \in SUBSET Lines
        /\ {<<"ir0">>} \in SUBSET Lines
    BY UsersAssumption, HashesAssumption DEF Lines, GroupLines, RootHash, Fields
  <2>. QED
    BY <1>1, <2>1, PartTypes DEF Files
<1>5. o5 \in Op /\ o6 \in Op /\ o7 \in Op
  BY <1>2, PartTypes DEF Files, Lines
<1>6. o8 \in Op /\ o9 \in Op /\ o10 \in Op /\ o11 \in Op
  <2>1. {<<"ok">>} \in SUBSET Lines /\ {} \in SUBSET Lines
    BY DEF Lines
  <2>2. o8 \in Op /\ o9 \in Op /\ o11 \in Op
    BY <1>3, <2>1, PartTypes DEF Files
  <2>3. o10 \in Op
    BY <1>3, <2>1 DEF Op, Files
  <2>. QED
    BY <2>2, <2>3
<1>7. /\ o5.file = "noroot" /\ o6.file = "recovery" /\ o7.file = "autologin"
      /\ o8.file = "done_etc" /\ o9.file = "done_var" /\ o10.file = "done_etc" /\ o11.file = "seed"
  BY <1>2, <1>3 DEF Flag, TryWrite, Unlink
<1>8. /\ o5.file \notin Accounts /\ o6.file \notin Accounts /\ o7.file \notin Accounts
      /\ o8.file \notin Accounts /\ o9.file \notin Accounts /\ o10.file \notin Accounts
      /\ o11.file \notin Accounts
      /\ o5.file \notin Markers /\ o6.file \notin Markers /\ o7.file \notin Markers
  BY <1>7 DEF Accounts, Markers
<1>9. write_accounts(u, h, wheel, lock_root, recovery) = <<o1, o2, o3, o4, o5, o6, o7, o8, o9, o10>>
  BY <1>1, <1>2, <1>3, WriteAccountsItems, Zenon
<1>10. \A i \in 5..7 : i = 5 \/ i = 6 \/ i = 7
  OBVIOUS
<1>11. CASE p = write_accounts(u, h, wheel, lock_root, recovery)
  <2>1. p = <<o1, o2, o3, o4, o5, o6, o7, o8, o9, o10>>
    BY <1>9, <1>11, Zenon
  <2>2. p \in Seq(Op)
    BY <1>4, <1>5, <1>6, <2>1
  <2>3. /\ Len(p) = 10
        /\ p[1] = o1 /\ p[2] = o2 /\ p[3] = o3 /\ p[4] = o4 /\ p[5] = o5 /\ p[6] = o6
        /\ p[7] = o7 /\ p[8] = o8 /\ p[9] = o9 /\ p[10] = o10
    BY <2>1
  <2>4. \A i \in 5..10 : i = 5 \/ i = 6 \/ i = 7 \/ i = 8 \/ i = 9 \/ i = 10
    OBVIOUS
  <2>5. \A i \in 5..10 : p[i].file \notin Accounts
    BY <1>8, <2>3, <2>4
  <2>6. \A i \in 5..7 : p[i].file \notin Markers
    BY <1>8, <1>10, <2>3
  <2>. QED
    BY <1>1, <2>2, <2>3, <2>5, <2>6 DEF IsAccountPlan
<1>12. CASE p = write_accounts(u, h, wheel, lock_root, recovery) \o <<Unlink("seed")>>
  <2>1. p = <<o1, o2, o3, o4, o5, o6, o7, o8, o9, o10, o11>>
    <3>1. p = <<o1, o2, o3, o4, o5, o6, o7, o8, o9, o10>> \o <<o11>>
      BY <1>3, <1>9, <1>12, Zenon
    <3>2. <<o1, o2, o3, o4, o5, o6, o7, o8, o9, o10>> \o <<o11>>
          = <<o1, o2, o3, o4, o5, o6, o7, o8, o9, o10, o11>>
      BY PlanAndOne
    <3>. QED
      BY <3>1, <3>2, Zenon
  <2>2. p \in Seq(Op)
    BY <1>4, <1>5, <1>6, <2>1
  <2>3. /\ Len(p) = 11
        /\ p[1] = o1 /\ p[2] = o2 /\ p[3] = o3 /\ p[4] = o4 /\ p[5] = o5 /\ p[6] = o6
        /\ p[7] = o7 /\ p[8] = o8 /\ p[9] = o9 /\ p[10] = o10 /\ p[11] = o11
    BY <2>1
  <2>4. \A i \in 5..11 : i = 5 \/ i = 6 \/ i = 7 \/ i = 8 \/ i = 9 \/ i = 10 \/ i = 11
    OBVIOUS
  <2>5. \A i \in 5..11 : p[i].file \notin Accounts
    BY <1>8, <2>3, <2>4
  <2>6. \A i \in 5..7 : p[i].file \notin Markers
    BY <1>8, <1>10, <2>3
  <2>. QED
    BY <1>1, <2>2, <2>3, <2>5, <2>6 DEF IsAccountPlan
<1>. QED
  BY <1>11, <1>12

\* A plan that pursues the accounts of one user, all of them.
IsForOneUser(p) ==
  /\ \E w : Pursues(p, w)
  /\ \A f \in Accounts : \E i \in 1..Len(p) : p[i].file = f

\* A plan for a valid user with a password, or with the field of the seed, is one.
LEMMA AccountPlanPursues ==
  ASSUME NEW u \in ValidUsers, NEW h \in Hashes \cup Unusable, NEW wheel \in BOOLEAN,
         NEW lock_root \in BOOLEAN, NEW recovery \in BOOLEAN, NEW p,
         \/ p = write_accounts(u, h, wheel, lock_root, recovery)
         \/ p = write_accounts(u, h, wheel, lock_root, recovery) \o <<Unlink("seed")>>,
         seed.lock_root => lock_root,
         h \in Unusable => u = seed.user /\ h = seed.hash
  PROVE  IsForOneUser(p)
<1>r. PICK r : r = RootHash(lock_root, h)
  OBVIOUS
<1>g. PICK group : group = GroupLines(u, wheel)
  OBVIOUS
<1>w. PICK w : w = [f \in Files |-> IF f = "passwd" THEN {<<"root">>, <<u>>}
                                    ELSE IF f = "shadow" THEN {<<"root", r>>, <<u, h>>}
                                    ELSE IF f = "group" THEN group
                                    ELSE IF f = "hostname" THEN {<<"ir0">>} ELSE {}]
  OBVIOUS
<1>1. u \in Users /\ u # "root" /\ r \in Fields /\ h \in Fields /\ h # Empty
  BY <1>r, UsersAssumption, HashesAssumption DEF RootHash, Fields
<1>2. /\ p \in Seq(Op) /\ Len(p) \in {10, 11}
      /\ p[1] = WriteFile("passwd", {<<"root">>, <<u>>})
      /\ p[2] = WriteFile("shadow", {<<"root", r>>, <<u, h>>})
      /\ p[3] = WriteFile("group", group)
      /\ p[4] = WriteFile("hostname", {<<"ir0">>})
      /\ \A i \in 5..Len(p) : p[i].file \notin Accounts
      /\ \A i \in 5..7 : p[i].file \notin Markers
  <2>1. IsAccountPlan(p, u, h, wheel, lock_root)
    BY <1>1, AccountPlan, Zenon
  <2>. QED
    BY <1>r, <1>g, <2>1 DEF IsAccountPlan
<1>3. group \in SUBSET Lines
  BY <1>1, <1>g, UsersAssumption DEF GroupLines, Lines
<1>4. /\ w \in [Files -> SUBSET Lines]
      /\ w["passwd"] = {<<"root">>, <<u>>} /\ w["shadow"] = {<<"root", r>>, <<u, h>>}
      /\ w["group"] = group /\ w["hostname"] = {<<"ir0">>}
  <2>1. /\ {<<"root">>, <<u>>} \in SUBSET Lines
        /\ {<<"root", r>>, <<u, h>>} \in SUBSET Lines
        /\ {<<"ir0">>} \in SUBSET Lines /\ {} \in SUBSET Lines
    BY <1>1, UsersAssumption DEF Lines
  <2>. QED
    BY <1>w, <1>3, <2>1 DEF Files
<1>5. Complete(w)
  <2>1. <<u, h>> \in w["shadow"] /\ <<"users", u>> \in w["group"] /\ w["hostname"] # {}
    BY <1>4, <1>g DEF GroupLines
  <2>. QED
    BY <1>4, <2>1 DEF Complete
<1>6. ShadowOK(w["shadow"])
  <2>1. \A x \in Hashes \cup {Empty} : <<"root", x>> \in w["shadow"] => x = r
    BY <1>1, <1>4
  <2>2. r \in Hashes \cup {Empty} => ~seed.lock_root
    BY <1>r, HashesAssumption DEF Locked, Empty, RootHash
  <2>3. \A x \in Users : <<x, Empty>> \in w["shadow"] => r = Empty
    BY <1>1, <1>4
  <2>4. r # Empty
    BY <1>1, <1>r DEF RootHash, Locked, Empty
  <2>. QED
    BY <2>1, <2>2, <2>3, <2>4 DEF ShadowOK
<1>7. /\ p[1].file = "passwd" /\ p[2].file = "shadow" /\ p[3].file = "group" /\ p[4].file = "hostname"
      /\ p[1].lines = w["passwd"] /\ p[2].lines = w["shadow"] /\ p[3].lines = w["group"]
      /\ p[4].lines = w["hostname"]
      /\ p[1].do = "write" /\ p[2].do = "write" /\ p[3].do = "write" /\ p[4].do = "write"
      /\ p[1].must /\ p[2].must /\ p[3].must /\ p[4].must
  BY <1>2, <1>4 DEF WriteFile
<1>c. \A i \in 1..Len(p) : i = 1 \/ i = 2 \/ i = 3 \/ i = 4 \/ i \in 5..Len(p)
  BY <1>2
<1>8. \A i \in 1..Len(p) : p[i].file \in Accounts =>
        p[i].do = "write" /\ p[i].must /\ p[i].lines = w[p[i].file]
  BY <1>2, <1>7, <1>c
<1>9. \A i, j \in 1..Len(p) : i < j /\ p[i].file \in Markers => p[j].file \notin Accounts
  <2>1. \A i \in 1..4 : p[i].file \notin Markers
    <3>1. \A i \in 1..4 : i = 1 \/ i = 2 \/ i = 3 \/ i = 4
      OBVIOUS
    <3>. QED
      BY <3>1, <1>7 DEF Markers
  <2>. QED
    BY <1>2, <2>1
<1>10. \A f \in Accounts : \E i \in 1..Len(p) : p[i].file = f
  <2>1. 1 \in 1..Len(p) /\ 2 \in 1..Len(p) /\ 3 \in 1..Len(p) /\ 4 \in 1..Len(p)
    BY <1>2
  <2>. QED
    BY <1>7, <2>1 DEF Accounts
<1>11. Pursues(p, w)
  BY <1>4, <1>5, <1>6, <1>8, <1>9 DEF Pursues
<1>. QED
  BY <1>10, <1>11 DEF IsForOneUser

\* The other two plans.
LEMMA OtherPlans == seed_development \in Seq(Op) /\ seed_appliance \in Seq(Op)
<1>1. /\ {<<"root">>} \in SUBSET Lines /\ {<<"root", Empty>>, <<"labuser", Empty>>} \in SUBSET Lines
      /\ {<<"root", Locked>>} \in SUBSET Lines /\ {<<"ir0">>} \in SUBSET Lines /\ {} \in SUBSET Lines
  BY UsersAssumption, HashesAssumption DEF Lines, Fields
<1>2. /\ WriteFile("autologin", {<<"root">>}) \in Op
      /\ WriteFile("shadow", {<<"root", Empty>>, <<"labuser", Empty>>}) \in Op
      /\ WriteFile("passwd", {<<"root">>}) \in Op /\ WriteFile("shadow", {<<"root", Locked>>}) \in Op
      /\ WriteFile("group", {}) \in Op /\ TryWrite("hostname", {<<"ir0">>}) \in Op
      /\ Flag(TRUE, "noroot") \in Op /\ Unlink("autologin") \in Op
  BY <1>1, PartTypes DEF Files
<1>3. write_accounts("labuser", Empty, TRUE, FALSE, TRUE) \in Seq(Op)
  <2>1. "labuser" \in Users /\ Empty \in Fields
    BY UsersAssumption DEF Fields
  <2>2. PICK p : p = write_accounts("labuser", Empty, TRUE, FALSE, TRUE)
    OBVIOUS
  <2>3. IsAccountPlan(p, "labuser", Empty, TRUE, FALSE)
    BY <2>1, <2>2, AccountPlan, Zenon
  <2>. QED
    BY <2>2, <2>3 DEF IsAccountPlan
<1>4. seed_development \in Seq(Op)
  <2>1. <<WriteFile("autologin", {<<"root">>})>> \in Seq(Op)
    BY <1>2
  <2>2. << WriteFile("autologin", {<<"root">>}),
           WriteFile("shadow", {<<"root", Empty>>, <<"labuser", Empty>>}) >> \in Seq(Op)
    BY <1>2
  <2>. QED
    BY <1>3, <2>1, <2>2, ConcatProperties, Zenon DEF seed_development
<1>5. seed_appliance \in Seq(Op)
  <2>1. << WriteFile("passwd", {<<"root">>}), WriteFile("shadow", {<<"root", Locked>>}),
           WriteFile("group", {}), TryWrite("hostname", {<<"ir0">>}),
           Flag(TRUE, "noroot"), Unlink("autologin") >> \in Seq(Op)
    <3>1. ASSUME NEW o1 \in Op, NEW o2 \in Op, NEW o3 \in Op, NEW o4 \in Op, NEW o5 \in Op, NEW o6 \in Op
          PROVE  <<o1, o2, o3, o4, o5, o6>> \in Seq(Op)
      OBVIOUS
    <3>. QED
      BY <1>2, <3>1, Zenon
  <2>. QED
    BY <2>1, PartTypes, ConcatProperties, Zenon DEF seed_appliance
<1>. QED
  BY <1>4, <1>5

\* What the seed says, in its types.
LEMMA SeedTypes ==
  ASSUME seed \in Seeds
  PROVE  /\ seed.user \in Users /\ seed.hash \in Fields
         /\ seed.wheel \in BOOLEAN /\ seed.lock_root \in BOOLEAN /\ seed.recovery \in BOOLEAN
  BY SeedsAssumption

\* The plan of a seed file is a plan; on a canonical image it ends with the seed.
LEMMA SeedPlan ==
  ASSUME seed \in Seeds, NEW p,
         p = write_accounts(seed.user, seed.hash, seed.wheel, seed.lock_root, seed.recovery)
             \o IF profile = "development" THEN <<>> ELSE <<Unlink("seed")>>
  PROVE  /\ p \in Seq(Op)
         /\ profile # "development" =>
              p = write_accounts(seed.user, seed.hash, seed.wheel, seed.lock_root, seed.recovery)
                  \o <<Unlink("seed")>>
<1>q. PICK q : q = write_accounts(seed.user, seed.hash, seed.wheel, seed.lock_root, seed.recovery)
  OBVIOUS
<1>1. q \in Seq(Op)
  <2>1. IsAccountPlan(q, seed.user, seed.hash, seed.wheel, seed.lock_root)
    BY <1>q, SeedTypes, AccountPlan, Zenon
  <2>. QED
    BY <2>1 DEF IsAccountPlan
<1>2. Unlink("seed") \in Op
  BY PartTypes DEF Files, Lines
<1>3. <<Unlink("seed")>> \in Seq(Op)
  BY <1>2
<1>4. CASE profile = "development"
  <2>1. p = q \o <<>>
    BY <1>q, <1>4, Zenon
  <2>. QED
    BY <1>1, <1>4, <2>1, ConcatEmptySeq
<1>5. CASE profile # "development"
  <2>1. p = q \o <<Unlink("seed")>>
    BY <1>q, <1>5, Zenon
  <2>2. q \o <<Unlink("seed")>> \in Seq(Op)
    BY <1>1, <1>3, ConcatProperties, Zenon
  <2>. QED
    BY <1>q, <2>1, <2>2, Zenon
<1>. QED
  BY <1>4, <1>5

\* Once the head of the plan is dealt with.
LEMMA TailFacts ==
  ASSUME NEW p \in Seq(Op), p # <<>>
  PROVE  /\ Tail(p) \in Seq(Op) /\ Head(p) \in Op /\ Head(p) = p[1] /\ 1 \in 1..Len(p)
         /\ Len(Tail(p)) = Len(p) - 1
         /\ \A i \in 1..Len(Tail(p)) : Tail(p)[i] = p[i + 1] /\ i + 1 \in 1..Len(p)
         /\ \A i \in 1..Len(p) : i = 1 \/ (i - 1 \in 1..Len(Tail(p)) /\ Tail(p)[i - 1] = p[i])
  OBVIOUS

LEMMA TailPursues ==
  ASSUME NEW p \in Seq(Op), p # <<>>, NEW w, Pursues(p, w)
  PROVE  Pursues(Tail(p), w)
<1>1. \A i \in 1..Len(Tail(p)) : Tail(p)[i].file \in Accounts =>
        Tail(p)[i].do = "write" /\ Tail(p)[i].must /\ Tail(p)[i].lines = w[Tail(p)[i].file]
  BY TailFacts DEF Pursues
<1>2. \A i, j \in 1..Len(Tail(p)) :
        i < j /\ Tail(p)[i].file \in Markers => Tail(p)[j].file \notin Accounts
  <2>. SUFFICES ASSUME NEW i \in 1..Len(Tail(p)), NEW j \in 1..Len(Tail(p)), i < j,
                       Tail(p)[i].file \in Markers
                PROVE  Tail(p)[j].file \notin Accounts
    OBVIOUS
  <2>1. /\ Tail(p)[i] = p[i + 1] /\ i + 1 \in 1..Len(p)
        /\ Tail(p)[j] = p[j + 1] /\ j + 1 \in 1..Len(p)
    BY TailFacts
  <2>2. i + 1 < j + 1
    OBVIOUS
  <2>3. p[i + 1].file \in Markers
    BY <2>1
  <2>. QED
    BY <2>1, <2>2, <2>3, Zenon DEF Pursues
<1>. QED
  BY <1>1, <1>2 DEF Pursues

\* The head of a plan that is being carried out.
LEMMA HeadFacts ==
  ASSUME NEW p \in Seq(Op), p # <<>>, NEW w, Pursues(p, w)
  PROVE  /\ Head(p).file \in Accounts =>
              Head(p).do = "write" /\ Head(p).must /\ Head(p).lines = w[Head(p).file]
         /\ Head(p).file \in Markers => \A j \in 1..Len(p) : p[j].file \notin Accounts
<1>1. Head(p) = p[1] /\ 1 \in 1..Len(p)
  BY TailFacts
<1>2. Accounts \cap Markers = {}
  BY DEF Accounts, Markers
<1>. QED
  BY <1>1, <1>2 DEF Pursues

-----------------------------------------------------------------------------
(* Types                                                                   *)

LEMMA TypeOKIsTyped ==
  TypeOK <=> /\ profile \in Profiles /\ seed \in Seeds
             /\ exists \subseteq Files
             /\ text \in [Files -> SUBSET Lines]
             /\ \A f \in Files \ exists : text[f] = {}
             /\ pc \in PCs
             /\ (~Running => plan = <<>> /\ ~opened /\ ~marked)
             /\ (opened => Head(plan).do = "write" /\ Head(plan).file \in exists)
             /\ faults \in 0..MaxFaults
  BY DEF TypeOK, Lines

\* After one run there is no other before the next step of the boot.
LEMMA AfterIsIdle == After \in PCs /\ After \notin {"early_run", "console_run"}
  BY DEF After, PCs

LEMMA InitTypes == Init => TypeInv
<1>. SUFFICES ASSUME Init PROVE TypeInv
  OBVIOUS
<1>1. exists \subseteq Files
  BY DEF Init, Files
<1>2. text \in [Files -> SUBSET Lines]
  <2>1. /\ {<<"root">>} \cup {} \in SUBSET Lines /\ {<<"root">>} \cup {<<"labuser">>} \in SUBSET Lines
        /\ {<<"root", Empty>>, <<"labuser", Empty>>} \in SUBSET Lines
        /\ {<<"root", Locked>>} \in SUBSET Lines /\ {} \in SUBSET Lines /\ {<<"root">>} \in SUBSET Lines
    BY UsersAssumption, HashesAssumption DEF Lines, Fields
  <2>. QED
    BY <2>1 DEF Init, Files
<1>3. \A f \in Files \ exists : text[f] = {}
  <2>. SUFFICES ASSUME NEW f \in Files \ exists
                PROVE  text[f] = {}
    OBVIOUS
  <2>1. f # "passwd" /\ f # "shadow" /\ (f = "autologin" => profile # "development")
    BY DEF Init
  <2>. QED
    BY <2>1 DEF Init, Files
<1>4. plan = <<>> /\ plan \in Seq(Op) /\ ~opened /\ ~marked /\ pc = "off" /\ faults \in 0..MaxFaults
  BY MaxFaultsAssumption DEF Init
<1>5. profile \in Profiles /\ seed \in Seeds
  BY DEF Init
<1>. QED
  BY <1>1, <1>2, <1>3, <1>4, <1>5, TypeOKIsTyped DEF TypeInv, PCs

\* The state that TypeInv leaves to a boot step that begins no run.
LEMMA IdleStep ==
  ASSUME TypeInv, pc' \in PCs, pc' \notin {"early_run", "console_run"},
         plan' = <<>>, ~opened', ~marked', faults' \in 0..MaxFaults,
         UNCHANGED <<profile, seed, exists, text>>
  PROVE  TypeInv'
  BY DEF TypeInv, TypeOK, Running, PCs

LEMMA StartTypes ==
  ASSUME TypeInv, NEW p \in Seq(Op), pc \in {"early", "console"}, Start(p)
  PROVE  TypeInv'
  BY DEF TypeInv, TypeOK, Running, PCs, Start

LEMMA TypeStep == TypeInv /\ [Next]_vars => TypeInv'
<1>. SUFFICES ASSUME TypeInv, [Next]_vars PROVE TypeInv'
  OBVIOUS
<1>t. /\ profile \in Profiles /\ seed \in Seeds
      /\ exists \subseteq Files
      /\ text \in [Files -> SUBSET Lines]
      /\ \A f \in Files \ exists : text[f] = {}
      /\ pc \in PCs
      /\ (~Running => plan = <<>> /\ ~opened /\ ~marked)
      /\ (opened => Head(plan).do = "write" /\ Head(plan).file \in exists)
      /\ faults \in 0..MaxFaults
      /\ plan \in Seq(Op) /\ (opened => plan # <<>>)
  BY TypeOKIsTyped DEF TypeInv
<1>1. CASE PowerOn
  <2>1. pc' \in PCs /\ pc' \notin {"early_run", "console_run"} /\ ~Running
    BY <1>1 DEF PowerOn, PCs, Running
  <2>. QED
    BY <1>t, <1>1, <2>1 DEF PowerOn, TypeInv, TypeOK, Running
<1>2. CASE SkipFirstboot
  <2>1. pc' = After /\ ~Running
    BY <1>2 DEF SkipFirstboot, Running
  <2>. QED
    BY <1>t, <1>2, <2>1, AfterIsIdle DEF SkipFirstboot, TypeInv, TypeOK, Running
<1>3. CASE StartDevelopment
  BY <1>3, OtherPlans, StartTypes DEF StartDevelopment
<1>4. CASE StartAppliance
  BY <1>4, OtherPlans, StartTypes DEF StartAppliance
<1>5. CASE StartSeed
  <2>1. PICK p : p = write_accounts(seed.user, seed.hash, seed.wheel, seed.lock_root, seed.recovery)
                     \o IF profile = "development" THEN <<>> ELSE <<Unlink("seed")>>
    OBVIOUS
  <2>2. p \in Seq(Op)
    BY <1>t, <2>1, SeedPlan
  <2>3. pc \in {"early", "console"} /\ Start(p)
    BY <1>5, <2>1, Zenon DEF StartSeed
  <2>. QED
    BY <2>2, <2>3, StartTypes
<1>6. CASE AnswerWizard
  <2>1. PICK u \in ValidUsers, h \in Hashes : Start(write_accounts(u, h, TRUE, TRUE, TRUE))
    BY <1>6 DEF AnswerWizard
  <2>2. PICK p : p = write_accounts(u, h, TRUE, TRUE, TRUE)
    OBVIOUS
  <2>3. u \in Users /\ h \in Fields
    BY UsersAssumption DEF Fields
  <2>4. IsAccountPlan(p, u, h, TRUE, TRUE)
    BY <2>2, <2>3, AccountPlan, Zenon
  <2>5. p \in Seq(Op)
    BY <2>4 DEF IsAccountPlan
  <2>6. pc \in {"early", "console"} /\ Start(p)
    BY <1>6, <2>1, <2>2, Zenon DEF AnswerWizard
  <2>. QED
    BY <2>5, <2>6, StartTypes
<1>7. CASE Truncate
  <2>1. plan # <<>> /\ Head(plan) \in Op /\ Head(plan).do = "write"
    BY <1>t, <1>7, TailFacts DEF Truncate, Doing
  <2>2. Head(plan).file \in Files
    BY <2>1 DEF Op
  <2>3. text' \in [Files -> SUBSET Lines] /\ exists' \subseteq Files
        /\ (\A f \in Files \ exists' : text'[f] = {}) /\ Head(plan).file \in exists'
    BY <1>t, <1>7, <2>2 DEF Truncate
  <2>. QED
    BY <1>t, <1>7, <2>1, <2>3 DEF Truncate, Doing, TypeInv, TypeOK, Running, Lines
<1>8. CASE Fill
  <2>1. Running /\ plan # <<>> /\ Head(plan) \in Op /\ Tail(plan) \in Seq(Op)
    BY <1>t, <1>8, TailFacts DEF Fill, Doing
  <2>2. Head(plan).file \in Files /\ Head(plan).lines \in SUBSET Lines /\ Head(plan).file \in exists
    BY <1>t, <1>8, <2>1 DEF Op, Fill
  <2>3. text' \in [Files -> SUBSET Lines] /\ \A f \in Files \ exists : text'[f] = {}
    BY <1>t, <1>8, <2>2 DEF Fill
  <2>. QED
    BY <1>t, <1>8, <2>1, <2>3 DEF Fill, TypeInv, TypeOK, Running, Lines
<1>9. CASE Remove
  <2>1. Running /\ plan # <<>> /\ Head(plan) \in Op /\ Head(plan).do = "unlink" /\ Tail(plan) \in Seq(Op)
    BY <1>t, <1>9, TailFacts DEF Remove, Doing
  <2>2. Head(plan).file \in Files /\ ~opened
    BY <1>t, <2>1 DEF Op
  <2>3. text' \in [Files -> SUBSET Lines] /\ exists' \subseteq Files
        /\ \A f \in Files \ exists' : text'[f] = {}
    BY <1>t, <1>9, <2>2 DEF Remove
  <2>. QED
    BY <1>t, <1>9, <2>1, <2>2, <2>3 DEF Remove, TypeInv, TypeOK, Running, Lines
<1>10. CASE CheckMarked
  <2>1. Running /\ plan # <<>> /\ Head(plan).do = "check" /\ Tail(plan) \in Seq(Op) /\ ~opened
    BY <1>t, <1>10, TailFacts DEF CheckMarked, Doing
  <2>2. CASE marked
    BY <1>t, <1>10, <2>1, <2>2 DEF CheckMarked, TypeInv, TypeOK, Running
  <2>3. CASE ~marked
    BY <1>t, <1>10, <2>1, <2>3, AfterIsIdle, IdleStep DEF CheckMarked, GiveUp
  <2>. QED
    BY <2>2, <2>3
<1>11. CASE FinishFirstboot
  BY <1>t, <1>11, AfterIsIdle, IdleStep DEF FinishFirstboot
<1>12. CASE FirstbootFails
  <2>1. faults' \in 0..MaxFaults
    BY <1>t, <1>12, MaxFaultsAssumption DEF FirstbootFails
  <2>. QED
    BY <1>t, <1>12, <2>1, AfterIsIdle, IdleStep DEF FirstbootFails, Running
<1>13. CASE OperationFails
  <2>1. Running /\ plan # <<>> /\ Tail(plan) \in Seq(Op)
    BY <1>t, <1>13, TailFacts DEF OperationFails, Doing
  <2>2. faults' \in 0..MaxFaults
    BY <1>t, <1>13, MaxFaultsAssumption DEF OperationFails
  <2>3. CASE Head(plan).must
    BY <1>13, <2>2, <2>3, AfterIsIdle, IdleStep DEF OperationFails, GiveUp
  <2>4. CASE ~Head(plan).must
    BY <1>t, <1>13, <2>1, <2>2, <2>4 DEF OperationFails, TypeInv, TypeOK, Running
  <2>. QED
    BY <2>3, <2>4
<1>14. CASE PowerCut
  <2>1. faults' \in 0..MaxFaults
    BY <1>t, <1>14, MaxFaultsAssumption DEF PowerCut
  <2>. QED
    BY <1>14, <2>1, IdleStep DEF PowerCut, PCs
<1>15. CASE Reboot
  BY <1>t, <1>15, IdleStep DEF Reboot, PCs, Running
<1>16. CASE UNCHANGED vars
  BY <1>16 DEF vars, TypeInv, TypeOK, Running
<1>. QED
  BY <1>1, <1>2, <1>3, <1>4, <1>5, <1>6, <1>7, <1>8, <1>9, <1>10, <1>11, <1>12, <1>13, <1>14,
     <1>15, <1>16 DEF Next, Boot

-----------------------------------------------------------------------------
(* The canonical images                                                    *)

LEMMA InitCanonical == Init => CanonicalInv
<1>. SUFFICES ASSUME Init, Canonical PROVE ShadowOK(text["shadow"]) /\ ~Done /\ ~Running
  BY DEF CanonicalInv
<1>1. text["shadow"] = {<<"root", Locked>>}
  BY DEF Init, Canonical, Files
<1>2. ShadowOK(text["shadow"])
  <2>1. Locked \notin Hashes \cup {Empty}
    BY HashesAssumption DEF Locked, Empty
  <2>2. \A x, y : <<x, y>> \in text["shadow"] => y = Locked
    BY <1>1
  <2>3. Empty # Locked
    BY DEF Locked, Empty
  <2>. QED
    BY <2>1, <2>2, <2>3 DEF ShadowOK
<1>3. ~Done
  BY DEF Init, Done
<1>4. ~Running
  BY DEF Init, Running
<1>. QED
  BY <1>2, <1>3, <1>4

\* ShadowOK and Complete speak of nothing but the seed and the text.
LEMMA StoredIsKept ==
  ASSUME CanonicalInv, UNCHANGED <<profile, seed, exists, text>>, ~Running'
  PROVE  CanonicalInv'
  BY DEF CanonicalInv, Canonical, ShadowOK, Complete, Done

\* A run that begins on a canonical image pursues the accounts of one user.
LEMMA StartCanonical ==
  ASSUME TypeInv, CanonicalInv, Canonical, NEW p, Start(p), IsForOneUser(p)
  PROVE  CanonicalInv'
<1>1. PICK w : Pursues(p, w)
  BY DEF IsForOneUser
<1>2. plan' = p /\ UNCHANGED <<profile, seed, exists, text>> /\ ~Done
  BY DEF Start
<1>3. Pursues(p, w)'
  <2>1. ShadowOK(w["shadow"])' <=> ShadowOK(w["shadow"])
    BY <1>2 DEF ShadowOK
  <2>. QED
    BY <1>1, <1>2, <2>1 DEF Pursues, Complete
<1>. QED
  <2>1. ~Done'
    BY <1>2 DEF Done
  <2>2. InProgress(w)'
    BY <1>2, <1>3, <2>1 DEF InProgress, IsForOneUser
  <2>3. ShadowOK(text["shadow"])'
    BY <1>2 DEF CanonicalInv, ShadowOK
  <2>. QED
    BY <2>1, <2>2, <2>3 DEF CanonicalInv

\* What is left of a run on a canonical image after the head of its plan.
LEMMA HeadIsDone ==
  ASSUME TypeInv, Canonical, NEW w, InProgress(w), plan # <<>>,
         plan' = Tail(plan), UNCHANGED <<profile, seed>>,
         Head(plan).file \in Accounts => text'[Head(plan).file] = w[Head(plan).file],
         \A f \in Accounts : f # Head(plan).file => text'[f] = text[f],
         Done' => Done
  PROVE  InProgress(w)'
<1>p. plan \in Seq(Op)
  BY DEF TypeInv
<1>1. Pursues(plan', w)
  BY <1>p, TailPursues DEF InProgress
<1>2. Pursues(plan, w)'
  <2>1. ShadowOK(w["shadow"])' <=> ShadowOK(w["shadow"])
    BY DEF ShadowOK
  <2>. QED
    BY <1>1, <2>1 DEF Pursues, Complete
<1>3. \A f \in Accounts : text'[f] = w[f] \/ \E i \in 1..Len(plan') : plan'[i].file = f
  <2>. SUFFICES ASSUME NEW f \in Accounts, f # Head(plan).file, text[f] # w[f]
                PROVE  \E i \in 1..Len(plan') : plan'[i].file = f
    OBVIOUS
  <2>1. PICK i \in 1..Len(plan) : plan[i].file = f
    BY DEF InProgress
  <2>2. i # 1
    BY <1>p, <2>1, TailFacts
  <2>3. i - 1 \in 1..Len(Tail(plan)) /\ Tail(plan)[i - 1] = plan[i]
    BY <1>p, <2>2, TailFacts
  <2>. QED
    BY <2>1, <2>3
<1>4. Done' => \A i \in 1..Len(plan') : plan'[i].file \notin Accounts
  BY <1>p, TailFacts DEF InProgress
<1>. QED
  BY <1>2, <1>3, <1>4 DEF InProgress

\* A finished run has left what it pursued.
LEMMA WhatItPursued ==
  ASSUME TypeInv, NEW w, InProgress(w), \A i \in 1..Len(plan) : plan[i].file \notin Accounts
  PROVE  Complete(text)
<1>1. \A f \in Accounts : text[f] = w[f]
  BY DEF InProgress
<1>2. text["passwd"] = w["passwd"] /\ text["shadow"] = w["shadow"] /\ text["group"] = w["group"]
      /\ text["hostname"] = w["hostname"]
  BY <1>1 DEF Accounts
<1>3. Complete(w)
  BY DEF InProgress, Pursues
<1>. QED
  BY <1>2, <1>3 DEF Complete

\* The account files that a done firstboot leaves alone.
LEMMA DoneLeavesAccounts ==
  ASSUME TypeInv, Canonical, Done, Running, plan # <<>>, CanonicalInv
  PROVE  Head(plan).file \notin Accounts
<1>1. PICK w : InProgress(w)
  BY DEF CanonicalInv
<1>2. plan \in Seq(Op)
  BY DEF TypeInv
<1>3. Head(plan) = plan[1] /\ 1 \in 1..Len(plan)
  BY <1>2, TailFacts
<1>. QED
  BY <1>1, <1>3 DEF InProgress

\* An image keeps its profile and its seed.
LEMMA ImageIsKept == [Next]_vars => profile' = profile /\ seed' = seed
<1>1. Next => profile' = profile /\ seed' = seed
  BY DEF Next, Boot, PowerOn, SkipFirstboot, StartDevelopment, StartAppliance,
     StartSeed, AnswerWizard, Start, Truncate, Fill, Remove, CheckMarked, FinishFirstboot,
     FirstbootFails, OperationFails, PowerCut, Reboot
<1>2. UNCHANGED vars => profile' = profile /\ seed' = seed
  BY DEF vars
<1>. QED
  BY <1>1, <1>2

\* Every step keeps what is stored on a canonical image fit for use.
LEMMA CanonicalStep == TypeInv /\ CanonicalInv /\ [Next]_vars => CanonicalInv'
<1>. SUFFICES ASSUME TypeInv, CanonicalInv, [Next]_vars PROVE CanonicalInv'
  OBVIOUS
<1>c. Canonical' => Canonical
  BY ImageIsKept DEF Canonical
<1>. SUFFICES ASSUME Canonical PROVE CanonicalInv'
  BY <1>c DEF CanonicalInv
<1>t. /\ text \in [Files -> SUBSET Lines] /\ plan \in Seq(Op) /\ seed \in Seeds
      /\ (opened => plan # <<>> /\ Head(plan).do = "write")
      /\ (~Running => plan = <<>>)
  BY TypeOKIsTyped DEF TypeInv
<1>p. profile # "development" /\ profile # "appliance"
  BY DEF Canonical
<1>1. CASE PowerOn
  BY <1>1, StoredIsKept DEF PowerOn, Running
<1>2. CASE SkipFirstboot
  BY <1>2, StoredIsKept, AfterIsIdle DEF SkipFirstboot, Running
<1>3. CASE StartDevelopment
  BY <1>3, <1>p DEF StartDevelopment
<1>4. CASE StartAppliance
  BY <1>4, <1>p DEF StartAppliance
<1>5. CASE StartSeed
  <2>1. PICK p : p = write_accounts(seed.user, seed.hash, seed.wheel, seed.lock_root, seed.recovery)
                     \o IF profile = "development" THEN <<>> ELSE <<Unlink("seed")>>
    OBVIOUS
  <2>2. p = write_accounts(seed.user, seed.hash, seed.wheel, seed.lock_root, seed.recovery)
            \o <<Unlink("seed")>>
    BY <1>t, <1>p, <2>1, SeedPlan
  <2>3. /\ seed.user \in ValidUsers /\ seed.hash \in Hashes \cup Unusable
        /\ seed.wheel \in BOOLEAN /\ seed.lock_root \in BOOLEAN /\ seed.recovery \in BOOLEAN
    BY <1>t, <1>5, SeedTypes DEF StartSeed, SeedIsValid, Fields
  <2>4. IsForOneUser(p)
    BY <2>2, <2>3, AccountPlanPursues
  <2>5. Start(p)
    BY <1>5, <2>1, Zenon DEF StartSeed
  <2>. QED
    BY <2>4, <2>5, StartCanonical, Zenon
<1>6. CASE AnswerWizard
  <2>1. PICK u \in ValidUsers, h \in Hashes : Start(write_accounts(u, h, TRUE, TRUE, TRUE))
    BY <1>6 DEF AnswerWizard
  <2>2. PICK p : p = write_accounts(u, h, TRUE, TRUE, TRUE)
    OBVIOUS
  <2>3. IsForOneUser(p)
    <3>1. h \in Hashes \cup Unusable /\ h \notin Unusable
      BY HashesAssumption
    <3>. QED
      BY <2>2, <3>1, AccountPlanPursues
  <2>4. Start(p)
    BY <2>1, <2>2, Zenon
  <2>. QED
    BY <2>3, <2>4, StartCanonical, Zenon
<1>7. ASSUME Running, plan # <<>>, Truncate
      PROVE  CanonicalInv'
  <2>1. PICK w : InProgress(w)
    BY <1>7 DEF CanonicalInv
  <2>2. /\ UNCHANGED <<profile, seed, pc, plan>> /\ exists' = exists \cup {Head(plan).file}
        /\ text' = [text EXCEPT ![Head(plan).file] = {}]
    BY <1>7 DEF Truncate
  <2>3. Head(plan) = plan[1] /\ 1 \in 1..Len(plan) /\ Head(plan) \in Op /\ Head(plan).file \in Files
    BY <1>t, <1>7, TailFacts DEF Op
  <2>4. Done' <=> Done \/ Head(plan).file \in Markers
    BY <2>2 DEF Done, Markers
  <2>5. Done' => \A i \in 1..Len(plan) : plan[i].file \notin Accounts
    BY <1>t, <1>7, <2>1, <2>4, HeadFacts DEF InProgress
  <2>6. \A f \in Accounts : f # Head(plan).file => text'[f] = text[f]
    BY <1>t, <2>2, <2>3 DEF Accounts, Files
  <2>7. InProgress(w)'
    <3>1. Pursues(plan, w)'
      BY <2>1, <2>2 DEF InProgress, Pursues, ShadowOK, Complete
    <3>2. \A f \in Accounts : text'[f] = w[f] \/ \E i \in 1..Len(plan) : plan[i].file = f
      BY <2>1, <2>3, <2>6 DEF InProgress
    <3>. QED
      BY <2>2, <2>5, <3>1, <3>2 DEF InProgress
  <2>8. ShadowOK(text["shadow"])'
    <3>1. text'["shadow"] = text["shadow"] \/ text'["shadow"] = {}
      BY <1>t, <2>2, <2>3 DEF Files
    <3>. QED
      BY <2>2, <3>1 DEF CanonicalInv, ShadowOK
  <2>9. Done' => Complete(text')
    <3>. SUFFICES ASSUME Done' PROVE Complete(text')
      OBVIOUS
    <3>1. Complete(text)
      BY <2>1, <2>5, WhatItPursued
    <3>2. \A f \in Accounts : text'[f] = text[f]
      BY <2>3, <2>5, <2>6
    <3>. QED
      BY <3>1, <3>2 DEF Complete, Accounts
  <2>. QED
    BY <2>2, <2>7, <2>8, <2>9 DEF CanonicalInv, Complete
<1>8. ASSUME Running, plan # <<>>, Fill
      PROVE  CanonicalInv'
  <2>1. PICK w : InProgress(w)
    BY <1>8 DEF CanonicalInv
  <2>2. /\ UNCHANGED <<profile, seed, pc, exists>> /\ plan' = Tail(plan)
        /\ text' = [text EXCEPT ![Head(plan).file] = Head(plan).lines]
    BY <1>8 DEF Fill
  <2>3. Head(plan) \in Op /\ Head(plan).file \in Files
    BY <1>t, <1>8, TailFacts DEF Op
  <2>4. Head(plan).file \in Accounts => text'[Head(plan).file] = w[Head(plan).file]
    BY <1>t, <1>8, <2>1, <2>2, <2>3, HeadFacts DEF InProgress
  <2>5. \A f \in Accounts : f # Head(plan).file => text'[f] = text[f]
    BY <1>t, <2>2, <2>3 DEF Accounts, Files
  <2>6. Done' = Done
    BY <2>2 DEF Done
  <2>7. InProgress(w)'
    BY <1>8, <2>1, <2>2, <2>4, <2>5, <2>6, HeadIsDone
  <2>8. ShadowOK(text["shadow"])'
    <3>1. text'["shadow"] = text["shadow"] \/ text'["shadow"] = w["shadow"]
      BY <2>4, <2>5 DEF Accounts
    <3>2. ShadowOK(text["shadow"]) /\ ShadowOK(w["shadow"])
      BY <2>1 DEF CanonicalInv, InProgress, Pursues
    <3>. QED
      BY <2>2, <3>1, <3>2 DEF ShadowOK
  <2>9. Done' => Complete(text')
    <3>. SUFFICES ASSUME Done' PROVE Complete(text')
      OBVIOUS
    <3>1. Complete(text) /\ Head(plan).file \notin Accounts
      BY <1>8, <2>6, DoneLeavesAccounts DEF CanonicalInv
    <3>. QED
      BY <2>5, <3>1 DEF Complete, Accounts
  <2>. QED
    BY <2>2, <2>7, <2>8, <2>9 DEF CanonicalInv, Complete
<1>9. ASSUME Running, plan # <<>>, plan' = Tail(plan), UNCHANGED <<profile, seed, pc>>,
             exists' \subseteq exists, Head(plan).file \notin Accounts,
             \A f \in Accounts : text'[f] = text[f]
      PROVE  CanonicalInv'
  <2>1. PICK w : InProgress(w)
    BY <1>9 DEF CanonicalInv
  <2>2. Done' => Done
    BY <1>9 DEF Done
  <2>3. InProgress(w)'
    BY <1>9, <2>1, <2>2, HeadIsDone
  <2>4. text'["shadow"] = text["shadow"] /\ text'["passwd"] = text["passwd"]
        /\ text'["group"] = text["group"] /\ text'["hostname"] = text["hostname"]
    BY <1>9 DEF Accounts
  <2>5. ShadowOK(text["shadow"])'
    BY <1>9, <2>4 DEF CanonicalInv, ShadowOK
  <2>6. Done' => Complete(text')
    BY <2>2, <2>4 DEF CanonicalInv, Complete
  <2>. QED
    BY <1>9, <2>3, <2>5, <2>6 DEF CanonicalInv, Complete
<1>h. ASSUME Running, plan # <<>>, Head(plan).do # "write" \/ ~Head(plan).must
      PROVE  Head(plan).file \notin Accounts
  <2>1. PICK w : InProgress(w)
    BY <1>h DEF CanonicalInv
  <2>. QED
    BY <1>t, <1>h, <2>1, HeadFacts DEF InProgress
<1>10. CASE Remove
  <2>1. /\ Running /\ plan # <<>> /\ Head(plan).do = "unlink" /\ plan' = Tail(plan)
        /\ UNCHANGED <<profile, seed, pc>> /\ exists' \subseteq exists
        /\ text' = [text EXCEPT ![Head(plan).file] = {}]
    BY <1>10 DEF Remove, Doing
  <2>2. Head(plan).file \notin Accounts
    BY <1>h, <2>1
  <2>3. \A f \in Accounts : text'[f] = text[f]
    BY <1>t, <2>1, <2>2 DEF Accounts, Files
  <2>. QED
    BY <1>9, <2>1, <2>2, <2>3
<1>11. CASE CheckMarked
  <2>1. Running /\ plan # <<>> /\ Head(plan).do = "check" /\ UNCHANGED <<profile, seed, exists, text>>
    BY <1>11 DEF CheckMarked, Doing
  <2>2. CASE marked
    BY <1>9, <1>11, <1>h, <2>1, <2>2 DEF CheckMarked
  <2>3. CASE ~marked
    BY <1>11, <2>1, <2>3, AfterIsIdle, StoredIsKept DEF CheckMarked, GiveUp, Running
  <2>. QED
    BY <2>2, <2>3
<1>12. CASE OperationFails
  <2>1. Running /\ plan # <<>> /\ UNCHANGED <<profile, seed, exists, text>>
    BY <1>12 DEF OperationFails, Doing
  <2>2. CASE Head(plan).must
    BY <1>12, <2>1, <2>2, AfterIsIdle, StoredIsKept DEF OperationFails, GiveUp, Running
  <2>3. CASE ~Head(plan).must
    BY <1>9, <1>12, <1>h, <2>1, <2>3 DEF OperationFails
  <2>. QED
    BY <2>2, <2>3
<1>13. CASE FinishFirstboot
  BY <1>13, AfterIsIdle, StoredIsKept DEF FinishFirstboot, Running
<1>14. CASE FirstbootFails
  BY <1>14, AfterIsIdle, StoredIsKept DEF FirstbootFails, Running
<1>15. CASE PowerCut
  BY <1>15, StoredIsKept DEF PowerCut, Running
<1>16. CASE Reboot
  BY <1>16, StoredIsKept DEF Reboot, Running
<1>17. CASE UNCHANGED vars
  <2>1. ASSUME NEW w, InProgress(w)
        PROVE  InProgress(w)'
    BY <1>17, <2>1 DEF vars, InProgress, Pursues, Complete, ShadowOK, Done
  <2>2. Running' => \E w : InProgress(w)'
    BY <1>17, <2>1 DEF vars, CanonicalInv, Running
  <2>3. ShadowOK(text["shadow"])' /\ (Done' => Complete(text'))
    BY <1>17 DEF vars, CanonicalInv, ShadowOK, Complete, Done
  <2>. QED
    BY <1>17, <2>2, <2>3 DEF vars, CanonicalInv, Complete
<1>18. Truncate \/ Fill => Running /\ plan # <<>>
  BY DEF Truncate, Fill, Doing
<1>. QED
  BY <1>1, <1>2, <1>3, <1>4, <1>5, <1>6, <1>7, <1>8, <1>10, <1>11, <1>12, <1>13, <1>14, <1>15,
     <1>16, <1>17, <1>18 DEF Next, Boot

\* The strengthening is inductive.
LEMMA Inductive == Spec => []IndInv
<1>1. Init => IndInv
  BY InitTypes, InitCanonical DEF IndInv
<1>2. IndInv /\ [Next]_vars => IndInv'
  BY TypeStep, CanonicalStep DEF IndInv
<1>. QED
  BY <1>1, <1>2, PTL DEF Spec

-----------------------------------------------------------------------------
(* Theorems                                                                *)

\* The variables keep their types (services/ir0_firstboot.c).
THEOREM FirstBootTypeCorrect == Spec => []TypeOK
<1>1. IndInv => TypeOK
  BY DEF IndInv, TypeInv
<1>. QED
  BY <1>1, Inductive, PTL

\* Whatever was cut short on whatever boot: a canonical image on which firstboot will
\* not run again (already_done) has its user, who can log in unless the seed gave him
\* a field that no password verifies (apply_seed_file, ir0_password_verify).
THEOREM MarkerComesLast == Spec => []DoneMeansComplete
<1>1. IndInv => DoneMeansComplete
  <2>. SUFFICES ASSUME IndInv, Canonical, Done
                PROVE  \E u \in ValidUsers, h \in Hashes \cup Unusable :
                         /\ text["passwd"] = {<<"root">>, <<u>>}
                         /\ <<u, h>> \in text["shadow"]
                         /\ <<"users", u>> \in text["group"]
                         /\ text["hostname"] # {}
                         /\ CanLogin(u) \/ (h \in Unusable /\ u = seed.user /\ h = seed.hash)
    BY DEF DoneMeansComplete
  <2>1. PICK u \in ValidUsers, h \in Hashes \cup Unusable :
          /\ h \in Unusable => u = seed.user /\ h = seed.hash
          /\ text["passwd"] = {<<"root">>, <<u>>}
          /\ <<u, h>> \in text["shadow"]
          /\ <<"users", u>> \in text["group"]
          /\ text["hostname"] # {}
    BY DEF IndInv, CanonicalInv, Complete
  <2>2. u # "root"
    BY UsersAssumption
  <2>3. h \in Hashes => CanLogin(u)
    BY <2>1, <2>2 DEF CanLogin
  <2>. QED
    BY <2>1, <2>3
<1>. QED
  BY <1>1, Inductive, PTL

\* On a canonical image root has a password only where the seed says so, and nobody
\* an empty one, between any two writes of any boot.
THEOREM PolicyIsKept == Spec => []PolicyHolds
<1>1. IndInv => PolicyHolds
  BY DEF IndInv, CanonicalInv, ShadowOK, PolicyHolds, CanLogin
<1>. QED
  BY <1>1, Inductive, PTL

\* Where firstboot is done no boot writes the account files.
THEOREM DoneStaysDone == Spec => DoneIsFinal
<1>1. IndInv /\ [Next]_vars =>
        [Canonical /\ Done => \A f \in {"passwd", "shadow", "group"} : text'[f] = text[f]]_vars
  <2>. SUFFICES ASSUME IndInv, Next, Canonical, Done, NEW f \in {"passwd", "shadow", "group"}
                PROVE  text'[f] = text[f]
    OBVIOUS
  <2>t. text \in [Files -> SUBSET Lines] /\ f \in Files /\ f \in Accounts
    BY TypeOKIsTyped DEF IndInv, TypeInv, Files, Accounts
  <2>1. Running /\ plan # <<>> => Head(plan).file \notin Accounts
    BY DoneLeavesAccounts DEF IndInv
  <2>2. CASE Truncate
    BY <2>t, <2>1, <2>2 DEF Truncate, Doing
  <2>3. CASE Fill
    BY <2>t, <2>1, <2>3 DEF Fill, Doing
  <2>4. CASE Remove
    BY <2>t, <2>1, <2>4 DEF Remove, Doing
  <2>5. CASE ~(Truncate \/ Fill \/ Remove)
    <3>1. text' = text
      BY <2>5 DEF Next, Boot, PowerOn, SkipFirstboot, StartDevelopment, StartAppliance, StartSeed,
         AnswerWizard, Start, CheckMarked, FinishFirstboot, FirstbootFails, OperationFails,
         PowerCut, Reboot
    <3>. QED
      BY <3>1
  <2>. QED
    BY <2>2, <2>3, <2>4, <2>5
<1>. QED
  BY <1>1, Inductive, PTL DEF Spec, DoneIsFinal

=============================================================================
