-------------------------- MODULE BootStagesProofs --------------------------
(***************************************************************************)
(* The machine for any image, any number of runs of keymap at once, any    *)
(* number of boots, failures and power cuts: what keymap reports, what the *)
(* prompt finds, what a shutdown keeps and what the recovery shell leaves  *)
(* alone.                                                                  *)
(***************************************************************************)
EXTENDS BootStages, FiniteSetTheorems, SequenceTheorems, TLAPS

-----------------------------------------------------------------------------
(* The inductive invariant                                                 *)

Texts == Seq(Chars)

DiskType == [keymap : Seq(Texts), temp : Seq(Texts), done : BOOLEAN, homes : SUBSET Disks]

\* Each process does its own jobs, and has nothing when it does none.
JobsOK ==
  /\ \A p \in Procs : ~Active(p) => run[p] = Idle
  /\ run[Console].job \in {"none", "wizard", "apply"} /\ run[Console].pc \notin {"ok", "fail"}
  /\ run[Console].job = "apply" => run[Console].pc \in {"read", "set", "end"}
  /\ stage \in {"apply1", "apply2"} => run[Console].job = "apply"
  /\ \A p \in Tools : run[p].job \in {"none", "tool"} /\ run[p].pc \notin {"read", "end"}

\* Two at work have met.
MeetOK ==
  \A p, q \in Procs : p # q /\ Active(p) /\ Active(q) => run[p].met

\* The file i has the line of p's layout, if p noticed every failure.
Wrote(p, i) == ~run[p].nicked => i # NoInode /\ data[i] = Line(run[p].want)

\* What a run of keymap that met nobody has done at each point.
ToolOK(p) ==
  ~run[p].met =>
    /\ run[p].pc \in {"open", "name", "newline", "close", "rename", "ok"} => layout = run[p].want
    /\ run[p].pc \in {"name", "newline", "close"} => temp = run[p].fd
    /\ At(p, "name") => data[temp] = <<>>
    /\ At(p, "newline") => data[temp] = ir0_keymap_name(run[p].want) /\ ~run[p].nicked
    /\ At(p, "close") /\ run[p].put = 1 => Wrote(p, temp)
    /\ At(p, "rename") => Wrote(p, temp)
    /\ At(p, "ok") => Wrote(p, keymap)

\* The layout is the one of the file, if the file names one.
Says(l) == \A k \in Layouts : File(keymap) = <<Line(k)>> => l = k

\* Nobody meets anybody after the layout has been applied, and what was changed
\* since is as the tool left it.
LoginOK ==
  /\ calm /\ stage = "apply2" =>
       \/ At(Console, "read")
       \/ /\ \A p \in Procs : ~run[p].met
          /\ At(Console, "set") => Says(run[Console].want)
          /\ At(Console, "end") => Says(layout)
  /\ calm /\ stage = "login" =>
       /\ \A p \in Procs : ~run[p].met /\ ~run[p].nicked /\ ~At(p, "fail")
       /\ run = Nobody => Says(layout)

\* A shutdown without incidents finds nobody at work, and everything on disk.
SyncedOK ==
  calm /\ power = "synced" => stage \in {"shell", "login"} /\ run = Nobody /\ disk = Files

\* Where /home is when every mount succeeds.
HomeDisk == IF image.home THEN "disk" ELSE "root"

\* Firstboot finds /home mounted; behind every marker there is a directory.
HomeOK ==
  ~homeless =>
    /\ stage \notin {"off", "fsck", "tmp", "home"} => home = HomeDisk
    /\ done \/ disk.done => HomeDisk \in homes \/ image.appliance

\* An appliance never gets to firstboot or a prompt.
ApplianceOK ==
  stage \in {"wizard", "layout", "accounts", "reapply", "apply2", "login"} => ~image.appliance

\* In a read-only shell nobody has a file open for writing.
RecoveryOK ==
  stage = "shell" /\ screen = "ro" => root = "ro" /\ \A p \in Procs : run[p].fd = NoInode

TypeInv == BootTypeOK /\ disk \in DiskType /\ JobsOK

KeymapInv == MeetOK /\ \A p \in Tools : ToolOK(p)

IndInv ==
  TypeInv /\ KeymapInv /\ LoginOK /\ SyncedOK /\ HomeOK /\ ApplianceOK /\ RecoveryOK

-----------------------------------------------------------------------------
(* Texts                                                                   *)

LEMMA NameType ==
  ASSUME NEW l \in Layouts
  PROVE  /\ ir0_keymap_name(l) \in Texts /\ Len(ir0_keymap_name(l)) >= 2
         /\ Line(l) \in Texts
         /\ Line(l) = ir0_keymap_name(l) \o <<NL>>
<1>1. CASE l = Latam
  <2>1. ir0_keymap_name(l) = <<"l", "a", "t", "a", "m">>
    BY <1>1 DEF ir0_keymap_name
  <2>. QED
    BY <2>1 DEF Line, Texts, Chars, NL
<1>2. CASE l # Latam
  <2>1. ir0_keymap_name(l) = <<"u", "s">>
    BY <1>2 DEF ir0_keymap_name
  <2>. QED
    BY <2>1 DEF Line, Texts, Chars, NL
<1>. QED
  BY <1>1, <1>2

LEMMA ParseType ==
  ASSUME NEW text
  PROVE  ir0_keymap_parse(text) \in Layouts \cup {Unknown}
BY DEF ir0_keymap_parse, Layouts

\* Reading a word, character by character.
LEMMA ReadsIs ==
  ASSUME NEW S, NEW text \in Seq(S), NEW w \in Seq(S)
  PROVE  Reads(text, w) <=>
           /\ Len(text) >= Len(w)
           /\ \A i \in 1..Len(w) : text[i] = w[i]
           /\ Len(text) > Len(w) => text[Len(w) + 1] \in {NL, NUL}
<1>1. ASSUME Len(text) >= Len(w)
      PROVE  SubSeq(text, 1, Len(w)) = w <=> \A i \in 1..Len(w) : text[i] = w[i]
  <2>1. /\ SubSeq(text, 1, Len(w)) \in Seq(S) /\ Len(SubSeq(text, 1, Len(w))) = Len(w)
        /\ \A i \in 1..Len(w) : SubSeq(text, 1, Len(w))[i] = text[i]
    BY <1>1
  <2>. QED
    BY <2>1, SeqEqual
<1>. QED
  BY <1>1 DEF Reads

\* A line of one word reads as this word.
LEMMA LineReads ==
  ASSUME NEW S, NEW w \in Seq(S), NL \in S
  PROVE  Reads(Append(w, NL), w)
<1>1. /\ Append(w, NL) \in Seq(S) /\ Len(Append(w, NL)) = Len(w) + 1
      /\ \A i \in 1..Len(w) : Append(w, NL)[i] = w[i]
      /\ Append(w, NL)[Len(w) + 1] = NL
  BY AppendProperties
<1>. HIDE DEF NL
<1>2. PICK line \in Seq(S) : line = Append(w, NL)
  BY <1>1
<1>3. Len(line) >= Len(w)
  BY <1>1, <1>2
<1>. QED
  BY <1>1, <1>2, <1>3, ReadsIs

\* A text with another first character does not.
LEMMA ReadsNot ==
  ASSUME NEW S, NEW text \in Seq(S), NEW w \in Seq(S), Len(w) > 0, text[1] # w[1]
  PROVE  ~Reads(text, w)
<1>1. 1 \in 1..Len(w)
  OBVIOUS
<1>. QED
  BY <1>1, ReadsIs

\* A whole line is read as the layout it was written for.
LEMMA ParseLine ==
  ASSUME NEW l \in Layouts
  PROVE  ir0_keymap_parse(Line(l)) = l /\ l # Unknown
<1> DEFINE Alphabet == {"u", "s", "l", "a", "t", "m", "0", "NL"}
<1>1. PICK us : us = <<"u", "s">>
  OBVIOUS
<1>2. PICK latam : latam = <<"l", "a", "t", "a", "m">>
  OBVIOUS
<1>3. PICK zero : zero = <<"0">>
  OBVIOUS
<1>us. us \in Seq(Alphabet) /\ Len(us) = 2 /\ us[1] = "u"
  BY <1>1
<1>latam. latam \in Seq(Alphabet) /\ Len(latam) = 5 /\ latam[1] = "l"
  BY <1>2
<1>zero. zero \in Seq(Alphabet) /\ Len(zero) = 1 /\ zero[1] = "0"
  BY <1>3
<1>5. /\ ir0_keymap_name(Latam) = latam /\ ir0_keymap_name(Us) = us
      /\ \A text : Reads(text, us) => ir0_keymap_parse(text) = Us
      /\ \A text : Reads(text, latam) /\ ~Reads(text, us) /\ ~Reads(text, zero)
                     => ir0_keymap_parse(text) = Latam
  <2>1. ir0_keymap_name(Latam) = latam /\ ir0_keymap_name(Us) = us
    BY <1>1, <1>2 DEF ir0_keymap_name, Us, Latam
  <2>2. ASSUME NEW text, Reads(text, us)
        PROVE  ir0_keymap_parse(text) = Us
    <3>1. \E w \in {<<"u", "s">>, <<"0">>} : Reads(text, w)
      BY <1>1, <2>2, Zenon
    <3>. QED
      BY <3>1, Zenon DEF ir0_keymap_parse
  <2>3. ASSUME NEW text, Reads(text, latam), ~Reads(text, us), ~Reads(text, zero)
        PROVE  ir0_keymap_parse(text) = Latam
    <3>1. ~\E w \in {<<"u", "s">>, <<"0">>} : Reads(text, w)
      BY <1>1, <1>3, <2>3, Zenon
    <3>2. \E w \in {<<"l", "a", "t", "a", "m">>, <<"l", "a">>, <<"e", "s">>, <<"1">>} : Reads(text, w)
      BY <1>2, <2>3, Zenon
    <3>. QED
      BY <3>1, <3>2, Zenon DEF ir0_keymap_parse
  <2>. QED
    BY <2>1, <2>2, <2>3
<1>6. NL \in Alphabet
  BY DEF NL
<1>. HIDE DEF Alphabet
<1>7. CASE l = Latam
  <2>1. Line(l) = Append(latam, NL)
    BY <1>5, <1>7 DEF Line
  <2>2. Line(l) \in Seq(Alphabet) /\ Line(l)[1] = "l"
    BY <1>latam, <1>6, <2>1, AppendProperties
  <2>3. ~Reads(Line(l), us)
    BY <1>us, <2>2, ReadsNot
  <2>4. ~Reads(Line(l), zero)
    BY <1>zero, <2>2, ReadsNot
  <2>. QED
    <3>1. Reads(Line(l), latam)
      BY <1>latam, <1>6, <2>1, LineReads
    <3>. QED
      BY <1>5, <1>7, <2>3, <2>4, <3>1 DEF Latam, Unknown
<1>8. CASE l = Us
  <2>1. Line(l) = Append(us, NL)
    BY <1>5, <1>8 DEF Line
  <2>. QED
    <3>1. Reads(Line(l), us)
      BY <1>us, <1>6, <2>1, LineReads
    <3>. QED
      BY <1>5, <1>8, <3>1 DEF Us, Unknown
<1>. QED
  BY <1>7, <1>8 DEF Layouts

\* Two layouts have two lines.
LEMMA LinesDiffer ==
  ASSUME NEW k \in Layouts, NEW l \in Layouts, Line(k) = Line(l)
  PROVE  k = l
BY ParseLine, Zenon

LEMMA WriteAtType ==
  ASSUME NEW t \in Texts, NEW offset \in Nat, NEW s \in Texts
  PROVE  WriteAt(t, offset, s) \in Texts
<1> DEFINE end == offset + Len(s)
           size == IF end > Len(t) THEN end ELSE Len(t)
<1>1. size \in Nat
  BY DEF Texts
<1>2. ASSUME NEW i \in 1..size
      PROVE  (IF i \in (offset + 1)..end THEN s[i - offset]
              ELSE IF i <= Len(t) THEN t[i] ELSE NUL) \in Chars
  BY <1>1, <1>2 DEF Texts, Chars, NUL
<1>3. WriteAt(t, offset, s) = [i \in 1..size |->
         IF i \in (offset + 1)..end THEN s[i - offset]
         ELSE IF i <= Len(t) THEN t[i] ELSE NUL]
  BY DEF WriteAt
<1>. QED
  BY <1>1, <1>2, <1>3 DEF Texts

\* A write at the end of the file appends.
LEMMA WriteAtEnd ==
  ASSUME NEW t \in Texts, NEW s \in Texts
  PROVE  WriteAt(t, Len(t), s) = t \o s
<1>1. WriteAt(t, Len(t), s) \in Texts /\ t \o s \in Texts
  BY WriteAtType DEF Texts
<1>2. Len(WriteAt(t, Len(t), s)) = Len(t) + Len(s) /\ Len(t \o s) = Len(t) + Len(s)
  BY DEF WriteAt, Texts
<1>3. ASSUME NEW i \in 1..Len(t) + Len(s)
      PROVE  WriteAt(t, Len(t), s)[i] = (t \o s)[i]
  BY <1>3 DEF WriteAt, Texts
<1>. QED
  BY <1>1, <1>2, <1>3, SeqEqual DEF Texts

-----------------------------------------------------------------------------
(* Processes                                                               *)

LEMMA IdleType == Idle \in Job
BY DEF Idle, Job, Layouts, Us

\* A process that opens the copy finds an inode nobody uses: the others have one
\* each at most, and /etc/keymap is one more.
LEMMA FreeInode ==
  ASSUME KeymapTypeOK, NEW p \in Procs, run[p].fd = NoInode, temp = NoInode
  PROVE  \E j \in Inodes : j \notin Linked
<1>1. SUFFICES ASSUME \A j \in Inodes : j \in Linked PROVE FALSE
  OBVIOUS
<1> DEFINE g == [j \in Inodes |-> IF j = keymap THEN p ELSE CHOOSE q \in Procs : run[q].fd = j]
<1>2. ASSUME NEW j \in Inodes, j # keymap
      PROVE  g[j] \in Procs /\ run[g[j]].fd = j
  <2>1. \E q \in Procs : run[q].fd = j
    BY <1>1, <1>2, NoInodeAssumption DEF Linked
  <2>2. (CHOOSE q \in Procs : run[q].fd = j) \in Procs
        /\ run[CHOOSE q \in Procs : run[q].fd = j].fd = j
    BY <2>1, Zenon
  <2>. QED
    BY <1>2, <2>2
<1>3. g \in [Inodes -> Procs]
  BY <1>2
<1>4. Cardinality(Inodes) \in Nat /\ Cardinality(Procs) \in Nat
  BY InodesAssumption, FS_CardinalityType
<1>5. PICK x \in Inodes, y \in Inodes : x # y /\ g[x] = g[y]
  <2>. HIDE DEF g
  <2>. QED
    BY <1>3, <1>4, InodesAssumption, FS_PigeonHole
<1>6. CASE x # keymap /\ y # keymap
  BY <1>2, <1>5, <1>6
<1>7. CASE x = keymap \/ y = keymap
  <2>1. p \in Procs /\ g[keymap] = p
    BY <1>7
  <2>2. \A j \in Inodes : j # NoInode
    BY NoInodeAssumption
  <2>. QED
    BY <1>2, <1>5, <1>7, <2>1, <2>2
<1>. QED
  BY <1>6, <1>7

\* open finds the file of that name, or a new one.
LEMMA OpensInode ==
  ASSUME KeymapTypeOK, NEW p \in Procs, OpenTemp(p)
  PROVE  \E i \in Inodes :
           /\ i = temp \/ i \notin Linked
           /\ temp' = i /\ data' = [data EXCEPT ![i] = <<>>]
           /\ run' = [run EXCEPT ![p].pc = "name", ![p].fd = i]
<1>1. run[p].fd = NoInode /\ temp \in Inodes \cup {NoInode}
  BY DEF KeymapTypeOK, OpenTemp, At
<1>2. CASE temp # NoInode
  BY <1>1, <1>2 DEF OpenTemp
<1>3. CASE temp = NoInode
  <2>1. \E j \in Inodes : j \notin Linked
    BY <1>1, <1>3, FreeInode
  <2>2. PICK i : i = CHOOSE k \in Inodes : k \notin Linked
    OBVIOUS
  <2>3. i \in Inodes /\ i \notin Linked
    BY <2>1, <2>2, Zenon
  <2>. QED
    BY <1>3, <2>2, <2>3 DEF OpenTemp
<1>. QED
  BY <1>2, <1>3

\* How a process at work goes on: it keeps its job, or is through with it.
LEMMA ProcessGoesOn ==
  ASSUME run \in [Procs -> Job], NEW p \in Procs, KeymapStep(p)
  PROVE  /\ Active(p)
         /\ \A q \in Procs : q # p => run'[q] = run[q]
         /\ \/ run[p].pc \in {"ok", "fail"} /\ run'[p] = Idle
            \/ /\ run'[p].job = run[p].job /\ run'[p].met = run[p].met
               /\ run'[p].pc \notin {"idle", "read"}
               /\ run'[p].pc \in {"ok", "fail"} => run[p].job = "tool"
               /\ run'[p].pc = "end" => run[p].job # "tool" \/ At(p, "read")
               /\ run[p].pc = "read" => run'[p].pc \in {"set", "end"}
               /\ run[p].pc = "set" /\ run[p].job # "tool" => run'[p].pc = "end"
               /\ run[p].pc # "end"
<1> USE DEF At, Goto, Active, Job
<1>1. CASE ir0_keymap_set(p) \/ SetFails(p)
  BY <1>1 DEF ir0_keymap_set, SetFails, AfterFailure
<1>2. CASE OpenTemp(p)
  BY <1>2 DEF OpenTemp
<1>3. CASE OpenFails(p) \/ UnlinkTemp(p)
  BY <1>3 DEF OpenFails, UnlinkTemp, AfterFailure
<1>4. CASE WriteName(p)
  BY <1>4 DEF WriteName
<1>5. CASE WriteNewline(p)
  BY <1>5 DEF WriteNewline
<1>6. CASE Close(p)
  BY <1>6 DEF Close
<1>7. CASE Rename(p) \/ RenameFails(p)
  BY <1>7 DEF Rename, RenameFails
<1>8. CASE ReadFile(p) \/ ReadFails(p)
  BY <1>8 DEF ReadFile, ReadFails
<1>9. CASE ExitTool(p)
  BY <1>9 DEF ExitTool
<1>. QED
  BY <1>1, <1>2, <1>3, <1>4, <1>5, <1>6, <1>7, <1>8, <1>9 DEF KeymapStep

\* Reclaiming inodes keeps texts.
LEMMA ReclaimType ==
  ASSUME data \in [Inodes -> Texts], Reclaim
  PROVE  data' \in [Inodes -> Texts]
<1>1. <<>> \in Texts
  BY DEF Texts
<1>. QED
  BY <1>1 DEF Reclaim

\* One process is in another state, which fits.
LEMMA RunTypes ==
  ASSUME KeymapTypeOK, NEW p \in Procs, NEW r \in Job, run' = [run EXCEPT ![p] = r],
         r.fd # NoInode <=> r.pc \in {"name", "newline", "close"},
         r.job = "none" <=> r.pc = "idle",
         layout' \in Layouts, root' \in {"rw", "ro"},
         {keymap', temp'} \subseteq Inodes \cup {NoInode}, keymap' = temp' => keymap' = NoInode,
         data' \in [Inodes -> Texts], faults' \in 0..MaxFaults
  PROVE  KeymapTypeOK'
BY DEF KeymapTypeOK, Texts

\* Every step of a process keeps the types.
LEMMA ProcessTypes ==
  ASSUME KeymapTypeOK, NEW p \in Procs, KeymapStep(p)
  PROVE  KeymapTypeOK'
<1> USE DEF At, Goto
<1>0. /\ <<>> \in Texts /\ data \in [Inodes -> Texts]
      /\ layout \in Layouts /\ root \in {"rw", "ro"} /\ faults \in 0..MaxFaults
      /\ {keymap, temp} \subseteq Inodes \cup {NoInode} /\ (keymap = temp => keymap = NoInode)
      /\ run \in [Procs -> Job] /\ run[p] \in Job
      /\ run[p].fd # NoInode <=> run[p].pc \in {"name", "newline", "close"}
      /\ run[p].job = "none" <=> run[p].pc = "idle"
  BY DEF KeymapTypeOK, Texts
<1>1. ASSUME Fault PROVE faults' \in 0..MaxFaults
  BY <1>0, <1>1, MaxFaultsAssumption DEF Fault
<1>2. CASE ir0_keymap_set(p)
  <2>1. PICK r : r = [run[p] EXCEPT !.pc = IF run[p].job = "tool" THEN "open" ELSE "end"]
    OBVIOUS
  <2>2. r \in Job /\ r.fd = run[p].fd /\ r.job = run[p].job /\ r.pc \in {"open", "end"}
    BY <1>0, <2>1 DEF Job
  <2>3. run' = [run EXCEPT ![p] = r] /\ run[p].pc = "set"
    BY <1>0, <1>2, <2>1 DEF ir0_keymap_set
  <2>4. layout' \in Layouts
    BY <1>0, <1>2 DEF ir0_keymap_set, Job
  <2>. QED
    BY <1>0, <1>2, <2>2, <2>3, <2>4, RunTypes DEF ir0_keymap_set
<1>3. CASE SetFails(p) \/ OpenFails(p) \/ RenameFails(p) \/ ReadFails(p)
  BY <1>0, <1>1, <1>3, RunTypes DEF SetFails, OpenFails, RenameFails, ReadFails, AfterFailure, Job
<1>4. CASE OpenTemp(p)
  <2>1. PICK i \in Inodes :
          /\ i = temp \/ i \notin Linked
          /\ temp' = i /\ data' = [data EXCEPT ![i] = <<>>]
          /\ run' = [run EXCEPT ![p].pc = "name", ![p].fd = i]
    BY <1>4, OpensInode
  <2>2. data' \in [Inodes -> Texts]
    BY <1>0, <2>1
  <2>3. keymap # temp'
    BY <1>0, <2>1, NoInodeAssumption DEF Linked
  <2>4. i # NoInode /\ UNCHANGED <<layout, root, keymap, faults>> /\ run[p].pc = "open"
    BY <1>4, NoInodeAssumption DEF OpenTemp
  <2>. QED
    BY <1>0, <2>1, <2>2, <2>3, <2>4, RunTypes DEF Job
<1>5. CASE WriteName(p)
  <2>1. PICK n \in -1..Len(ir0_keymap_name(run[p].want)) :
          /\ IF n = Len(ir0_keymap_name(run[p].want)) THEN UNCHANGED faults ELSE Fault
          /\ data' = [data EXCEPT ![run[p].fd] =
               IF n > 0 THEN WriteAt(@, 0, SubSeq(ir0_keymap_name(run[p].want), 1, n)) ELSE @]
          /\ run' = [run EXCEPT
               ![p].pc = IF n = Len(ir0_keymap_name(run[p].want)) THEN "newline" ELSE "close",
               ![p].put = n, ![p].nicked = (n = 1)]
    BY <1>5 DEF WriteName
  <2>2. run[p].want \in Layouts /\ run[p].fd \in Inodes
    BY <1>0, <1>5 DEF WriteName, Job
  <2>3. n \in Int /\ (n > 0 => SubSeq(ir0_keymap_name(run[p].want), 1, n) \in Texts)
    BY <2>2, NameType DEF Texts
  <2>4. data' \in [Inodes -> Texts]
    <3>1. n > 0 => WriteAt(data[run[p].fd], 0, SubSeq(ir0_keymap_name(run[p].want), 1, n)) \in Texts
      BY <1>0, <2>2, <2>3, WriteAtType
    <3>. QED
      BY <1>0, <2>1, <2>2, <3>1
  <2>5. faults' \in 0..MaxFaults
    BY <1>0, <1>1, <2>1
  <2>6. PICK r : r = [run[p] EXCEPT
                        !.pc = IF n = Len(ir0_keymap_name(run[p].want)) THEN "newline" ELSE "close",
                        !.put = n, !.nicked = (n = 1)]
    OBVIOUS
  <2>7. /\ r \in Job /\ r.fd = run[p].fd /\ r.job = run[p].job
        /\ r.pc \in {"newline", "close"}
    BY <1>0, <2>3, <2>6 DEF Job
  <2>8. run' = [run EXCEPT ![p] = r] /\ run[p].pc = "name"
    BY <1>0, <1>5, <2>1, <2>6 DEF WriteName
  <2>9. UNCHANGED <<layout, root, keymap, temp>>
    BY <1>5 DEF WriteName
  <2>. QED
    BY <1>0, <2>4, <2>5, <2>7, <2>8, <2>9, RunTypes
<1>6. CASE WriteNewline(p)
  <2>1. PICK n \in -1..1 :
          /\ IF n = 1 THEN UNCHANGED faults ELSE Fault
          /\ data' = [data EXCEPT ![run[p].fd] =
               IF n = 1 THEN WriteAt(@, Len(ir0_keymap_name(run[p].want)), <<NL>>) ELSE @]
          /\ run' = [run EXCEPT ![p].pc = "close", ![p].put = n]
    BY <1>6 DEF WriteNewline
  <2>2. run[p].want \in Layouts /\ run[p].fd \in Inodes
    BY <1>0, <1>6 DEF WriteNewline, Job
  <2>3. Len(ir0_keymap_name(run[p].want)) \in Nat /\ <<NL>> \in Texts /\ n \in Int
    BY <2>2, NameType DEF Texts, Chars
  <2>4. data' \in [Inodes -> Texts]
    <3>1. WriteAt(data[run[p].fd], Len(ir0_keymap_name(run[p].want)), <<NL>>) \in Texts
      BY <1>0, <2>2, <2>3, WriteAtType
    <3>. QED
      BY <1>0, <2>1, <2>2, <3>1
  <2>5. faults' \in 0..MaxFaults
    BY <1>0, <1>1, <2>1
  <2>6. PICK r : r = [run[p] EXCEPT !.pc = "close", !.put = n]
    OBVIOUS
  <2>7. r \in Job /\ r.fd = run[p].fd /\ r.job = run[p].job /\ r.pc = "close"
    BY <1>0, <2>3, <2>6 DEF Job
  <2>8. run' = [run EXCEPT ![p] = r] /\ run[p].pc = "newline"
    BY <1>0, <1>6, <2>1, <2>6 DEF WriteNewline
  <2>9. UNCHANGED <<layout, root, keymap, temp>>
    BY <1>6 DEF WriteNewline
  <2>. QED
    BY <1>0, <2>4, <2>5, <2>7, <2>8, <2>9, RunTypes
<1>7. CASE Close(p)
  <2>1. data' \in [Inodes -> Texts]
    BY <1>0, <1>7, ReclaimType DEF Close
  <2>2. faults' \in 0..MaxFaults
    BY <1>0, <1>1, <1>7 DEF Close
  <2>. QED
    BY <1>0, <1>7, <2>1, <2>2, RunTypes DEF Close, Job
<1>8. CASE Rename(p)
  <2>1. data' \in [Inodes -> Texts]
    BY <1>0, <1>8, ReclaimType DEF Rename
  <2>. QED
    BY <1>0, <1>8, <2>1, RunTypes DEF Rename, Job
<1>9. CASE UnlinkTemp(p)
  <2>1. data' \in [Inodes -> Texts]
    BY <1>0, <1>9, ReclaimType DEF UnlinkTemp
  <2>. QED
    BY <1>0, <1>9, <2>1, RunTypes DEF UnlinkTemp, AfterFailure, Job
<1>10. CASE ReadFile(p)
  <2>1. PICK l \in Layouts \cup {Unknown} :
          run' = IF l = Unknown THEN [run EXCEPT ![p].pc = "end"]
                 ELSE [run EXCEPT ![p].pc = "set", ![p].want = l]
    BY <1>10, ParseType DEF ReadFile
  <2>2. UNCHANGED <<layout, root, keymap, temp, data, faults>> /\ run[p].pc = "read"
    BY <1>10 DEF ReadFile
  <2>3. PICK r : r = IF l = Unknown THEN [run[p] EXCEPT !.pc = "end"]
                     ELSE [run[p] EXCEPT !.pc = "set", !.want = l]
    OBVIOUS
  <2>4. r \in Job /\ r.fd = run[p].fd /\ r.job = run[p].job /\ r.pc \in {"end", "set"}
    BY <1>0, <2>3 DEF Job
  <2>5. run' = [run EXCEPT ![p] = r]
    BY <1>0, <2>1, <2>3
  <2>. QED
    BY <1>0, <2>2, <2>4, <2>5, RunTypes
<1>11. CASE ExitTool(p)
  BY <1>0, <1>11, IdleType, RunTypes DEF ExitTool, Idle
<1>. QED
  BY <1>2, <1>3, <1>4, <1>5, <1>6, <1>7, <1>8, <1>9, <1>10, <1>11 DEF KeymapStep

-----------------------------------------------------------------------------
(* What keymap has done                                                    *)

\* A step of a tool that met nobody does what ToolOK says of the next point.
LEMMA ToolGoesOn ==
  ASSUME KeymapTypeOK, JobsOK, NEW p \in Tools, KeymapStep(p), ToolOK(p)
  PROVE  ToolOK(p)'
<1> USE DEF At, Goto, Wrote
<1>0. /\ p \in Procs /\ run \in [Procs -> Job] /\ run[p] \in Job
      /\ data \in [Inodes -> Texts] /\ run[p].pc \notin {"read", "end"} /\ Active(p)
      /\ run[p].job = "tool" /\ run[p].want \in Layouts /\ run[p].nicked \in BOOLEAN
  <2>1. p \in Procs /\ run \in [Procs -> Job] /\ data \in [Inodes -> Texts]
    BY DEF KeymapTypeOK, Texts, Procs
  <2>2. Active(p)
    BY <2>1, ProcessGoesOn
  <2>3. run[p].job = "tool" /\ run[p].pc \notin {"read", "end"}
    BY <2>1, <2>2 DEF KeymapTypeOK, JobsOK, Active
  <2>. QED
    BY <2>1, <2>2, <2>3 DEF Job
<1>1. /\ run[p].fd # NoInode <=> run[p].pc \in {"name", "newline", "close"}
      /\ {keymap, temp} \subseteq Inodes \cup {NoInode} /\ run[p].fd \in Inodes \cup {NoInode}
  BY <1>0 DEF KeymapTypeOK, Job
<1>2. CASE ir0_keymap_set(p)
  BY <1>0, <1>2 DEF ir0_keymap_set, ToolOK, Job
<1>3. CASE SetFails(p) \/ OpenFails(p) \/ RenameFails(p) \/ ReadFails(p)
  BY <1>0, <1>3 DEF SetFails, OpenFails, RenameFails, ReadFails, AfterFailure, ToolOK, Job
<1>4. CASE OpenTemp(p)
  <2>1. PICK i : /\ temp' = i /\ data' = [data EXCEPT ![i] = <<>>]
                 /\ run' = [run EXCEPT ![p].pc = "name", ![p].fd = i]
                 /\ layout' = layout /\ run[p].pc = "open"
    BY <1>4 DEF OpenTemp
  <2>2. i \in Inodes
    BY <1>0, <1>4, <2>1, OpensInode
  <2>3. data'[i] = <<>> /\ run'[p].pc = "name" /\ run'[p].fd = i /\ run'[p].want = run[p].want
        /\ run'[p].met = run[p].met
    BY <1>0, <2>1, <2>2 DEF Job
  <2>. QED
    BY <2>1, <2>3 DEF ToolOK
<1>5. CASE WriteName(p)
  <2>1. PICK n \in -1..Len(ir0_keymap_name(run[p].want)) :
          /\ data' = [data EXCEPT ![run[p].fd] =
               IF n > 0 THEN WriteAt(@, 0, SubSeq(ir0_keymap_name(run[p].want), 1, n)) ELSE @]
          /\ run' = [run EXCEPT
               ![p].pc = IF n = Len(ir0_keymap_name(run[p].want)) THEN "newline" ELSE "close",
               ![p].put = n, ![p].nicked = (n = 1)]
    BY <1>5 DEF WriteName
  <2>2. UNCHANGED <<layout, temp>> /\ run[p].pc = "name" /\ run[p].fd \in Inodes
    BY <1>1, <1>5 DEF WriteName
  <2>3. /\ ir0_keymap_name(run[p].want) \in Texts /\ Len(ir0_keymap_name(run[p].want)) >= 2
        /\ Len(ir0_keymap_name(run[p].want)) \in Nat
    BY <1>0, NameType DEF Texts
  <2>4. /\ run'[p].pc = IF n = Len(ir0_keymap_name(run[p].want)) THEN "newline" ELSE "close"
        /\ run'[p].put = n /\ run'[p].nicked = (n = 1) /\ run'[p].want = run[p].want
        /\ run'[p].met = run[p].met /\ run'[p].fd = run[p].fd
    BY <1>0, <2>1 DEF Job
  <2>5. CASE n = Len(ir0_keymap_name(run[p].want))
    <3>1. ASSUME ~run[p].met
          PROVE  data'[temp] = ir0_keymap_name(run[p].want)
      <4>1. data[temp] = <<>> /\ temp = run[p].fd
        BY <2>2, <3>1 DEF ToolOK
      <4>2. SubSeq(ir0_keymap_name(run[p].want), 1, n) = ir0_keymap_name(run[p].want)
        BY <2>3, <2>5 DEF Texts
      <4>3. <<>> \in Texts /\ Len(<<>>) = 0
        BY DEF Texts
      <4>4. WriteAt(<<>>, 0, ir0_keymap_name(run[p].want)) = ir0_keymap_name(run[p].want)
        <5>1. WriteAt(<<>>, 0, ir0_keymap_name(run[p].want)) = <<>> \o ir0_keymap_name(run[p].want)
          BY <2>3, <4>3, WriteAtEnd
        <5>. QED
          BY <2>3, <5>1 DEF Texts
      <4>5. n > 0 /\ data'[run[p].fd] = WriteAt(data[run[p].fd], 0, SubSeq(ir0_keymap_name(run[p].want), 1, n))
        <5>1. n > 0
          BY <2>3, <2>5
        <5>. QED
          BY <1>0, <2>1, <2>2, <5>1
      <4>. QED
        BY <4>1, <4>2, <4>4, <4>5, Zenon
    <3>2. n # 1
      BY <2>3, <2>5
    <3>. QED
      BY <2>2, <2>4, <2>5, <3>1, <3>2 DEF ToolOK
  <2>6. CASE n # Len(ir0_keymap_name(run[p].want))
    BY <2>2, <2>4, <2>6 DEF ToolOK
  <2>. QED
    BY <2>5, <2>6
<1>6. CASE WriteNewline(p)
  <2>1. PICK n \in -1..1 :
          /\ data' = [data EXCEPT ![run[p].fd] =
               IF n = 1 THEN WriteAt(@, Len(ir0_keymap_name(run[p].want)), <<NL>>) ELSE @]
          /\ run' = [run EXCEPT ![p].pc = "close", ![p].put = n]
    BY <1>6 DEF WriteNewline
  <2>2. UNCHANGED <<layout, temp>> /\ run[p].pc = "newline" /\ run[p].fd \in Inodes
    BY <1>1, <1>6 DEF WriteNewline
  <2>3. /\ run'[p].pc = "close" /\ run'[p].put = n /\ run'[p].nicked = run[p].nicked
        /\ run'[p].want = run[p].want /\ run'[p].met = run[p].met /\ run'[p].fd = run[p].fd
    BY <1>0, <2>1 DEF Job
  <2>4. ASSUME ~run[p].met, n = 1
        PROVE  temp # NoInode /\ data'[temp] = Line(run[p].want)
    <3>1. data[temp] = ir0_keymap_name(run[p].want) /\ temp = run[p].fd
      BY <2>2, <2>4 DEF ToolOK
    <3>2. WriteAt(ir0_keymap_name(run[p].want), Len(ir0_keymap_name(run[p].want)), <<NL>>)
            = Line(run[p].want)
      <4>1. <<NL>> \in Texts
        BY DEF Texts, Chars
      <4>. QED
        BY <1>0, <4>1, NameType, WriteAtEnd
    <3>. QED
      BY <1>0, <2>1, <2>2, <2>4, <3>1, <3>2, NoInodeAssumption
  <2>. QED
    BY <2>2, <2>3, <2>4 DEF ToolOK
<1>7. CASE Close(p)
  <2>1. PICK r : r.pc \in {"rename", "unlink"} /\ (r.pc = "rename" => run[p].put = 1)
                 /\ r = [run[p] EXCEPT !.pc = r.pc, !.fd = NoInode, !.put = 0]
                 /\ run' = [run EXCEPT ![p] = r]
    <3>1. PICK closed \in BOOLEAN :
            run' = [run EXCEPT ![p].pc = IF closed /\ run[p].put = 1 THEN "rename" ELSE "unlink",
                               ![p].fd = NoInode, ![p].put = 0]
      BY <1>7 DEF Close
    <3>2. PICK r : r = [run[p] EXCEPT !.pc = IF closed /\ run[p].put = 1 THEN "rename" ELSE "unlink",
                                      !.fd = NoInode, !.put = 0]
      OBVIOUS
    <3>3. run' = [run EXCEPT ![p] = r]
      BY <1>0, <3>1, <3>2
    <3>4. r.pc = (IF closed /\ run[p].put = 1 THEN "rename" ELSE "unlink")
          /\ r = [run[p] EXCEPT !.pc = r.pc, !.fd = NoInode, !.put = 0]
      BY <1>0, <3>2 DEF Job
    <3>. QED
      BY <3>3, <3>4
  <2>2. /\ run'[p].pc = r.pc /\ run'[p].nicked = run[p].nicked /\ run'[p].want = run[p].want
        /\ run'[p].met = run[p].met
    BY <1>0, <2>1 DEF Job
  <2>3. UNCHANGED <<layout, temp, keymap>> /\ run[p].pc = "close"
    BY <1>7 DEF Close
  <2>4. temp # NoInode => data'[temp] = data[temp]
    BY <1>1, <1>7, <2>3 DEF Close, Reclaim, Linked
  <2>. QED
    BY <2>1, <2>2, <2>3, <2>4 DEF ToolOK
<1>8. CASE Rename(p)
  <2>1. /\ run[p].pc = "rename" /\ temp # NoInode /\ keymap' = temp /\ layout' = layout
        /\ run' = [run EXCEPT ![p].pc = "ok"] /\ Reclaim
    BY <1>0, <1>8 DEF Rename
  <2>2. /\ run'[p].pc = "ok" /\ run'[p].nicked = run[p].nicked /\ run'[p].want = run[p].want
        /\ run'[p].met = run[p].met
    BY <1>0, <2>1 DEF Job
  <2>3. data'[keymap'] = data[temp]
    BY <1>1, <2>1 DEF Reclaim, Linked
  <2>. QED
    BY <2>1, <2>2, <2>3 DEF ToolOK
<1>9. CASE UnlinkTemp(p)
  BY <1>0, <1>9 DEF UnlinkTemp, AfterFailure, ToolOK, Job
<1>10. CASE ReadFile(p)
  BY <1>0, <1>10 DEF ReadFile
<1>11. CASE ExitTool(p)
  BY <1>0, <1>11 DEF ExitTool, Idle, ToolOK
<1>. QED
  BY <1>2, <1>3, <1>4, <1>5, <1>6, <1>7, <1>8, <1>9, <1>10, <1>11 DEF KeymapStep

\* While one process goes on, the others that have met nobody are not at work.
LEMMA KeymapGoesOnKeeps ==
  ASSUME KeymapTypeOK, JobsOK, KeymapInv, NEW p \in Procs, KeymapStep(p)
  PROVE  KeymapInv'
<1>1. /\ run \in [Procs -> Job] /\ Active(p)
      /\ \A q \in Procs : q # p => run'[q] = run[q]
      /\ Active(p)' => run'[p].met = run[p].met
  BY ProcessGoesOn DEF KeymapTypeOK, Active, Idle
<1>2. MeetOK'
  BY <1>1 DEF KeymapInv, MeetOK, Active
<1>3. ASSUME NEW q \in Tools PROVE ToolOK(q)'
  <2>1. CASE q = p
    BY <2>1, ToolGoesOn DEF KeymapInv
  <2>2. CASE q # p
    <3>1. q \in Procs /\ run'[q] = run[q]
      BY <1>1, <2>2 DEF Procs
    <3>2. CASE Active(q)
      BY <1>1, <2>2, <3>1, <3>2 DEF KeymapInv, MeetOK, ToolOK
    <3>3. CASE ~Active(q)
      BY <3>1, <3>3 DEF Active, ToolOK, At
    <3>. QED
      BY <3>2, <3>3
  <2>. QED
    BY <2>1, <2>2
<1>. QED
  BY <1>2, <1>3 DEF KeymapInv

\* A process that begins, and what its beginning means to the others.
LEMMA BeginIs ==
  ASSUME run \in [Procs -> Job], NEW p \in Procs, NEW job, NEW pc, NEW l,
         Begin(p, job, pc, l)
  PROVE  \E b \in BOOLEAN :
           /\ b <=> \E r \in Procs \ {p} : Active(r)
           /\ run'[p] = [job |-> job, pc |-> pc, want |-> l, fd |-> NoInode, put |-> 0,
                         nicked |-> FALSE, met |-> b]
<1>1. PICK b : b = \E r \in Procs \ {p} : Active(r)
  OBVIOUS
<1>2. b \in BOOLEAN /\ (b <=> \E r \in Procs \ {p} : Active(r))
  BY <1>1
<1>3. run'[p] = [Idle EXCEPT !.job = job, !.pc = pc, !.want = l, !.met = b]
  BY <1>1, Zenon DEF Begin
<1>4. run'[p] = [job |-> job, pc |-> pc, want |-> l, fd |-> NoInode, put |-> 0,
                 nicked |-> FALSE, met |-> b]
  BY <1>3 DEF Idle
<1>. QED
  BY <1>2, <1>4

LEMMA BeginsWith ==
  ASSUME run \in [Procs -> Job], NEW p \in Procs, NEW job, NEW pc, NEW l,
         Begin(p, job, pc, l)
  PROVE  /\ run'[p].job = job /\ run'[p].pc = pc /\ run'[p].want = l
         /\ run'[p].fd = NoInode /\ run'[p].nicked = FALSE
<1>1. PICK b \in BOOLEAN :
        /\ b <=> \E r \in Procs \ {p} : Active(r)
        /\ run'[p] = [job |-> job, pc |-> pc, want |-> l, fd |-> NoInode, put |-> 0,
                      nicked |-> FALSE, met |-> b]
  BY BeginIs
<1>. QED
  BY <1>1

LEMMA OthersMeet ==
  ASSUME run \in [Procs -> Job], NEW p \in Procs, NEW job, NEW pc, NEW l,
         Begin(p, job, pc, l)
  PROVE  /\ \A q \in Procs \ {p} :
              /\ Active(q)' <=> Active(q)
              /\ run'[q] = IF Active(q) THEN [run[q] EXCEPT !.met = TRUE] ELSE run[q]
         /\ run' = [q \in Procs |-> run'[q]]
BY DEF Begin, Active, Job

LEMMA BeginTypes ==
  ASSUME KeymapTypeOK, NEW p \in Procs, NEW job \in {"tool", "wizard", "apply"},
         NEW pc \in {"read", "set", "open"}, NEW l \in Layouts, Begin(p, job, pc, l),
         UNCHANGED <<layout, root, keymap, temp, data, faults>>
  PROVE  KeymapTypeOK'
<1>0. run \in [Procs -> Job]
  BY DEF KeymapTypeOK
<1>1. PICK b \in BOOLEAN :
        /\ b <=> \E r \in Procs \ {p} : Active(r)
        /\ run'[p] = [job |-> job, pc |-> pc, want |-> l, fd |-> NoInode, put |-> 0,
                      nicked |-> FALSE, met |-> b]
  BY <1>0, BeginIs
<1>2. /\ \A q \in Procs \ {p} :
           run'[q] = IF Active(q) THEN [run[q] EXCEPT !.met = TRUE] ELSE run[q]
      /\ run' = [q \in Procs |-> run'[q]]
  BY <1>0, OthersMeet
<1>3. run'[p] \in Job
  BY <1>1 DEF Job
<1>4. ASSUME NEW q \in Procs \ {p}
      PROVE  run'[q] \in Job /\ run'[q].fd = run[q].fd /\ run'[q].pc = run[q].pc
             /\ run'[q].job = run[q].job
  BY <1>0, <1>2 DEF Job
<1>5. run' \in [Procs -> Job]
  BY <1>2, <1>3, <1>4
<1>6. \A q \in Procs : /\ run'[q].fd # NoInode <=> run'[q].pc \in {"name", "newline", "close"}
                       /\ run'[q].job = "none" <=> run'[q].pc = "idle"
  BY <1>1, <1>4 DEF KeymapTypeOK
<1>. QED
  BY <1>5, <1>6 DEF KeymapTypeOK

LEMMA BeginKeeps ==
  ASSUME KeymapTypeOK, JobsOK, KeymapInv, NEW p \in Procs, ~Active(p), NEW job,
         NEW pc \in {"read", "set", "open"}, p \in Tools => pc = "set", NEW l,
         Begin(p, job, pc, l), UNCHANGED <<layout, keymap, temp, data>>
  PROVE  KeymapInv'
<1>0. run \in [Procs -> Job]
  BY DEF KeymapTypeOK
<1>1. run'[p].pc = pc /\ ((\E r \in Procs \ {p} : Active(r)) => run'[p].met)
  <2>1. PICK b \in BOOLEAN :
          /\ b <=> \E r \in Procs \ {p} : Active(r)
          /\ run'[p] = [job |-> job, pc |-> pc, want |-> l, fd |-> NoInode, put |-> 0,
                        nicked |-> FALSE, met |-> b]
    BY <1>0, BeginIs
  <2>. QED
    BY <2>1
<1>2. ASSUME NEW q \in Procs \ {p}
      PROVE  /\ Active(q)' <=> Active(q)
             /\ Active(q) => run'[q].met
             /\ ~Active(q) => run'[q] = run[q]
  <2>1. /\ Active(q)' <=> Active(q)
        /\ run'[q] = IF Active(q) THEN [run[q] EXCEPT !.met = TRUE] ELSE run[q]
        /\ run[q] \in Job
    BY <1>0, OthersMeet
  <2>. QED
    BY <2>1 DEF Job
<1>3. MeetOK'
  <2>. SUFFICES ASSUME NEW q \in Procs, NEW r \in Procs, q # r, Active(q)', Active(r)'
                PROVE  run'[q].met
    BY DEF MeetOK, Active
  <2>1. CASE q = p
    BY <1>1, <1>2, <2>1
  <2>2. CASE q # p
    BY <1>2, <2>2
  <2>. QED
    BY <2>1, <2>2
<1>4. ASSUME NEW q \in Tools PROVE ToolOK(q)'
  <2>0. q \in Procs
    BY DEF Procs
  <2>1. CASE q = p
    BY <1>1, <2>1 DEF ToolOK, At
  <2>2. CASE q # p
    BY <1>2, <2>0, <2>2 DEF ToolOK, At, Active
  <2>. QED
    BY <2>1, <2>2
<1>. QED
  BY <1>3, <1>4 DEF KeymapInv

\* A process is through, or killed, and was no tool.
LEMMA EndKeeps ==
  ASSUME KeymapTypeOK, KeymapInv, run' = [run EXCEPT ![Console] = Idle],
         UNCHANGED <<layout, keymap, temp, data>>
  PROVE  KeymapInv'
<1>1. /\ \A q \in Procs : Active(q)' => Active(q) /\ run'[q] = run[q]
      /\ \A q \in Tools : run'[q] = run[q]
  BY ConsoleAssumption DEF KeymapTypeOK, Active, Idle, Procs
<1>2. MeetOK'
  BY <1>1 DEF KeymapInv, MeetOK
<1>3. ASSUME NEW q \in Tools PROVE ToolOK(q)'
  BY <1>1 DEF KeymapInv, ToolOK, Wrote, At
<1>. QED
  BY <1>2, <1>3 DEF KeymapInv

-----------------------------------------------------------------------------
(* What a step of the machine does to the keyboard layout                  *)

\* The order of the boot program.
LEMMA NextSteps ==
  /\ NextStep("fsck") = "tmp" /\ NextStep("tmp") = "home" /\ NextStep("home") = "early"
  /\ NextStep("early") = "dennis" /\ NextStep("dennis") = "handoff"
<1>1. PICK steps : steps = Steps
  OBVIOUS
<1>2. /\ steps[1] = "fsck" /\ steps[2] = "tmp" /\ steps[3] = "home" /\ steps[4] = "early"
      /\ steps[5] = "dennis" /\ steps[6] = "handoff"
  BY <1>1 DEF Steps
<1>3. Len(steps) = 6
  BY <1>1 DEF Steps
<1>4. ASSUME NEW k \in 2..6
      PROVE  NextStep(steps[k - 1]) = steps[k]
  <2>1. PICK next : next = CHOOSE n \in {steps[i] : i \in 2..6} :
                             \E i \in 2..6 : n = steps[i] /\ steps[k - 1] = steps[i - 1]
    OBVIOUS
  <2>2. \E n \in {steps[i] : i \in 2..6} : \E i \in 2..6 : n = steps[i] /\ steps[k - 1] = steps[i - 1]
    OBVIOUS
  <2>3. \E i \in 2..6 : next = steps[i] /\ steps[k - 1] = steps[i - 1]
    BY <2>1, <2>2, Zenon
  <2>4. \A i \in 2..6 : steps[k - 1] = steps[i - 1] => i = k
    BY <1>2
  <2>5. next = steps[k]
    BY <2>3, <2>4
  <2>. QED
    BY <1>1, <1>3, <2>1, <2>5, Zenon DEF NextStep
<1>. QED
  BY <1>2, <1>4

ConsoleStages == {"apply1", "layout", "apply2"}
EarlyStages == {"off", "fsck", "tmp", "home", "early", "dennis", "handoff", "recovery"}

FaultsMove == UNCHANGED faults \/ Fault

\* The seven ways a step can touch the variables of module Keymap.
OtherStep ==
  /\ UNCHANGED <<layout, keymap, temp, data, run>> /\ FaultsMove
  /\ root' \in {root, "ro", "rw"}
  /\ stage' \in ConsoleStages \/ stage \in ConsoleStages => stage' = stage
  /\ stage' \in EarlyStages => stage \in EarlyStages

ConsoleApplies ==
  /\ Begin(Console, "apply", "read", Us)
  /\ UNCHANGED <<layout, root, keymap, temp, data, faults>>
  /\ \/ stage = "services" /\ stage' = "apply1"
     \/ stage = "reapply" /\ stage' = "apply2"

WizardWrites ==
  /\ \E l \in Layouts : Begin(Console, "wizard", "open", l)
  /\ UNCHANGED <<layout, root, keymap, temp, data, faults>>
  /\ stage = "wizard" /\ stage' = "layout"

ConsoleEnds ==
  /\ run' = [run EXCEPT ![Console] = Idle]
  /\ UNCHANGED <<layout, root, keymap, temp, data>> /\ FaultsMove
  /\ stage \in {"apply1", "layout", "apply2", "login"}
  /\ stage' \in {"paused", "wizard", "reapply", "accounts", "login", "services"}

ToolBegins ==
  /\ \E p \in Tools : StartTool(p)
  /\ stage \in {"shell", "login"} /\ power = "on"
  /\ UNCHANGED bootVars

LEMMA StepKinds ==
  ASSUME stage \in Stages, Boot \/ World
  PROVE  \/ OtherStep \/ ConsoleApplies \/ WizardWrites \/ ConsoleEnds \/ ToolBegins
         \/ KeymapGoesOn
         \/ \E left \in Left : Off(left)
<1> USE NextSteps DEF ConsoleStages, EarlyStages, FaultsMove, kernelVars, keymapVars, StepOver,
        SkipStep
<1>1. CASE Fsck \/ FsckNotRun \/ mount_runtime_tmp \/ mount_persistent_home
           \/ try_mount_dennis_src
  BY <1>1 DEF Fsck, FsckNotRun, mount_runtime_tmp, mount_persistent_home, try_mount_dennis_src,
              OtherStep
<1>2. CASE MountFails
  BY <1>2 DEF MountFails, OtherStep
<1>3. CASE FirstbootEarly
  BY <1>3 DEF FirstbootEarly, Accounts, AccountsFail, OtherStep
<1>4. CASE Handoff \/ HandoffFails \/ InitGoesOn \/ Stage2
  BY <1>4 DEF Handoff, HandoffFails, InitGoesOn, Stage2, OtherStep
<1>5. CASE StartConsole \/ Reapply
  BY <1>5 DEF StartConsole, Reapply, ConsoleApplies
<1>6. CASE AskLayout
  <2>1. PICK a \in Answers :
          Begin(Console, "wizard", "open",
                IF ir0_keymap_parse(a) = Unknown THEN Us ELSE ir0_keymap_parse(a))
    BY <1>6, Zenon DEF AskLayout
  <2>2. (IF ir0_keymap_parse(a) = Unknown THEN Us ELSE ir0_keymap_parse(a)) \in Layouts
    BY ParseType DEF Layouts
  <2>3. \E l \in Layouts : Begin(Console, "wizard", "open", l)
    BY <2>1, <2>2, Zenon
  <2>. QED
    BY <1>6, <2>3 DEF AskLayout, WizardWrites
<1>7. CASE Applied \/ LayoutAsked \/ Reapplied
  BY <1>7 DEF Applied, LayoutAsked, Reapplied, ConsoleOver, ConsoleEnds
<1>8. CASE ConsoleDies
  BY <1>8 DEF ConsoleDies, ConsoleEnds
<1>9. CASE FirstbootConsole
  BY <1>9 DEF FirstbootConsole, Accounts, AccountsFail, OtherStep
<1>10. CASE WizardNotRun \/ RemountRo \/ PowerOn
  BY <1>10 DEF WizardNotRun, RemountRo, PowerOn, OtherStep
<1>11. CASE LeaveShell \/ ShellFails \/ MountRootRw
  BY <1>11 DEF LeaveShell, ShellFails, MountRootRw, OtherStep
<1>12. CASE Sync \/ RebootFails
  BY <1>12 DEF Sync, RebootFails, OtherStep
<1>13. CASE RunKeymap
  BY <1>13 DEF RunKeymap, ToolBegins
<1>14. CASE Reboot \/ PowerCut
  BY <1>14 DEF Reboot, PowerCut
<1>. QED
  BY <1>1, <1>2, <1>3, <1>4, <1>5, <1>6, <1>7, <1>8, <1>9, <1>10, <1>11, <1>12, <1>13, <1>14
     DEF Boot, World

-----------------------------------------------------------------------------
(* Files, on disk and off                                                  *)

\* Files that are read off the variables have their types, now and after a step.
LEMMA FilesType ==
  ASSUME KeymapTypeOK, done \in BOOLEAN, homes \subseteq Disks
  PROVE  Files \in DiskType
<1>1. ASSUME NEW i \in Inodes \cup {NoInode}
      PROVE  File(i) \in Seq(Texts)
  BY DEF File, KeymapTypeOK, Texts
<1>2. keymap \in Inodes \cup {NoInode} /\ temp \in Inodes \cup {NoInode}
  BY DEF KeymapTypeOK
<1>. QED
  BY <1>1, <1>2 DEF Files, DiskType

LEMMA FilesTypeNext ==
  ASSUME KeymapTypeOK', done' \in BOOLEAN, homes' \subseteq Disks
  PROVE  Files' \in DiskType
<1>1. ASSUME NEW i \in Inodes \cup {NoInode}
      PROVE  (IF i = NoInode THEN <<>> ELSE <<data'[i]>>) \in Seq(Texts)
  BY DEF KeymapTypeOK, Texts
<1>2. keymap' \in Inodes \cup {NoInode} /\ temp' \in Inodes \cup {NoInode}
  BY DEF KeymapTypeOK
<1>. QED
  BY <1>1, <1>2 DEF Files, File, DiskType

LEMMA SidesType ==
  ASSUME NEW f \in DiskType, NEW h \in DiskType
  PROVE  Sides(f, h) \in DiskType /\ Sides(f, h).done = f.done
BY DEF DiskType, Sides

\* What a power cut leaves is files that there were, but for a layout without text.
LEMMA LeftType ==
  ASSUME Files \in DiskType, disk \in DiskType, NEW left \in Left
  PROVE  left \in DiskType /\ left.done \in {done, disk.done}
<1>1. Files.done = done
  BY DEF Files
<1>2. ASSUME NEW f \in {disk, Files}, NEW h \in {disk, Files}
      PROVE  Sides(f, h) \in DiskType /\ Sides(f, h).done \in {done, disk.done}
  BY <1>1, SidesType
<1>3. ASSUME NEW m \in DiskType
      PROVE  [m EXCEPT !.keymap = <<<<>>>>] \in DiskType
             /\ [m EXCEPT !.keymap = <<<<>>>>].done = m.done
  <2>1. <<<<>>>> \in Seq(Texts)
    BY DEF Texts
  <2>. QED
    BY <2>1 DEF DiskType
<1>4. PICK f \in {disk, Files}, h \in {disk, Files} :
        left = Sides(f, h) \/ left = [Sides(f, h) EXCEPT !.keymap = <<<<>>>>]
  BY DEF Left
<1>5. CASE left = Sides(f, h)
  BY <1>2, <1>5
<1>6. CASE left = [Sides(f, h) EXCEPT !.keymap = <<<<>>>>]
  BY <1>2, <1>3, <1>6
<1>. QED
  BY <1>4, <1>5, <1>6

LEMMA TwoInodes == Inode1 \in Inodes /\ Inode2 \in Inodes /\ Inode1 # Inode2
<1>1. Cardinality(Inodes) \in Nat /\ Cardinality(Procs) \in Nat
      /\ Cardinality(Inodes) > Cardinality(Procs)
  BY InodesAssumption, FS_CardinalityType
<1>2. Cardinality(Procs) > 0
  <2>1. Procs # {}
    BY DEF Procs
  <2>. QED
    BY <1>1, <2>1, InodesAssumption, FS_EmptySet
<1>3. Cardinality(Inodes) > 1
  BY <1>1, <1>2
<1>4. Inode1 \in Inodes
  <2>1. Inodes # {}
    BY <1>3, FS_EmptySet
  <2>. QED
    BY <2>1 DEF Inode1
<1>5. Inodes \ {Inode1} # {}
  <2>1. ASSUME Inodes \ {Inode1} = {} PROVE Cardinality(Inodes) = 1
    <3>1. Inodes = {Inode1}
      BY <1>4, <2>1
    <3>. QED
      BY <3>1, FS_Singleton
  <2>. QED
    BY <1>3, <2>1
<1>. QED
  BY <1>4, <1>5 DEF Inode2

LEMMA OffTypes ==
  ASSUME KeymapTypeOK, NEW left \in DiskType, Off(left)
  PROVE  KeymapTypeOK'
<1>1. /\ keymap' = IF left.keymap = <<>> THEN NoInode ELSE Inode1
      /\ temp' = IF left.temp = <<>> THEN NoInode ELSE Inode2
      /\ data' = [k \in Inodes |-> IF k = keymap' THEN left.keymap[1]
                                   ELSE IF k = temp' THEN left.temp[1] ELSE <<>>]
  BY DEF Off
<1>2. /\ left.keymap # <<>> => left.keymap[1] \in Texts
      /\ left.temp # <<>> => left.temp[1] \in Texts
      /\ <<>> \in Texts
  BY DEF DiskType, Texts
<1>3. data' \in [Inodes -> Texts]
  BY <1>1, <1>2, TwoInodes, NoInodeAssumption
<1>4. /\ layout' = Us /\ root' = "rw" /\ run' = Nobody /\ faults' = faults
  BY DEF Off
<1>5. run' \in [Procs -> Job] /\ \A p \in Procs : run'[p] = Idle
  BY <1>4, IdleType DEF Nobody
<1>6. {keymap', temp'} \subseteq Inodes \cup {NoInode} /\ (keymap' = temp' => keymap' = NoInode)
  BY <1>1, TwoInodes, NoInodeAssumption
<1>. QED
  BY <1>3, <1>4, <1>5, <1>6 DEF KeymapTypeOK, Idle, Layouts, Us, Texts

-----------------------------------------------------------------------------
(* Every step keeps the invariant                                          *)

LEMMA FaultsType ==
  ASSUME faults \in 0..MaxFaults, FaultsMove
  PROVE  faults' \in 0..MaxFaults
BY MaxFaultsAssumption DEF FaultsMove, Fault

\* The console service begins when it has nothing to do.
LEMMA ConsoleIdle ==
  ASSUME BootTypeOK, stage \notin ConsoleStages
  PROVE  ~Active(Console)
BY DEF BootTypeOK, ConsoleStages

LEMMA KeymapTypesNext ==
  ASSUME TypeInv, Boot \/ World
  PROVE  KeymapTypeOK'
<1>0. /\ KeymapTypeOK /\ stage \in Stages /\ disk \in DiskType /\ Files \in DiskType
      /\ Console \in Procs
  BY FilesType DEF TypeInv, BootTypeOK, Procs
<1>1. CASE OtherStep
  <2>1. faults' \in 0..MaxFaults
    BY <1>0, <1>1, FaultsType DEF OtherStep, KeymapTypeOK
  <2>. QED
    BY <1>0, <1>1, <2>1 DEF OtherStep, KeymapTypeOK
<1>2. CASE ConsoleApplies
  <2>1. Us \in Layouts
    BY DEF Layouts
  <2>. QED
    BY <1>0, <1>2, <2>1, BeginTypes DEF ConsoleApplies
<1>3. CASE WizardWrites
  BY <1>0, <1>3, BeginTypes DEF WizardWrites
<1>4. CASE ConsoleEnds
  <2>1. faults' \in 0..MaxFaults
    BY <1>0, <1>4, FaultsType DEF ConsoleEnds, KeymapTypeOK
  <2>2. Idle.fd = NoInode /\ Idle.pc = "idle" /\ Idle.job = "none"
    BY DEF Idle
  <2>3. /\ run' = [run EXCEPT ![Console] = Idle]
        /\ UNCHANGED <<layout, root, keymap, temp, data>>
    BY <1>4 DEF ConsoleEnds
  <2>. QED
    BY <1>0, <2>1, <2>2, <2>3, IdleType DEF KeymapTypeOK
<1>5. CASE ToolBegins
  <2>1. PICK p \in Tools : StartTool(p)
    BY <1>5 DEF ToolBegins
  <2>2. PICK l \in Layouts : Begin(p, "tool", "set", l)
    BY <2>1, ParseType DEF StartTool
  <2>3. p \in Procs
    BY DEF Procs
  <2>. QED
    BY <1>0, <2>1, <2>2, <2>3, BeginTypes DEF StartTool
<1>6. CASE KeymapGoesOn
  BY <1>0, <1>6, ProcessTypes DEF KeymapGoesOn
<1>7. CASE \E left \in Left : Off(left)
  BY <1>0, <1>7, LeftType, OffTypes
<1>. QED
  BY <1>0, <1>1, <1>2, <1>3, <1>4, <1>5, <1>6, <1>7, StepKinds

LEMMA KeymapInvNext ==
  ASSUME TypeInv, KeymapInv, Boot \/ World
  PROVE  KeymapInv'
<1>0. /\ BootTypeOK /\ KeymapTypeOK /\ JobsOK /\ stage \in Stages
      /\ Console \in Procs /\ Console \notin Tools
  BY ConsoleAssumption DEF TypeInv, BootTypeOK, Procs
<1>1. CASE OtherStep
  BY <1>0, <1>1 DEF OtherStep, KeymapInv, MeetOK, ToolOK, Wrote, Active, At
<1>2. CASE ConsoleApplies
  <2>1. ~Active(Console)
    BY <1>0, <1>2, ConsoleIdle DEF ConsoleApplies, ConsoleStages
  <2>. QED
    BY <1>0, <1>2, <2>1, BeginKeeps DEF ConsoleApplies
<1>3. CASE WizardWrites
  <2>1. ~Active(Console)
    BY <1>0, <1>3, ConsoleIdle DEF WizardWrites, ConsoleStages
  <2>. QED
    BY <1>0, <1>3, <2>1, BeginKeeps DEF WizardWrites
<1>4. CASE ConsoleEnds
  BY <1>0, <1>4, EndKeeps DEF ConsoleEnds
<1>5. CASE ToolBegins
  <2>1. PICK p \in Tools : StartTool(p)
    BY <1>5 DEF ToolBegins
  <2>2. PICK l : Begin(p, "tool", "set", l)
    BY <2>1 DEF StartTool
  <2>3. p \in Procs /\ ~Active(p)
    BY <2>1 DEF Procs, StartTool, At, Active
  <2>. QED
    BY <1>0, <2>1, <2>2, <2>3, BeginKeeps DEF StartTool
<1>6. CASE KeymapGoesOn
  BY <1>0, <1>6, KeymapGoesOnKeeps DEF KeymapGoesOn
<1>7. CASE \E left \in Left : Off(left)
  <2>1. run' = Nobody
    BY <1>7 DEF Off
  <2>2. \A p \in Procs : run'[p] = Idle
    BY <2>1 DEF Nobody
  <2>3. \A p \in Procs : run'[p].pc = "idle"
    BY <2>2 DEF Idle
  <2>4. MeetOK'
    BY <2>3 DEF MeetOK, Active
  <2>5. \A p \in Tools : ToolOK(p)'
    BY <2>3 DEF ToolOK, At, Procs
  <2>. QED
    BY <2>4, <2>5 DEF KeymapInv
<1>. QED
  BY <1>0, <1>1, <1>2, <1>3, <1>4, <1>5, <1>6, <1>7, StepKinds

\* The types of the variables of the boot, but for the disk.
BootVarsOK ==
  /\ image \in Images /\ boots \in 0..MaxBoots /\ stage \in Stages
  /\ fsck \in {"none", "skipped", "ok", "fail"}
  /\ home \in Disks /\ homes \subseteq Disks /\ done \in BOOLEAN
  /\ power \in {"on", "synced"} /\ screen \in {"none", "warning", "ro", "rw"}
  /\ homeless \in BOOLEAN

LEMMA HomeType ==
  ASSUME homes \subseteq Disks, home \in Disks, MakeHome
  PROVE  homes' \subseteq Disks
BY DEF MakeHome

LEMMA BootVarsNext ==
  ASSUME TypeInv, Boot \/ World
  PROVE  BootVarsOK'
<1>0. /\ BootVarsOK /\ disk \in DiskType /\ Files \in DiskType
  BY FilesType DEF TypeInv, BootTypeOK, BootVarsOK
<1> USE <1>0, NextSteps DEF BootVarsOK, Stages, Disks, fixed, stored, rest, bootVars, StepOver,
                            SkipStep
<1>1. CASE Fsck
  <2>1. fsck_main(image.devs) \in {"skipped", "ok", "fail"}
    BY DEF fsck_main
  <2>. QED
    BY <1>1, <2>1 DEF Fsck
<1>2. CASE FsckNotRun \/ mount_runtime_tmp \/ mount_persistent_home \/ try_mount_dennis_src
  BY <1>2 DEF FsckNotRun, mount_runtime_tmp, mount_persistent_home, try_mount_dennis_src
<1>3. CASE MountFails
  BY <1>3 DEF MountFails
<1>4. ASSUME NEW to \in Stages, Accounts(to) \/ AccountsFail(to)
      PROVE  BootVarsOK'
  <2>1. MakeHome \/ UNCHANGED homes => homes' \subseteq Disks
    BY HomeType
  <2>. QED
    BY <1>4, <2>1 DEF Accounts, AccountsFail
<1>5. CASE FirstbootEarly
  BY <1>4, <1>5 DEF FirstbootEarly
<1>6. CASE Handoff \/ HandoffFails \/ InitGoesOn \/ Stage2
  BY <1>6 DEF Handoff, HandoffFails, InitGoesOn, Stage2
<1>7. CASE StartConsole \/ Applied \/ AskLayout \/ LayoutAsked
  BY <1>7 DEF StartConsole, Applied, AskLayout, LayoutAsked
<1>8. CASE FirstbootConsole
  BY <1>4, <1>8 DEF FirstbootConsole
<1>9. CASE WizardNotRun \/ Reapply \/ Reapplied \/ ConsoleDies
  BY <1>9 DEF WizardNotRun, Reapply, Reapplied, ConsoleDies
<1>10. CASE RemountRo \/ LeaveShell \/ ShellFails \/ MountRootRw
  BY <1>10 DEF RemountRo, LeaveShell, ShellFails, MountRootRw
<1>11. CASE RunKeymap \/ KeymapGoesOn
  BY <1>11 DEF RunKeymap, KeymapGoesOn
<1>12. CASE PowerOn
  BY <1>12, MaxBootsAssumption DEF PowerOn
<1>13. CASE Sync \/ RebootFails
  BY <1>13 DEF Sync, RebootFails
<1>14. CASE Reboot \/ PowerCut
  <2>1. PICK left \in Left : Off(left)
    BY <1>14 DEF Reboot, PowerCut
  <2>2. left \in DiskType
    BY <2>1, LeftType
  <2>. QED
    BY <2>1, <2>2 DEF Off, DiskType
<1>. QED
  BY <1>1, <1>2, <1>3, <1>5, <1>6, <1>7, <1>8, <1>9, <1>10, <1>11, <1>12, <1>13, <1>14
     DEF Boot, World

LEMMA DiskNext ==
  ASSUME TypeInv, Boot \/ World
  PROVE  disk' \in DiskType
<1>0. /\ disk \in DiskType /\ Files \in DiskType /\ Files' \in DiskType
  <2>1. KeymapTypeOK' /\ done' \in BOOLEAN /\ homes' \subseteq Disks
    BY KeymapTypesNext, BootVarsNext DEF BootVarsOK
  <2>. QED
    BY <2>1, FilesType, FilesTypeNext DEF TypeInv, BootTypeOK
<1>1. SyncRoot => disk' \in DiskType
  BY <1>0, SidesType DEF SyncRoot
<1> USE <1>0 DEF stored, rest, bootVars
<1>2. CASE Fsck \/ FsckNotRun \/ mount_runtime_tmp \/ mount_persistent_home
           \/ try_mount_dennis_src \/ MountFails
  BY <1>2 DEF Fsck, FsckNotRun, mount_runtime_tmp, mount_persistent_home, try_mount_dennis_src,
              MountFails
<1>3. CASE FirstbootEarly \/ FirstbootConsole
  BY <1>1, <1>3 DEF FirstbootEarly, FirstbootConsole, Accounts, AccountsFail
<1>4. CASE Handoff \/ HandoffFails \/ InitGoesOn \/ Stage2
  BY <1>4 DEF Handoff, HandoffFails, InitGoesOn, Stage2
<1>5. CASE StartConsole \/ Applied \/ AskLayout \/ LayoutAsked
  BY <1>5 DEF StartConsole, Applied, AskLayout, LayoutAsked
<1>6. CASE WizardNotRun \/ Reapply \/ Reapplied \/ ConsoleDies
  BY <1>6 DEF WizardNotRun, Reapply, Reapplied, ConsoleDies
<1>7. CASE RemountRo \/ LeaveShell \/ ShellFails \/ MountRootRw \/ PowerOn
  BY <1>7 DEF RemountRo, LeaveShell, ShellFails, MountRootRw, PowerOn
<1>8. CASE RunKeymap \/ KeymapGoesOn
  BY <1>8 DEF RunKeymap, KeymapGoesOn
<1>9. CASE Sync \/ RebootFails
  BY <1>9 DEF Sync, RebootFails
<1>10. CASE Reboot \/ PowerCut
  <2>1. PICK left \in Left : Off(left)
    BY <1>10 DEF Reboot, PowerCut
  <2>. QED
    BY <2>1, LeftType DEF Off
<1>. QED
  BY <1>2, <1>3, <1>4, <1>5, <1>6, <1>7, <1>8, <1>9, <1>10 DEF Boot, World

LEMMA JobsNext ==
  ASSUME TypeInv, Boot \/ World
  PROVE  JobsOK'
<1>0. /\ BootTypeOK /\ KeymapTypeOK /\ JobsOK /\ stage \in Stages /\ run \in [Procs -> Job]
      /\ Console \in Procs /\ Console \notin Tools /\ Tools \subseteq Procs
      /\ \A p \in Tools : p # Console
  BY ConsoleAssumption DEF TypeInv, BootTypeOK, KeymapTypeOK, Procs
<1>idle. Idle.job = "none" /\ Idle.pc = "idle"
  BY DEF Idle
<1>1. CASE OtherStep
  BY <1>0, <1>1 DEF OtherStep, JobsOK, Active, ConsoleStages
\* Somebody begins a job of his own.
<1>2. ASSUME NEW p \in Procs, NEW job, NEW pc \in {"read", "set", "open"}, NEW l,
             Begin(p, job, pc, l),
             p \in Tools => job = "tool" /\ pc = "set",
             p = Console => \/ job = "apply" /\ pc = "read"
                            \/ job = "wizard" /\ stage' \notin {"apply1", "apply2"},
             p # Console => stage' = stage
      PROVE  JobsOK'
  <2>1. run'[p].job = job /\ run'[p].pc = pc
    BY <1>0, <1>2, BeginsWith
  <2>2. ASSUME NEW q \in Procs \ {p}
        PROVE  /\ Active(q)' <=> Active(q)
               /\ ~Active(q) => run'[q] = run[q]
               /\ run'[q].job = run[q].job /\ run'[q].pc = run[q].pc
    <3>1. /\ Active(q)' <=> Active(q)
          /\ run'[q] = IF Active(q) THEN [run[q] EXCEPT !.met = TRUE] ELSE run[q]
          /\ run[q] \in Job
      BY <1>0, <1>2, OthersMeet
    <3>. QED
      BY <3>1 DEF Job
  <2>3. \A q \in Procs : ~Active(q)' => run'[q] = Idle
    <3>1. ASSUME NEW q \in Procs, q # p, ~Active(q)' PROVE run'[q] = Idle
      BY <1>0, <2>2, <3>1 DEF JobsOK
    <3>2. Active(p)'
      BY <2>1 DEF Active
    <3>. QED
      BY <3>1, <3>2 DEF Active
  <2>4. CASE p = Console
    BY <1>0, <1>2, <2>1, <2>2, <2>3, <2>4 DEF JobsOK, Active
  <2>5. CASE p # Console
    <3>1. p \in Tools
      BY <2>5 DEF Procs
    <3>2. run'[Console].job = run[Console].job /\ run'[Console].pc = run[Console].pc
      BY <1>0, <2>2, <2>5
    <3>3. \A q \in Tools : run'[q].job \in {"none", "tool"} /\ run'[q].pc \notin {"read", "end"}
      BY <1>0, <1>2, <2>1, <2>2, <3>1 DEF JobsOK
    <3>. QED
      BY <1>0, <1>2, <2>3, <2>5, <3>2, <3>3 DEF JobsOK, Active
  <2>. QED
    BY <2>4, <2>5
<1>3. CASE ConsoleApplies
  <2>1. PICK l : Begin(Console, "apply", "read", l)
    BY <1>3 DEF ConsoleApplies
  <2>2. "read" \in {"read", "set", "open"}
    OBVIOUS
  <2>. QED
    BY <1>0, <1>2, <2>1, <2>2
<1>4. CASE WizardWrites
  <2>1. PICK l \in Layouts : Begin(Console, "wizard", "open", l)
    BY <1>4 DEF WizardWrites
  <2>2. stage' \notin {"apply1", "apply2"}
    BY <1>4 DEF WizardWrites
  <2>. QED
    BY <1>0, <1>2, <2>1, <2>2
<1>5. CASE ConsoleEnds
  <2>1. run'[Console] = Idle /\ \A q \in Procs : q # Console => run'[q] = run[q]
    BY <1>0, <1>5 DEF ConsoleEnds
  <2>2. stage' \notin {"apply1", "apply2"}
    BY <1>5 DEF ConsoleEnds
  <2>. QED
    BY <1>0, <1>idle, <2>1, <2>2 DEF JobsOK, Active
<1>6. CASE ToolBegins
  <2>1. PICK p \in Tools : StartTool(p)
    BY <1>6 DEF ToolBegins
  <2>2. PICK l : Begin(p, "tool", "set", l)
    BY <2>1 DEF StartTool
  <2>. QED
    BY <1>0, <1>2, <1>6, <2>2 DEF ToolBegins, bootVars
<1>7. CASE KeymapGoesOn
  <2>1. PICK p \in Procs : KeymapStep(p) /\ stage' = stage
    BY <1>7 DEF KeymapGoesOn, bootVars
  <2>2. /\ Active(p)
        /\ \A q \in Procs : q # p => run'[q] = run[q]
        /\ \/ run[p].pc \in {"ok", "fail"} /\ run'[p] = Idle
           \/ /\ run'[p].job = run[p].job
              /\ run'[p].pc \notin {"idle", "read"}
              /\ run'[p].pc \in {"ok", "fail"} => run[p].job = "tool"
              /\ run'[p].pc = "end" => run[p].job # "tool" \/ At(p, "read")
              /\ run[p].pc = "read" => run'[p].pc \in {"set", "end"}
              /\ run[p].pc = "set" /\ run[p].job # "tool" => run'[p].pc = "end"
              /\ run[p].pc # "end"
    BY <1>0, <2>1, ProcessGoesOn
  <2>3. run[p].job = "none" <=> run[p].pc = "idle"
    BY <1>0 DEF KeymapTypeOK
  <2>4. \A q \in Procs : ~Active(q)' => run'[q] = Idle
    BY <1>0, <2>2 DEF JobsOK, Active
  <2>5. CASE p = Console
    BY <1>0, <2>1, <2>2, <2>4, <2>5 DEF JobsOK, Active
  <2>6. CASE p # Console
    <3>1. p \in Tools /\ run'[Console] = run[Console]
      BY <1>0, <2>2, <2>6 DEF Procs
    <3>2. \A q \in Tools : run'[q].job \in {"none", "tool"} /\ run'[q].pc \notin {"read", "end"}
      BY <1>0, <1>idle, <2>2, <2>3, <3>1 DEF JobsOK, At, Active
    <3>. QED
      BY <1>0, <2>1, <2>4, <3>1, <3>2 DEF JobsOK, Active
  <2>. QED
    BY <2>5, <2>6
<1>8. CASE \E left \in Left : Off(left)
  <2>1. run' = Nobody /\ stage' = "off"
    BY <1>8 DEF Off
  <2>2. \A p \in Procs : run'[p] = Idle
    BY <2>1 DEF Nobody
  <2>. QED
    BY <1>0, <1>idle, <2>1, <2>2 DEF JobsOK
<1>. QED
  BY <1>0, <1>1, <1>3, <1>4, <1>5, <1>6, <1>7, <1>8, StepKinds

\* The console service is at work exactly in its stages, and nobody early on.
LEMMA WorkNext ==
  ASSUME TypeInv, Boot \/ World
  PROVE  /\ Active(Console)' <=> stage' \in ConsoleStages
         /\ stage' \in EarlyStages => run' = Nobody
<1>0. /\ Active(Console) <=> stage \in ConsoleStages
      /\ stage \in EarlyStages => run = Nobody
      /\ stage \in Stages /\ run \in [Procs -> Job] /\ Console \in Procs /\ JobsOK
      /\ Console \notin Tools
  BY ConsoleAssumption DEF TypeInv, BootTypeOK, ConsoleStages, EarlyStages, KeymapTypeOK, Procs
<1>idle. Idle.pc = "idle"
  BY DEF Idle
<1>1. CASE OtherStep
  BY <1>0, <1>1 DEF OtherStep, ConsoleStages, EarlyStages, Active
<1>2. ASSUME NEW job, NEW pc \in {"read", "open"}, NEW l, Begin(Console, job, pc, l)
      PROVE  Active(Console)'
  <2>1. run'[Console].pc = pc
    BY <1>0, <1>2, BeginsWith
  <2>. QED
    BY <2>1 DEF Active
<1>3. CASE ConsoleApplies
  BY <1>2, <1>3 DEF ConsoleApplies, ConsoleStages, EarlyStages
<1>4. CASE WizardWrites
  BY <1>2, <1>4 DEF WizardWrites, ConsoleStages, EarlyStages
<1>5. CASE ConsoleEnds
  BY <1>0, <1>idle, <1>5 DEF ConsoleEnds, ConsoleStages, EarlyStages, Active
<1>6. CASE ToolBegins
  <2>1. PICK p \in Tools : StartTool(p)
    BY <1>6 DEF ToolBegins
  <2>2. PICK l : Begin(p, "tool", "set", l)
    BY <2>1 DEF StartTool
  <2>3. p \in Procs /\ Console \in Procs \ {p}
    BY <1>0 DEF Procs
  <2>4. Active(Console)' <=> Active(Console)
    BY <1>0, <2>2, <2>3, OthersMeet
  <2>. QED
    BY <1>0, <1>6, <2>4 DEF ToolBegins, bootVars, EarlyStages
<1>7. CASE KeymapGoesOn
  <2>1. PICK p \in Procs : KeymapStep(p) /\ stage' = stage
    BY <1>7 DEF KeymapGoesOn, bootVars
  <2>2. /\ Active(p)
        /\ \A q \in Procs : q # p => run'[q] = run[q]
        /\ run[p].pc \in {"ok", "fail"} \/ run'[p].pc # "idle"
    BY <1>0, <2>1, ProcessGoesOn
  <2>3. Active(Console)' <=> Active(Console)
    BY <1>0, <2>2 DEF Active, JobsOK
  <2>4. stage \notin EarlyStages
    BY <1>0, <1>idle, <2>2 DEF Nobody, Active
  <2>. QED
    BY <1>0, <2>1, <2>3, <2>4
<1>8. CASE \E left \in Left : Off(left)
  <2>1. run' = Nobody /\ stage' = "off"
    BY <1>8 DEF Off
  <2>. QED
    BY <1>0, <1>idle, <2>1 DEF Nobody, Active, ConsoleStages
<1>. QED
  BY <1>0, <1>1, <1>3, <1>4, <1>5, <1>6, <1>7, <1>8, StepKinds

LEMMA TypeNext ==
  ASSUME TypeInv, Boot \/ World, CalmNext
  PROVE  TypeInv'
<1>1. calm' \in BOOLEAN
  BY DEF CalmNext
<1>2. KeymapTypeOK' /\ BootVarsOK' /\ disk' \in DiskType /\ JobsOK'
  BY KeymapTypesNext, BootVarsNext, DiskNext, JobsNext
<1>3. /\ Active(Console)' <=> stage' \in ConsoleStages
      /\ stage' \in EarlyStages => run' = Nobody
  BY WorkNext
<1>4. /\ DOMAIN disk' = {"keymap", "temp", "done", "homes"}
      /\ disk'.keymap \in Seq(Seq(Chars)) /\ disk'.temp \in Seq(Seq(Chars))
      /\ disk'.done \in BOOLEAN /\ disk'.homes \subseteq Disks
  BY <1>2 DEF DiskType, Texts
<1>5. BootTypeOK'
  BY <1>1, <1>2, <1>3, <1>4 DEF BootTypeOK, BootVarsOK, ConsoleStages, EarlyStages, Nobody
<1>. QED
  BY <1>2, <1>5 DEF TypeInv, DiskType, Texts, Disks

-----------------------------------------------------------------------------
(* Where the home directory is                                             *)

LEMMA ApplianceNext ==
  ASSUME TypeInv, ApplianceOK, Boot \/ World
  PROVE  ApplianceOK'
<1>0. stage \in Stages
  BY DEF TypeInv, BootTypeOK
<1> USE <1>0, NextSteps DEF ApplianceOK, Stages, fixed, rest, bootVars, StepOver, SkipStep
<1>1. CASE Fsck \/ FsckNotRun \/ mount_runtime_tmp \/ mount_persistent_home
           \/ try_mount_dennis_src \/ MountFails
  BY <1>1 DEF Fsck, FsckNotRun, mount_runtime_tmp, mount_persistent_home, try_mount_dennis_src,
              MountFails
<1>2. CASE FirstbootEarly \/ FirstbootConsole
  BY <1>2 DEF FirstbootEarly, FirstbootConsole, Accounts, AccountsFail
<1>3. CASE Handoff \/ HandoffFails \/ InitGoesOn \/ Stage2
  BY <1>3 DEF Handoff, HandoffFails, InitGoesOn, Stage2
<1>4. CASE StartConsole \/ Applied \/ AskLayout \/ LayoutAsked
  BY <1>4 DEF StartConsole, Applied, ConsoleOver, AskLayout, LayoutAsked
<1>5. CASE WizardNotRun \/ Reapply \/ Reapplied \/ ConsoleDies
  BY <1>5 DEF WizardNotRun, Reapply, Reapplied, ConsoleOver, ConsoleDies
<1>6. CASE RemountRo \/ LeaveShell \/ ShellFails \/ MountRootRw \/ PowerOn
  BY <1>6 DEF RemountRo, LeaveShell, ShellFails, MountRootRw, PowerOn
<1>7. CASE RunKeymap \/ KeymapGoesOn
  BY <1>7 DEF RunKeymap, KeymapGoesOn
<1>8. CASE Sync \/ RebootFails
  BY <1>8 DEF Sync, RebootFails
<1>9. CASE Reboot \/ PowerCut
  BY <1>9 DEF Reboot, PowerCut, Off
<1>. QED
  BY <1>1, <1>2, <1>3, <1>4, <1>5, <1>6, <1>7, <1>8, <1>9 DEF Boot, World

LEMMA HomeNext ==
  ASSUME TypeInv, HomeOK, Boot \/ World
  PROVE  HomeOK'
<1>0. stage \in Stages /\ homeless \in BOOLEAN /\ Files \in DiskType /\ disk \in DiskType
  BY FilesType DEF TypeInv, BootTypeOK
<1>1. KeymapTypeOK' /\ done' \in BOOLEAN /\ homes' \subseteq Disks
  BY KeymapTypesNext, BootVarsNext DEF BootVarsOK
<1>done. Files.done = done /\ Files'.done = done'
  BY DEF Files
<1>sync. SyncRoot => disk'.done = done'
  BY <1>0, <1>1, <1>done, FilesTypeNext, SidesType DEF SyncRoot
<1> USE <1>0, NextSteps DEF HomeOK, HomeDisk, Stages, fixed, stored, rest, bootVars, StepOver,
                            SkipStep
<1>2. CASE Fsck \/ FsckNotRun \/ mount_runtime_tmp \/ mount_persistent_home
           \/ try_mount_dennis_src
  BY <1>2 DEF Fsck, FsckNotRun, mount_runtime_tmp, mount_persistent_home, try_mount_dennis_src
<1>3. CASE MountFails
  BY <1>3 DEF MountFails
<1>4. ASSUME NEW to \in Stages, stage \notin {"off", "fsck", "tmp", "home"}, Accounts(to)
      PROVE  HomeOK'
  BY <1>4, <1>sync DEF Accounts, MakeHome
<1>5. ASSUME NEW to \in Stages, stage \notin {"off", "fsck", "tmp", "home"}, AccountsFail(to)
      PROVE  HomeOK'
  BY <1>5 DEF AccountsFail, MakeHome
<1>6. CASE FirstbootEarly
  <2>1. CASE Accounts("dennis") \/ AccountsFail("dennis")
    BY <1>4, <1>5, <1>6, <2>1 DEF FirstbootEarly
  <2>. QED
    BY <1>6, <2>1 DEF FirstbootEarly
<1>7. CASE FirstbootConsole
  BY <1>4, <1>5, <1>7 DEF FirstbootConsole
<1>8. CASE Handoff \/ HandoffFails \/ InitGoesOn \/ Stage2
  BY <1>8 DEF Handoff, HandoffFails, InitGoesOn, Stage2
<1>9. CASE StartConsole \/ Applied \/ AskLayout \/ LayoutAsked
  BY <1>9 DEF StartConsole, Applied, ConsoleOver, AskLayout, LayoutAsked
<1>10. CASE WizardNotRun \/ Reapply \/ Reapplied \/ ConsoleDies
  BY <1>10 DEF WizardNotRun, Reapply, Reapplied, ConsoleOver, ConsoleDies
<1>11. CASE RemountRo \/ LeaveShell \/ ShellFails \/ MountRootRw \/ PowerOn
  BY <1>11 DEF RemountRo, LeaveShell, ShellFails, MountRootRw, PowerOn
<1>12. CASE RunKeymap \/ KeymapGoesOn
  BY <1>12 DEF RunKeymap, KeymapGoesOn
<1>13. CASE Sync \/ RebootFails
  BY <1>13, <1>done DEF Sync, RebootFails
<1>14. CASE Reboot \/ PowerCut
  <2>1. PICK left \in Left : Off(left)
    BY <1>14 DEF Reboot, PowerCut
  <2>2. left.done \in {done, disk.done}
    BY <2>1, LeftType DEF TypeInv, BootTypeOK
  <2>. QED
    BY <2>1, <2>2 DEF Off
<1>. QED
  BY <1>2, <1>3, <1>6, <1>7, <1>8, <1>9, <1>10, <1>11, <1>12, <1>13, <1>14 DEF Boot, World

-----------------------------------------------------------------------------
(* The recovery shell                                                      *)

\* With root read-only and no file open, a process changes no file and opens none.
LEMMA ReadOnlyStep ==
  ASSUME KeymapTypeOK, NEW p \in Procs, KeymapStep(p), root = "ro",
         \A q \in Procs : run[q].fd = NoInode
  PROVE  /\ \A q \in Procs : run'[q].fd = NoInode
         /\ UNCHANGED <<root, keymap, temp>>
         /\ keymap # NoInode => data'[keymap] = data[keymap]
         /\ temp # NoInode => data'[temp] = data[temp]
<1>0. /\ run \in [Procs -> Job] /\ run[p].pc \notin {"name", "newline", "close"}
      /\ {keymap, temp} \subseteq Inodes \cup {NoInode}
  BY DEF KeymapTypeOK
<1> USE <1>0 DEF At, Goto, Job
<1>1. CASE ir0_keymap_set(p) \/ SetFails(p)
  BY <1>1 DEF ir0_keymap_set, SetFails
<1>2. CASE OpenTemp(p) \/ WriteName(p) \/ WriteNewline(p) \/ Close(p) \/ Rename(p)
  BY <1>2 DEF OpenTemp, WriteName, WriteNewline, Close, Rename
<1>3. CASE OpenFails(p) \/ RenameFails(p) \/ ReadFails(p)
  BY <1>3 DEF OpenFails, RenameFails, ReadFails
<1>4. CASE UnlinkTemp(p)
  <2>1. run' = [run EXCEPT ![p].pc = AfterFailure(p)] /\ keymap' = keymap /\ temp' = temp /\ root' = root
        /\ Reclaim
    BY <1>4 DEF UnlinkTemp
  <2>2. \A q \in Procs : run'[q].fd = run[q].fd
    BY <2>1
  <2>. QED
    BY <2>1, <2>2 DEF Reclaim, Linked
<1>5. CASE ReadFile(p)
  BY <1>5 DEF ReadFile
<1>6. CASE ExitTool(p)
  BY <1>6 DEF ExitTool, Idle
<1>. QED
  BY <1>1, <1>2, <1>3, <1>4, <1>5, <1>6 DEF KeymapStep

\* In the recovery shell, with root read-only, nothing else happens to the files.
LEMMA ShellSteps ==
  ASSUME TypeInv, stage = "shell", Boot \/ World
  PROVE  \/ KeymapGoesOn
         \/ stage' = "off"
         \/ /\ UNCHANGED <<keymap, temp, data, done, homes>>
            /\ UNCHANGED <<root, stage, screen>> \/ stage' # "shell" \/ screen' # "ro"
            /\ run' = run \/ ToolBegins
<1> USE DEF StepOver, SkipStep, fixed, stored, rest, bootVars, keymapVars, kernelVars
<1>1. CASE Fsck \/ FsckNotRun \/ mount_runtime_tmp \/ mount_persistent_home
           \/ try_mount_dennis_src \/ MountFails
  BY <1>1 DEF Fsck, FsckNotRun, mount_runtime_tmp, mount_persistent_home, try_mount_dennis_src,
              MountFails
<1>2. CASE FirstbootEarly \/ FirstbootConsole
  BY <1>2 DEF FirstbootEarly, FirstbootConsole
<1>3. CASE Handoff \/ HandoffFails \/ InitGoesOn \/ Stage2
  BY <1>3 DEF Handoff, HandoffFails, InitGoesOn, Stage2
<1>4. CASE StartConsole \/ Applied \/ AskLayout \/ LayoutAsked
  BY <1>4 DEF StartConsole, Applied, ConsoleOver, AskLayout, LayoutAsked
<1>5. CASE WizardNotRun \/ Reapply \/ Reapplied \/ ConsoleDies
  BY <1>5 DEF WizardNotRun, Reapply, Reapplied, ConsoleOver, ConsoleDies
<1>6. CASE RemountRo \/ LeaveShell \/ ShellFails \/ MountRootRw \/ PowerOn
  BY <1>6 DEF RemountRo, LeaveShell, ShellFails, MountRootRw, PowerOn
<1>7. CASE RunKeymap
  <2>1. PICK p \in Tools : StartTool(p)
    BY <1>7 DEF RunKeymap
  <2>2. UNCHANGED <<root, keymap, temp, data>>
    BY <2>1 DEF StartTool
  <2>. QED
    BY <1>7, <2>2 DEF RunKeymap, ToolBegins
<1>8. CASE Sync \/ RebootFails
  BY <1>8 DEF Sync, RebootFails
<1>9. CASE Reboot \/ PowerCut
  BY <1>9 DEF Reboot, PowerCut, Off
<1>. QED
  BY <1>1, <1>2, <1>3, <1>4, <1>5, <1>6, <1>7, <1>8, <1>9 DEF Boot, World

\* How the shell, the second applying of the layout and the prompt are reached, and
\* how the machine comes to be on its way down.
LEMMA Entries ==
  ASSUME TypeInv, Boot \/ World
  PROVE  /\ stage' = "shell" /\ stage # "shell" => RemountRo
         /\ stage' = "apply2" =>
              Reapply \/ (stage = "apply2" /\ (KeymapGoesOn \/ RebootFails))
         /\ stage' = "login" =>
              \/ Reapplied
              \/ /\ stage = "login"
                 /\ KeymapGoesOn \/ ToolBegins \/ UNCHANGED <<layout, keymap, data, run>>
         /\ power' = "synced" =>
              \/ Sync
              \/ /\ power = "synced"
                 /\ KeymapGoesOn \/ ConsoleDies \/ stage \notin {"shell", "login"}
         /\ stage' = "off" => power' = "on" \/ KeymapGoesOn
<1>0. stage \in Stages
  BY DEF TypeInv, BootTypeOK
<1> USE <1>0, NextSteps DEF Stages, StepOver, SkipStep, fixed, stored, rest, bootVars, keymapVars,
        kernelVars
<1>1. CASE Fsck \/ FsckNotRun \/ mount_runtime_tmp \/ mount_persistent_home
           \/ try_mount_dennis_src \/ MountFails
  BY <1>1 DEF Fsck, FsckNotRun, mount_runtime_tmp, mount_persistent_home, try_mount_dennis_src,
              MountFails
<1>2. CASE FirstbootEarly \/ FirstbootConsole
  BY <1>2 DEF FirstbootEarly, FirstbootConsole, Accounts, AccountsFail
<1>3. CASE Handoff \/ HandoffFails \/ InitGoesOn \/ Stage2
  BY <1>3 DEF Handoff, HandoffFails, InitGoesOn, Stage2
<1>4. CASE StartConsole \/ Applied \/ AskLayout \/ LayoutAsked
  BY <1>4 DEF StartConsole, Applied, ConsoleOver, AskLayout, LayoutAsked
<1>5. CASE WizardNotRun
  BY <1>5 DEF WizardNotRun
<1>6. CASE Reapply
  BY <1>6 DEF Reapply
<1>7. CASE Reapplied
  BY <1>7 DEF Reapplied, ConsoleOver
<1>8. CASE ConsoleDies
  BY <1>8 DEF ConsoleDies
<1>9. CASE RemountRo
  BY <1>9 DEF RemountRo
<1>10. CASE LeaveShell \/ ShellFails \/ MountRootRw \/ PowerOn
  BY <1>10 DEF LeaveShell, ShellFails, MountRootRw, PowerOn
<1>11. CASE RunKeymap
  BY <1>11 DEF RunKeymap, ToolBegins
<1>12. CASE KeymapGoesOn
  BY <1>12 DEF KeymapGoesOn
<1>13. CASE Sync
  BY <1>13 DEF Sync
<1>14. CASE RebootFails
  BY <1>14 DEF RebootFails
<1>15. CASE Reboot \/ PowerCut
  BY <1>15 DEF Reboot, PowerCut, Off
<1>. QED
  BY <1>1, <1>2, <1>3, <1>4, <1>5, <1>6, <1>7, <1>8, <1>9, <1>10, <1>11, <1>12, <1>13, <1>14,
     <1>15 DEF Boot, World

LEMMA RecoveryNext ==
  ASSUME TypeInv, RecoveryOK, Boot \/ World
  PROVE  RecoveryOK'
<1>0. /\ KeymapTypeOK /\ run \in [Procs -> Job] /\ Tools \subseteq Procs
      /\ stage \in EarlyStages => run = Nobody
  BY DEF TypeInv, BootTypeOK, KeymapTypeOK, Procs, EarlyStages
<1>1. SUFFICES ASSUME stage' = "shell", screen' = "ro"
               PROVE  root' = "ro" /\ \A p \in Procs : run'[p].fd = NoInode
  BY DEF RecoveryOK
<1>2. CASE stage # "shell"
  <2>1. RemountRo
    BY <1>1, <1>2, Entries
  <2>2. run = Nobody /\ run' = run /\ root' = "ro"
    BY <1>0, <1>1, <2>1 DEF RemountRo, EarlyStages
  <2>. QED
    BY <2>2 DEF Nobody, Idle
<1>3. CASE stage = "shell"
  <2>1. CASE KeymapGoesOn
    <3>1. screen = "ro" /\ \E p \in Procs : KeymapStep(p)
      BY <1>1, <2>1 DEF KeymapGoesOn, bootVars, rest
    <3>. QED
      BY <1>0, <1>3, <3>1, ReadOnlyStep DEF RecoveryOK
  <2>2. CASE UNCHANGED <<root, stage, screen>> /\ run' = run
    BY <1>1, <2>2 DEF RecoveryOK
  <2>3. CASE UNCHANGED <<root, stage, screen>> /\ ToolBegins
    <3>0. root = "ro" /\ \A p \in Procs : run[p].fd = NoInode
      BY <1>1, <2>3 DEF RecoveryOK
    <3>1. PICK p \in Tools : StartTool(p)
      BY <2>3 DEF ToolBegins
    <3>2. PICK l : Begin(p, "tool", "set", l)
      BY <3>1 DEF StartTool
    <3>3. run'[p].fd = NoInode
      BY <1>0, <3>2, BeginsWith
    <3>4. ASSUME NEW q \in Procs \ {p} PROVE run'[q].fd = NoInode
      <4>1. run'[q] = (IF Active(q) THEN [run[q] EXCEPT !.met = TRUE] ELSE run[q])
            /\ run[q] \in Job
        BY <1>0, <3>2, OthersMeet
      <4>. QED
        BY <3>0, <4>1 DEF Job
    <3>. QED
      BY <2>3, <3>0, <3>3, <3>4
  <2>. QED
    BY <1>1, <1>3, <2>1, <2>2, <2>3, ShellSteps
<1>. QED
  BY <1>2, <1>3

\* The files of the machine in a read-only shell.
LEMMA ShellKeepsFiles ==
  ASSUME TypeInv, RecoveryOK, Boot \/ World, stage = "shell", screen = "ro"
  PROVE  Files' = Files \/ stage' = "off"
<1>1. KeymapTypeOK
  BY DEF TypeInv, BootTypeOK
<1>2. ASSUME KeymapGoesOn
      PROVE  /\ UNCHANGED <<keymap, temp, done, homes>>
             /\ keymap # NoInode => data'[keymap] = data[keymap]
             /\ temp # NoInode => data'[temp] = data[temp]
  <2>1. PICK p \in Procs : KeymapStep(p)
    BY <1>2 DEF KeymapGoesOn
  <2>2. root = "ro" /\ \A q \in Procs : run[q].fd = NoInode
    BY DEF RecoveryOK
  <2>3. UNCHANGED <<done, homes>>
    BY <1>2 DEF KeymapGoesOn, bootVars, rest, stored
  <2>. QED
    BY <1>1, <2>1, <2>2, <2>3, ReadOnlyStep
<1>3. CASE /\ UNCHANGED <<keymap, temp, done, homes>>
           /\ keymap # NoInode => data'[keymap] = data[keymap]
           /\ temp # NoInode => data'[temp] = data[temp]
  BY <1>3 DEF Files, File
<1>. QED
  BY <1>2, <1>3, ShellSteps

-----------------------------------------------------------------------------
(* The way down                                                            *)

LEMMA NobodyGoesOn ==
  ASSUME run \in [Procs -> Job], run = Nobody
  PROVE  ~KeymapGoesOn
<1>1. \A p \in Procs : ~Active(p)
  BY DEF Nobody, Active, Idle
<1>. QED
  BY <1>1, ProcessGoesOn DEF KeymapGoesOn

LEMMA SyncedNext ==
  ASSUME TypeInv, SyncedOK, Boot \/ World, CalmNext
  PROVE  SyncedOK'
<1>1. SUFFICES ASSUME calm', power' = "synced"
               PROVE  stage' \in {"shell", "login"} /\ run' = Nobody /\ disk' = Files'
  BY DEF SyncedOK, Nobody
<1>2. CASE Sync
  <2>1. stage' = stage /\ stage \in {"shell", "login"}
    BY <1>2 DEF Sync
  <2>2. StaysCalm
    BY <1>1, <2>1 DEF CalmNext
  <2>3. run' = Nobody
    BY <1>1, <2>2 DEF StaysCalm
  <2>4. disk' = Files'
    BY <1>2 DEF Sync, keymapVars, Files, File
  <2>. QED
    BY <2>1, <2>3, <2>4
<1>3. CASE power = "synced" /\ (KeymapGoesOn \/ ConsoleDies \/ stage \notin {"shell", "login"})
  <2>1. ~(stage' = "off" /\ KeymapGoesOn)
    <3>1. KeymapGoesOn => stage' = stage
      BY DEF KeymapGoesOn, bootVars
    <3>. QED
      BY <3>1, NobodyGoesOn DEF TypeInv, BootTypeOK, KeymapTypeOK
  <2>2. stage' # "off"
    BY <1>1, <2>1, Entries
  <2>3. calm /\ StaysCalm
    BY <1>1, <1>3, <2>2 DEF CalmNext
  <2>4. stage \in {"shell", "login"} /\ run = Nobody
    BY <1>3, <2>3 DEF SyncedOK
  <2>5. ~KeymapGoesOn
    BY <2>4, NobodyGoesOn DEF TypeInv, BootTypeOK, KeymapTypeOK
  <2>6. ~ConsoleDies
    <3>1. faults \in Nat /\ faults' = faults
      BY <2>3, MaxFaultsAssumption DEF StaysCalm, TypeInv, BootTypeOK, KeymapTypeOK
    <3>. QED
      BY <3>1 DEF ConsoleDies, Fault
  <2>. QED
    BY <1>3, <2>4, <2>5, <2>6
<1>. QED
  BY <1>1, <1>2, <1>3, Entries

\* Everything that was on disk is there after an ordered shutdown.
LEMMA ShutdownKeeps ==
  ASSUME TypeInv, SyncedOK, Boot \/ World, calm, power = "synced", stage' = "off"
  PROVE  Files' = Files
<1>0. /\ disk = Files /\ stage \in {"shell", "login"} /\ run = Nobody
      /\ Files \in DiskType /\ homes \subseteq Disks /\ stage \in Stages
  BY FilesType DEF SyncedOK, TypeInv, BootTypeOK
<1>1. PICK left \in Left : Off(left)
  <2>1. CASE \E left \in Left : Off(left)
    BY <2>1
  <2>2. CASE OtherStep
    BY <1>0, <2>2 DEF OtherStep, EarlyStages
  <2>3. CASE ToolBegins \/ KeymapGoesOn
    BY <1>0, <2>3 DEF ToolBegins, KeymapGoesOn, bootVars
  <2>4. CASE ConsoleApplies \/ WizardWrites \/ ConsoleEnds
    BY <1>0, <2>4 DEF ConsoleApplies, WizardWrites, ConsoleEnds
  <2>. QED
    BY <1>0, <2>1, <2>2, <2>3, <2>4, StepKinds
<1>2. left = Files
  <2>1. Sides(Files, Files) = Files
    <3>1. (homes \cap {"root"}) \cup (homes \cap {"disk"}) = homes
      BY <1>0 DEF Disks
    <3>. QED
      BY <3>1 DEF Sides, Files
  <2>2. Left = {Sides(Files, Files)}
    BY <1>0 DEF Left
  <2>. QED
    BY <2>1, <2>2
<1>3. /\ keymap' = IF Files.keymap = <<>> THEN NoInode ELSE Inode1
      /\ temp' = IF Files.temp = <<>> THEN NoInode ELSE Inode2
      /\ data' = [k \in Inodes |-> IF k = keymap' THEN Files.keymap[1]
                                   ELSE IF k = temp' THEN Files.temp[1] ELSE <<>>]
      /\ done' = done /\ homes' = homes
  BY <1>1, <1>2 DEF Off, Files
<1>4. /\ Files.keymap = <<>> \/ Files.keymap = <<Files.keymap[1]>>
      /\ Files.temp = <<>> \/ Files.temp = <<Files.temp[1]>>
  BY DEF Files, File
<1>5. File(keymap)' = Files.keymap
  BY <1>3, <1>4, TwoInodes, NoInodeAssumption DEF File
<1>6. File(temp)' = Files.temp
  BY <1>3, <1>4, TwoInodes, NoInodeAssumption DEF File
<1>7. Files.keymap = File(keymap) /\ Files.temp = File(temp)
  BY DEF Files
<1>. QED
  BY <1>3, <1>5, <1>6, <1>7 DEF Files

-----------------------------------------------------------------------------
(* The layout at the prompt                                                *)

\* The console service applies what the file says.
LEMMA ConsoleApplying ==
  ASSUME KeymapTypeOK, KeymapStep(Console), run[Console].job = "apply",
         run[Console].pc \in {"read", "set", "end"}, faults' = faults,
         At(Console, "set") => Says(run[Console].want)
  PROVE  /\ At(Console, "set")' => Says(run[Console].want)'
         /\ At(Console, "end")' => Says(layout)'
<1>0. /\ run \in [Procs -> Job] /\ Console \in Procs /\ faults \in Int
  BY MaxFaultsAssumption DEF KeymapTypeOK, Procs
<1>1. ir0_keymap_set(Console) \/ ReadFile(Console)
  <2>1. ~Fault
    BY <1>0 DEF Fault
  <2>2. run[Console].pc \notin {"open", "name", "newline", "close", "rename", "unlink", "ok", "fail"}
    OBVIOUS
  <2>3. ~(SetFails(Console) \/ ReadFails(Console))
    BY <2>1 DEF SetFails, ReadFails
  <2>4. ~(OpenTemp(Console) \/ WriteName(Console) \/ WriteNewline(Console) \/ Close(Console))
    BY <2>2 DEF OpenTemp, WriteName, WriteNewline, Close, At
  <2>5. ~(Rename(Console) \/ UnlinkTemp(Console) \/ ExitTool(Console) \/ OpenFails(Console)
          \/ RenameFails(Console))
    BY <2>2 DEF Rename, UnlinkTemp, ExitTool, OpenFails, RenameFails, At
  <2>. QED
    BY <2>3, <2>4, <2>5 DEF KeymapStep
<1>2. CASE ir0_keymap_set(Console)
  <2>1. /\ Says(run[Console].want) /\ layout' = run[Console].want
        /\ UNCHANGED <<keymap, data>> /\ run'[Console].pc = "end"
    BY <1>0, <1>2 DEF ir0_keymap_set, At, Goto, Job
  <2>2. Says(layout)'
    BY <2>1 DEF Says, File
  <2>. QED
    BY <2>1, <2>2 DEF At
<1>3. CASE ReadFile(Console)
  <2>1. PICK l : /\ l = IF keymap = NoInode THEN Unknown ELSE ir0_keymap_parse(data[keymap])
                 /\ run' = IF l = Unknown THEN [run EXCEPT ![Console].pc = "end"]
                           ELSE [run EXCEPT ![Console].pc = "set", ![Console].want = l]
                 /\ UNCHANGED <<layout, keymap, data>>
    BY <1>3, Zenon DEF ReadFile
  <2>2. ASSUME NEW k \in Layouts, File(keymap) = <<Line(k)>>
        PROVE  l = k /\ l # Unknown
    <3>1. keymap # NoInode /\ data[keymap] = Line(k)
      BY <2>2 DEF File
    <3>. QED
      BY <2>1, <3>1, ParseLine
  <2>3. CASE l = Unknown
    <3>1. \A k \in Layouts : File(keymap) # <<Line(k)>>
      BY <2>2, <2>3
    <3>2. UNCHANGED <<keymap, data>> /\ run'[Console].pc = "end"
      BY <1>0, <2>1, <2>3 DEF Job
    <3>. QED
      BY <3>1, <3>2 DEF Says, At, File
  <2>4. CASE l # Unknown
    <3>1. Says(l)
      BY <2>2 DEF Says
    <3>2. UNCHANGED <<keymap, data>> /\ run'[Console].pc = "set" /\ run'[Console].want = l
      BY <1>0, <2>1, <2>4 DEF Job
    <3>. QED
      BY <3>1, <3>2 DEF Says, At, File
  <2>. QED
    BY <2>3, <2>4
<1>. QED
  BY <1>1, <1>2, <1>3

\* A run of keymap that meets no failure notices what it writes.
LEMMA ToolUnnicked ==
  ASSUME KeymapTypeOK, NEW p \in Procs, KeymapStep(p), faults' = faults, ~run[p].nicked
  PROVE  ~run'[p].nicked
<1>0. /\ run \in [Procs -> Job] /\ faults \in Int
  BY MaxFaultsAssumption DEF KeymapTypeOK
<1> USE <1>0 DEF At, Goto, Job
<1>1. CASE WriteName(p)
  <2>1. PICK n \in -1..Len(ir0_keymap_name(run[p].want)) :
          /\ IF n = Len(ir0_keymap_name(run[p].want)) THEN UNCHANGED faults ELSE Fault
          /\ run' = [run EXCEPT
               ![p].pc = IF n = Len(ir0_keymap_name(run[p].want)) THEN "newline" ELSE "close",
               ![p].put = n, ![p].nicked = (n = 1)]
    BY <1>1 DEF WriteName
  <2>2. n = Len(ir0_keymap_name(run[p].want))
    BY <2>1 DEF Fault
  <2>3. n >= 2
    BY <2>2, NameType
  <2>4. run'[p].nicked = (n = 1)
    BY <2>1
  <2>. QED
    BY <2>3, <2>4
<1>2. CASE ir0_keymap_set(p) \/ SetFails(p) \/ OpenFails(p) \/ RenameFails(p) \/ ReadFails(p)
  BY <1>2 DEF ir0_keymap_set, SetFails, OpenFails, RenameFails, ReadFails
<1>3. CASE OpenTemp(p)
  BY <1>3 DEF OpenTemp
<1>4. CASE WriteNewline(p)
  BY <1>4 DEF WriteNewline
<1>5. CASE Close(p)
  BY <1>5 DEF Close
<1>6. CASE Rename(p) \/ UnlinkTemp(p)
  BY <1>6 DEF Rename, UnlinkTemp
<1>7. CASE ReadFile(p)
  BY <1>7 DEF ReadFile
<1>8. CASE ExitTool(p)
  BY <1>8 DEF ExitTool, Idle
<1>. QED
  BY <1>1, <1>2, <1>3, <1>4, <1>5, <1>6, <1>7, <1>8 DEF KeymapStep

LEMMA StaysCalmMeans ==
  ASSUME TypeInv, TypeInv', StaysCalm
  PROVE  /\ faults' = faults /\ faults \in Int /\ ~Fault
         /\ \A p \in Procs : ~run'[p].met /\ ~At(p, "fail")'
BY MaxFaultsAssumption DEF StaysCalm, TypeInv, BootTypeOK, KeymapTypeOK, Fault, At

LEMMA ApplyingNext ==
  ASSUME TypeInv, TypeInv', KeymapInv, LoginOK, Boot \/ World, CalmNext, calm', stage' = "apply2"
  PROVE  \/ At(Console, "read")'
         \/ /\ \A p \in Procs : ~run'[p].met
            /\ At(Console, "set")' => Says(run[Console].want)'
            /\ At(Console, "end")' => Says(layout)'
<1>0. /\ KeymapTypeOK /\ JobsOK /\ run \in [Procs -> Job] /\ Console \in Procs
      /\ Active(Console) <=> stage \in ConsoleStages
  BY DEF TypeInv, BootTypeOK, KeymapTypeOK, Procs, ConsoleStages
<1>1. CASE Reapply
  <2>1. run'[Console].pc = "read"
    BY <1>0, <1>1, BeginsWith DEF Reapply
  <2>. QED
    BY <2>1 DEF At
<1>2. CASE stage = "apply2" /\ (KeymapGoesOn \/ RebootFails)
  <2>0. calm /\ StaysCalm
    BY <1>2 DEF CalmNext
  <2>1. /\ faults' = faults /\ ~Fault
        /\ \A p \in Procs : ~run'[p].met
    BY <2>0, StaysCalmMeans
  <2>2. /\ run[Console].job = "apply" /\ run[Console].pc \in {"read", "set", "end"}
        /\ Active(Console)
    BY <1>0, <1>2 DEF JobsOK, ConsoleStages
  <2>3. \/ At(Console, "read")
        \/ /\ \A p \in Procs : ~run[p].met
           /\ At(Console, "set") => Says(run[Console].want)
           /\ At(Console, "end") => Says(layout)
    BY <1>2, <2>0 DEF LoginOK
  <2>4. PICK p \in Procs : KeymapStep(p)
    BY <1>2, <2>1 DEF KeymapGoesOn, RebootFails
  <2>5. CASE p = Console
    <3>1. At(Console, "set") => Says(run[Console].want)
      BY <2>3 DEF At
    <3>. QED
      BY <1>0, <2>1, <2>2, <2>4, <2>5, <3>1, ConsoleApplying
  <2>6. CASE p # Console
    <3>1. Active(p) /\ run'[Console] = run[Console]
      BY <1>0, <2>4, <2>6, ProcessGoesOn
    <3>2. run[Console].met
      BY <1>0, <2>2, <2>6, <3>1 DEF KeymapInv, MeetOK
    <3>. QED
      BY <1>0, <2>3, <3>1, <3>2 DEF At
  <2>. QED
    BY <2>5, <2>6
<1>. QED
  BY <1>1, <1>2, Entries

LEMMA PromptNext ==
  ASSUME TypeInv, TypeInv', KeymapInv, LoginOK, Boot \/ World, CalmNext, calm', stage' = "login"
  PROVE  /\ \A p \in Procs : ~run'[p].met /\ ~run'[p].nicked /\ ~At(p, "fail")'
         /\ run' = Nobody => Says(layout)'
<1>0. /\ KeymapTypeOK /\ JobsOK /\ run \in [Procs -> Job] /\ Console \in Procs
      /\ Active(Console) <=> stage \in ConsoleStages
      /\ Tools \subseteq Procs /\ Console \notin Tools
  BY ConsoleAssumption DEF TypeInv, BootTypeOK, KeymapTypeOK, Procs, ConsoleStages
<1>1. ASSUME stage # "reapply"
      PROVE  /\ calm /\ faults' = faults /\ ~Fault
             /\ \A p \in Procs : ~run'[p].met /\ ~At(p, "fail")'
  BY <1>1, StaysCalmMeans DEF CalmNext
<1>idle. Idle.pc = "idle" /\ Idle.nicked = FALSE
  BY DEF Idle
<1>2. CASE Reapplied
  <2>1. /\ stage = "apply2" /\ run[Console].pc = "end" /\ run' = [run EXCEPT ![Console] = Idle]
        /\ UNCHANGED <<layout, keymap, data>>
    BY <1>2 DEF Reapplied, ConsoleOver, At
  <2>2. /\ calm /\ Active(Console) /\ \A p \in Procs : ~run'[p].met /\ ~At(p, "fail")'
    <3>1. Active(Console) /\ stage # "reapply"
      BY <1>0, <2>1 DEF ConsoleStages
    <3>. QED
      BY <1>1, <3>1
  <2>3. (\A p \in Procs : ~run[p].met) /\ Says(layout)
    BY <2>1, <2>2 DEF LoginOK, At
  <2>4. Says(layout)'
    BY <2>1, <2>3 DEF Says, File
  <2>5. ASSUME NEW p \in Procs PROVE ~run'[p].nicked
    <3>1. CASE p = Console
      BY <1>0, <1>idle, <2>1, <3>1
    <3>2. CASE p # Console
      <4>1. ~Active(p)
        BY <1>0, <2>2, <2>3, <3>2 DEF KeymapInv, MeetOK
      <4>2. run'[p] = Idle
        BY <1>0, <2>1, <3>2, <4>1 DEF JobsOK
      <4>. QED
        BY <1>idle, <4>2
    <3>. QED
      BY <3>1, <3>2
  <2>. QED
    BY <2>2, <2>4, <2>5
<1>3. CASE stage = "login" /\ UNCHANGED <<layout, keymap, data, run>>
  <2>1. calm
    BY <1>1, <1>3
  <2>2. /\ \A p \in Procs : ~run[p].met /\ ~run[p].nicked /\ ~At(p, "fail")
        /\ run = Nobody => Says(layout)
    BY <1>3, <2>1 DEF LoginOK
  <2>3. Says(layout) => Says(layout)'
    BY <1>3 DEF Says, File
  <2>. QED
    BY <1>3, <2>2, <2>3 DEF At
<1>4. CASE stage = "login" /\ KeymapGoesOn
  <2>1. /\ calm /\ faults' = faults /\ ~Fault
        /\ \A p \in Procs : ~run'[p].met /\ ~At(p, "fail")'
    BY <1>1, <1>4
  <2>2. \A q \in Procs : ~run[q].met /\ ~run[q].nicked /\ ~At(q, "fail")
    BY <1>4, <2>1 DEF LoginOK
  <2>3. PICK p \in Procs : KeymapStep(p)
    BY <1>4 DEF KeymapGoesOn
  <2>4. /\ Active(p)
        /\ \A q \in Procs : q # p => run'[q] = run[q]
        /\ (run[p].pc \in {"ok", "fail"} /\ run'[p] = Idle) \/ run'[p].pc # "idle"
    BY <1>0, <2>3, ProcessGoesOn
  <2>5. ~run'[p].nicked
    BY <1>0, <2>1, <2>2, <2>3, ToolUnnicked
  <2>6. \A q \in Procs : ~run'[q].nicked
    BY <2>2, <2>4, <2>5
  <2>7. ASSUME run' = Nobody PROVE Says(layout)'
    <3>1. p \in Tools
      BY <1>0, <1>4, <2>4 DEF Procs, ConsoleStages
    <3>2. run[p].pc = "ok"
      <4>1. run'[p].pc = "idle"
        BY <1>idle, <2>7 DEF Nobody
      <4>. QED
        BY <2>2, <2>4, <4>1 DEF At
    <3>3. layout = run[p].want /\ keymap # NoInode /\ data[keymap] = Line(run[p].want)
      BY <2>2, <3>1, <3>2 DEF KeymapInv, ToolOK, Wrote, At
    <3>4. run[p].want \in Layouts
      BY <1>0 DEF Job
    <3>5. UNCHANGED <<layout, keymap, data>>
      <4>1. ExitTool(p)
        BY <2>3, <3>2 DEF KeymapStep, ir0_keymap_set, SetFails, OpenTemp, OpenFails, WriteName,
              WriteNewline, Close, Rename, RenameFails, UnlinkTemp, ReadFile, ReadFails, At
      <4>. QED
        BY <4>1 DEF ExitTool
    <3>6. ASSUME NEW k \in Layouts, <<data[keymap]>> = <<Line(k)>>
          PROVE  layout = k
      <4>1. data[keymap] = Line(k)
        BY <3>6
      <4>. QED
        BY <3>3, <3>4, <4>1, LinesDiffer
    <3>7. Says(layout)
      BY <3>3, <3>6 DEF Says, File
    <3>. QED
      BY <3>5, <3>7 DEF Says, File
  <2>. QED
    BY <2>1, <2>6, <2>7
<1>5. CASE stage = "login" /\ ToolBegins
  <2>1. /\ calm /\ \A p \in Procs : ~run'[p].met /\ ~At(p, "fail")'
    BY <1>1, <1>5
  <2>2. \A q \in Procs : ~run[q].met /\ ~run[q].nicked /\ ~At(q, "fail")
    BY <1>5, <2>1 DEF LoginOK
  <2>3. PICK p \in Tools : StartTool(p)
    BY <1>5 DEF ToolBegins
  <2>4. PICK l : Begin(p, "tool", "set", l)
    BY <2>3 DEF StartTool
  <2>p. p \in Procs
    BY <1>0
  <2>5. run'[p].pc = "set" /\ run'[p].nicked = FALSE
    BY <1>0, <2>p, <2>4, BeginsWith
  <2>6. ASSUME NEW q \in Procs \ {p} PROVE ~run'[q].nicked
    <3>1. run'[q] = (IF Active(q) THEN [run[q] EXCEPT !.met = TRUE] ELSE run[q])
          /\ run[q] \in Job
      BY <1>0, <2>p, <2>4, OthersMeet
    <3>. QED
      BY <2>2, <3>1 DEF Job
  <2>7. run' # Nobody
    BY <1>idle, <2>p, <2>5 DEF Nobody
  <2>. QED
    BY <2>1, <2>5, <2>6, <2>7
<1>. QED
  BY <1>2, <1>3, <1>4, <1>5, Entries

-----------------------------------------------------------------------------
(* The theorems                                                            *)

LEMMA IndInit ==
  ASSUME Init
  PROVE  IndInv
<1>0. /\ <<>> \in Texts /\ run = Nobody /\ Console \in Procs /\ Tools \subseteq Procs
      /\ \A p \in Procs : run[p] = Idle
  BY DEF Init, Nobody, Texts, Procs
<1>idle. /\ Idle \in Job /\ Idle.pc = "idle" /\ Idle.job = "none" /\ Idle.fd = NoInode
         /\ Idle.nicked = FALSE /\ Idle.met = FALSE
  BY IdleType DEF Idle
<1>1. KeymapTypeOK
  <2>1. run \in [Procs -> Job]
    BY <1>0, <1>idle DEF Nobody
  <2>. QED
    BY <1>0, <1>idle, <2>1, MaxFaultsAssumption DEF Init, KeymapTypeOK, Layouts, Us, Texts
<1>2. Files \in DiskType /\ disk = Files
  <2>1. done \in BOOLEAN /\ homes \subseteq Disks
    BY DEF Init
  <2>. QED
    BY <1>1, <2>1, FilesType DEF Init
<1>3. BootTypeOK
  <2>1. /\ DOMAIN disk = {"keymap", "temp", "done", "homes"}
        /\ disk.keymap \in Seq(Seq(Chars)) /\ disk.temp \in Seq(Seq(Chars))
        /\ disk.done \in BOOLEAN /\ disk.homes \subseteq Disks
    BY <1>2 DEF DiskType, Texts
  <2>2. ~Active(Console) /\ stage = "off" /\ run = Nobody
    BY <1>0, <1>idle DEF Active, Init
  <2>3. BootVarsOK
    <3>1. /\ image \in Images /\ boots = 0 /\ stage = "off" /\ fsck = "none" /\ home = "root"
          /\ homes = {} /\ done = FALSE /\ power = "on" /\ screen = "none" /\ homeless = FALSE
      BY DEF Init
    <3>2. boots \in 0..MaxBoots
      BY <3>1, MaxBootsAssumption
    <3>3. stage \in Stages /\ home \in Disks /\ homes \subseteq Disks
      BY <3>1 DEF Stages, Disks
    <3>. QED
      BY <3>1, <3>2, <3>3 DEF BootVarsOK
  <2>4. calm \in BOOLEAN
    BY DEF Init
  <2>. QED
    BY <1>1, <2>1, <2>2, <2>3, <2>4 DEF BootTypeOK, BootVarsOK
<1>4. JobsOK
  BY <1>0, <1>idle DEF JobsOK, Active, Init
<1>5. KeymapInv
  BY <1>0, <1>idle DEF KeymapInv, MeetOK, ToolOK, Active, At
<1>6. LoginOK /\ SyncedOK /\ ApplianceOK /\ RecoveryOK
  BY DEF Init, LoginOK, SyncedOK, ApplianceOK, RecoveryOK
<1>7. HomeOK
  <2>1. done = FALSE /\ disk.done = FALSE /\ stage = "off"
    BY <1>2 DEF Init, Files
  <2>. QED
    BY <2>1 DEF HomeOK
<1>. QED
  BY <1>2, <1>3, <1>4, <1>5, <1>6, <1>7 DEF IndInv, TypeInv

LEMMA IndNext ==
  ASSUME IndInv, [Next]_vars
  PROVE  IndInv'
<1>1. CASE Next
  <2>0. TypeInv /\ KeymapInv /\ LoginOK /\ SyncedOK /\ HomeOK /\ ApplianceOK /\ RecoveryOK
    BY DEF IndInv
  <2>1. (Boot \/ World) /\ CalmNext
    BY <1>1 DEF Next
  <2>2. TypeInv' /\ KeymapInv'
    BY <2>0, <2>1, TypeNext, KeymapInvNext
  <2>3. LoginOK'
    <3>1. calm' /\ stage' = "apply2" =>
            \/ At(Console, "read")'
            \/ /\ \A p \in Procs : ~run'[p].met
               /\ At(Console, "set")' => Says(run[Console].want)'
               /\ At(Console, "end")' => Says(layout)'
      BY <2>0, <2>1, <2>2, ApplyingNext
    <3>2. calm' /\ stage' = "login" =>
            /\ \A p \in Procs : ~run'[p].met /\ ~run'[p].nicked /\ ~At(p, "fail")'
            /\ run' = Nobody => Says(layout)'
      BY <2>0, <2>1, <2>2, PromptNext
    <3>. QED
      BY <3>1, <3>2 DEF LoginOK, Nobody
  <2>4. SyncedOK' /\ HomeOK' /\ ApplianceOK' /\ RecoveryOK'
    BY <2>0, <2>1, SyncedNext, HomeNext, ApplianceNext, RecoveryNext
  <2>. QED
    BY <2>2, <2>3, <2>4 DEF IndInv
<1>2. CASE UNCHANGED vars
  BY <1>2 DEF vars, keymapVars, bootVars, rest, fixed, stored, IndInv, TypeInv, KeymapInv, LoginOK,
       SyncedOK, HomeOK, ApplianceOK, RecoveryOK, BootTypeOK, KeymapTypeOK, JobsOK, MeetOK, ToolOK,
       Wrote, Says, File, Files, HomeDisk, Active, At, Nobody
<1>. QED
  BY <1>1, <1>2

LEMMA Invariance == Spec => []IndInv
<1>1. Init => IndInv
  BY IndInit
<1>2. IndInv /\ [Next]_vars => IndInv'
  BY IndNext
<1>. QED
  BY <1>1, <1>2, PTL DEF Spec

\* The machine keeps its types, the console service is at work exactly in its stages,
\* and no run of keymap outlives the boot it was started in.
THEOREM BootTypeCorrect == Spec => []BootTypeOK
<1>1. IndInv => BootTypeOK
  BY DEF IndInv, TypeInv
<1>. QED
  BY <1>1, Invariance, PTL

\* Success of ir0_keymap_write_file: the file has the whole line, for any number of
\* runs of keymap, whatever they and the power cuts before had left.
THEOREM KeymapSuccessIsTrue == Spec => []SuccessIsStored
<1>1. IndInv => SuccessIsStored
  BY DEF IndInv, KeymapInv, ToolOK, Wrote, At, SuccessIsStored, File
<1>. QED
  BY <1>1, Invariance, PTL

\* At the prompt the kernel has the layout of the file, after ir0_keymap_apply_file
\* has been called once more.
THEOREM LoginHasItsLayout == Spec => []LoginHasStoredLayout
<1>1. IndInv => LoginHasStoredLayout
  BY DEF IndInv, LoginOK, LoginHasStoredLayout, Says
<1>. QED
  BY <1>1, Invariance, PTL

\* Behind the marker of ir0-firstboot there is the home directory, on the file
\* system that mount_persistent_home puts at /home in every boot.
THEOREM HomeStaysReachable == Spec => []HomeIsReachable
<1>1. IndInv => HomeIsReachable
  <2>1. SUFFICES ASSUME IndInv, stage = "login", done, ~homeless
                 PROVE  home \in homes
    BY DEF HomeIsReachable
  <2>2. home = HomeDisk /\ (HomeDisk \in homes \/ image.appliance)
    BY <2>1 DEF IndInv, HomeOK
  <2>3. ~image.appliance
    BY <2>1 DEF IndInv, ApplianceOK
  <2>. QED
    BY <2>2, <2>3
<1>. QED
  BY <1>1, Invariance, PTL

\* sync(2) before reboot(2): an ordered shutdown loses no file.
THEOREM ShutdownKeepsAll == Spec => ShutdownKeepsFiles
<1>1. IndInv /\ [Next]_vars => [calm /\ power = "synced" /\ stage' = "off" => Files' = Files]_vars
  <2>1. SUFFICES ASSUME IndInv, Next, calm, power = "synced", stage' = "off"
                 PROVE  Files' = Files
    OBVIOUS
  <2>. QED
    BY <2>1, ShutdownKeeps DEF IndInv, Next
<1>. QED
  BY <1>1, Invariance, PTL DEF Spec, ShutdownKeepsFiles

\* While the recovery console says that root is read-only, keymap changes no file of
\* it, however many runs try.
THEOREM RecoveryLeavesDisk == Spec => RecoveryKeepsDisk
<1>1. IndInv /\ [Next]_vars =>
        [stage = "shell" /\ screen = "ro" => Files' = Files \/ stage' = "off"]_vars
  <2>1. SUFFICES ASSUME IndInv, Next, stage = "shell", screen = "ro"
                 PROVE  Files' = Files \/ stage' = "off"
    OBVIOUS
  <2>. QED
    BY <2>1, ShellKeepsFiles DEF IndInv, Next
<1>. QED
  BY <1>1, Invariance, PTL DEF Spec, RecoveryKeepsDisk

=============================================================================
