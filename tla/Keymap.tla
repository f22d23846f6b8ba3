------------------------------- MODULE Keymap -------------------------------
(***************************************************************************)
(* The keyboard layout (lib/ir0_keymap.c): a setting of the kernel and the *)
(* file /etc/keymap, which the keymap tool changes one after the other     *)
(* (services/ir0_keymap.c), the firstboot wizard in the opposite order     *)
(* (services/ir0_firstboot.c), and the console service copies from the     *)
(* file to the kernel (services/runit_console_run.c).                      *)
(*                                                                         *)
(* The file is written through /etc/keymap.tmp and renamed.  Nobody takes  *)
(* a lock, and everybody uses the same temporary name, so files are inodes *)
(* here: a run may truncate or rename the one another is writing.  A text  *)
(* is a sequence of characters, since a write may end after any of them.   *)
(***************************************************************************)
EXTENDS Integers, Sequences, FiniteSets

CONSTANTS Tools,     \* runs of /usr/bin/keymap
          Console,   \* the console service, and the wizard it waits for
          Answers,   \* arguments of keymap, answers to the wizard
          Inodes,    \* for /etc/keymap and /etc/keymap.tmp
          NoInode,
          MaxFaults  \* bound: calls that fail

Procs == Tools \cup {Console}

ASSUME ConsoleAssumption == Console \notin Tools
ASSUME NoInodeAssumption == NoInode \notin Inodes
ASSUME MaxFaultsAssumption == MaxFaults \in Nat

\* Room for a new file beside /etc/keymap and what all the others have open.
ASSUME InodesAssumption ==
  /\ IsFiniteSet(Inodes) /\ IsFiniteSet(Procs)
  /\ Cardinality(Inodes) > Cardinality(Procs)

VARIABLES
  layout,       \* of the kernel
  root,         \* "rw" or "ro": how the file system of /etc is mounted
  keymap, temp, \* what /etc/keymap and /etc/keymap.tmp name
  data,         \* the text of each inode
  run,          \* what each process is doing
  faults

keymapVars == <<layout, root, keymap, temp, data, run, faults>>

-----------------------------------------------------------------------------
(* Texts                                                                   *)

Us == 0
Latam == 1
Unknown == -1
Layouts == {Us, Latam}

NL  == "NL"
NUL == "NUL"   \* what a gap in a file reads as

\* What ir0_keymap_name writes, and that as the line of the file.
ir0_keymap_name(l) == IF l = Latam THEN <<"l", "a", "t", "a", "m">> ELSE <<"u", "s">>
Line(l) == Append(ir0_keymap_name(l), NL)

\* The first word of a text is w; case and leading blanks do not occur.
Reads(text, w) ==
  /\ Len(text) >= Len(w)
  /\ SubSeq(text, 1, Len(w)) = w
  /\ Len(text) > Len(w) => text[Len(w) + 1] \in {NL, NUL}

\* Names and their abbreviations.
ir0_keymap_parse(text) ==
  IF \E w \in {<<"u", "s">>, <<"0">>} : Reads(text, w) THEN Us
  ELSE IF \E w \in {<<"l", "a", "t", "a", "m">>, <<"l", "a">>, <<"e", "s">>, <<"1">>} : Reads(text, w)
  THEN Latam ELSE Unknown

\* The text t with s written at an offset, over what is there or after a gap.
WriteAt(t, offset, s) ==
  LET end == offset + Len(s)
  IN  [i \in 1..(IF end > Len(t) THEN end ELSE Len(t)) |->
         IF i \in (offset + 1)..end THEN s[i - offset]
         ELSE IF i <= Len(t) THEN t[i] ELSE NUL]

-----------------------------------------------------------------------------
(* Processes                                                               *)

Idle == [job |-> "none", pc |-> "idle", want |-> Us, fd |-> NoInode,
         put |-> 0, nicked |-> FALSE, met |-> FALSE]

Active(p) == run[p].pc # "idle"

\* p starts a job; it and those at work have met somebody.
Begin(p, job, pc, l) ==
  run' = [q \in Procs |->
            IF q = p THEN [Idle EXCEPT !.job = job, !.pc = pc, !.want = l,
                                       !.met = \E r \in Procs \ {p} : Active(r)]
            ELSE IF Active(q) THEN [run[q] EXCEPT !.met = TRUE] ELSE run[q]]

At(p, pc) == run[p].pc = pc
Goto(p, pc) == run' = [run EXCEPT ![p].pc = pc]

\* keymap reports an error; the wizard and the console go on.
AfterFailure(p) == IF run[p].job = "tool" THEN "fail" ELSE "end"

Fault == faults < MaxFaults /\ faults' = faults + 1

\* An inode lives as long as it has a name or is open.
Linked == {keymap, temp} \cup {run[p].fd : p \in Procs}
Reclaim == data' = [i \in Inodes |-> IF i \in Linked' THEN data[i] ELSE <<>>]

-----------------------------------------------------------------------------
(* ir0_keymap_set                                                          *)

\* keymap goes on to write the file; for the others it was the last step.
ir0_keymap_set(p) ==
  /\ At(p, "set")
  /\ layout' = run[p].want
  /\ Goto(p, IF run[p].job = "tool" THEN "open" ELSE "end")
  /\ UNCHANGED <<root, keymap, temp, data, faults>>

SetFails(p) ==
  /\ At(p, "set")
  /\ Fault
  /\ Goto(p, AfterFailure(p))
  /\ UNCHANGED <<layout, root, keymap, temp, data>>

-----------------------------------------------------------------------------
(* ir0_keymap_write_file                                                   *)

\* open(O_CREAT | O_TRUNC): the file of that name, whoever is writing it.
OpenTemp(p) ==
  /\ At(p, "open") /\ root = "rw"
  /\ LET i == IF temp # NoInode THEN temp ELSE CHOOSE j \in Inodes : j \notin Linked
     IN  /\ temp' = i
         /\ data' = [data EXCEPT ![i] = <<>>]
         /\ run' = [run EXCEPT ![p].pc = "name", ![p].fd = i]
  /\ UNCHANGED <<layout, root, keymap, faults>>

OpenFails(p) ==
  /\ At(p, "open")
  /\ IF root = "rw" THEN Fault ELSE UNCHANGED faults
  /\ Goto(p, AfterFailure(p))
  /\ UNCHANGED <<layout, root, keymap, temp, data>>

\* write returns how many characters it wrote, all of them or fewer, or -1; only
\* after all of them the newline is written.
WriteName(p) ==
  LET name == ir0_keymap_name(run[p].want)
  IN  /\ At(p, "name")
      /\ \E n \in -1..Len(name) :
           /\ IF n = Len(name) THEN UNCHANGED faults ELSE Fault
           /\ data' = [data EXCEPT ![run[p].fd] =
                         IF n > 0 THEN WriteAt(@, 0, SubSeq(name, 1, n)) ELSE @]
           /\ run' = [run EXCEPT ![p].pc = IF n = Len(name) THEN "newline" ELSE "close",
                                 ![p].put = n,
                                 ![p].nicked = (n = 1)]
      /\ UNCHANGED <<layout, root, keymap, temp>>

WriteNewline(p) ==
  /\ At(p, "newline")
  /\ \E n \in -1..1 :
       /\ IF n = 1 THEN UNCHANGED faults ELSE Fault
       /\ data' = [data EXCEPT ![run[p].fd] =
                     IF n = 1 THEN WriteAt(@, Len(ir0_keymap_name(run[p].want)), <<NL>>) ELSE @]
       /\ run' = [run EXCEPT ![p].pc = "close", ![p].put = n]
  /\ UNCHANGED <<layout, root, keymap, temp>>

\* Bug: only close is checked.
CloseUnchecked(p) ==
  /\ At(p, "close")
  /\ run' = [run EXCEPT ![p].pc = "rename", ![p].fd = NoInode, ![p].put = 0]
  /\ UNCHANGED <<layout, root, keymap, temp, faults>>
  /\ Reclaim

\* close fails, or the last write did not return 1.
Close(p) ==
  /\ At(p, "close")
  /\ \E closed \in BOOLEAN :
       /\ IF closed THEN UNCHANGED faults ELSE Fault
       /\ run' = [run EXCEPT ![p].pc = IF closed /\ run[p].put = 1 THEN "rename" ELSE "unlink",
                             ![p].fd = NoInode, ![p].put = 0]
  /\ UNCHANGED <<layout, root, keymap, temp>>
  /\ Reclaim

\* Success of keymap; the wizard has still to set the kernel.
Rename(p) ==
  /\ At(p, "rename") /\ root = "rw" /\ temp # NoInode
  /\ keymap' = temp
  /\ temp' = NoInode
  /\ Goto(p, IF run[p].job = "tool" THEN "ok" ELSE "set")
  /\ UNCHANGED <<layout, root, faults>>
  /\ Reclaim

\* Somebody else has renamed or removed the file, or the call fails otherwise.
RenameFails(p) ==
  /\ At(p, "rename")
  /\ IF temp = NoInode \/ root = "ro" THEN UNCHANGED faults ELSE Fault
  /\ Goto(p, "unlink")
  /\ UNCHANGED <<layout, root, keymap, temp, data>>

\* Whatever has the name now.
UnlinkTemp(p) ==
  /\ At(p, "unlink")
  /\ temp' = IF root = "rw" THEN NoInode ELSE temp
  /\ Goto(p, AfterFailure(p))
  /\ UNCHANGED <<layout, root, keymap, faults>>
  /\ Reclaim

-----------------------------------------------------------------------------
(* ir0_keymap_apply_file                                                   *)

\* One line of the file, unless there is none; it sets what the line says, later.
ReadFile(p) ==
  /\ At(p, "read")
  /\ LET l == IF keymap = NoInode THEN Unknown ELSE ir0_keymap_parse(data[keymap])
     IN  run' = IF l = Unknown THEN [run EXCEPT ![p].pc = "end"]
                ELSE [run EXCEPT ![p].pc = "set", ![p].want = l]
  /\ UNCHANGED <<layout, root, keymap, temp, data, faults>>

ReadFails(p) ==
  /\ At(p, "read")
  /\ Fault
  /\ Goto(p, "end")
  /\ UNCHANGED <<layout, root, keymap, temp, data>>

-----------------------------------------------------------------------------
\* main of keymap with an argument it knows; with another it changes nothing.
StartTool(p) ==
  /\ p \in Tools /\ At(p, "idle")
  /\ \E a \in Answers :
       LET l == ir0_keymap_parse(a)
       IN  l # Unknown /\ Begin(p, "tool", "set", l)
  /\ UNCHANGED <<layout, root, keymap, temp, data, faults>>

ExitTool(p) ==
  /\ run[p].pc \in {"ok", "fail"}
  /\ run' = [run EXCEPT ![p] = Idle]
  /\ UNCHANGED <<layout, root, keymap, temp, data, faults>>

\* A process at work goes on by itself.
KeymapStep(p) ==
  \/ ir0_keymap_set(p) \/ OpenTemp(p) \/ WriteName(p) \/ WriteNewline(p) \/ Close(p)
  \/ Rename(p) \/ UnlinkTemp(p) \/ ReadFile(p) \/ ExitTool(p)
  \/ SetFails(p) \/ OpenFails(p) \/ RenameFails(p) \/ ReadFails(p)

Chars == {"l", "a", "t", "m", "u", "s", NL, NUL}

Job == [job : {"none", "tool", "wizard", "apply"},
        pc : {"idle", "read", "set", "open", "name", "newline", "close", "rename", "unlink",
              "ok", "fail", "end"},
        want : Layouts, fd : Inodes \cup {NoInode}, put : Int, nicked : BOOLEAN, met : BOOLEAN]

\* A process has the copy open exactly while it writes it.
KeymapTypeOK ==
  /\ layout \in Layouts
  /\ root \in {"rw", "ro"}
  /\ {keymap, temp} \subseteq Inodes \cup {NoInode}
  /\ keymap = temp => keymap = NoInode
  /\ data \in [Inodes -> Seq(Chars)]
  /\ run \in [Procs -> Job]
  /\ \A p \in Procs : run[p].fd # NoInode <=> run[p].pc \in {"name", "newline", "close"}
  /\ \A p \in Procs : run[p].job = "none" <=> run[p].pc = "idle"
  /\ faults \in 0..MaxFaults

=============================================================================
