---------------------------- MODULE PasswdDialog ----------------------------
(***************************************************************************)
(* One run of passwd (services/ir0_passwd.c): the prompts, ir0_read_line   *)
(* behind each of them, and the checks up to ir0_shadow_set_hash, which is *)
(* taken here as AtomicShadow promises it: one instant, or an error.       *)
(* Caller and target have an account and an entry in the shadow file; other*)
(* runs of passwd may replace a hash while this one waits at a prompt.     *)
(*                                                                         *)
(* ir0_read_line makes one read(2).  A terminal in canonical mode answers  *)
(* with one line; a pipe answers with whatever has been written so far, up *)
(* to the size of the buffer, and the text of a prompt is then several     *)
(* lines.  A text is a sequence of non-empty lines, <<>> at end of file.   *)
(***************************************************************************)
EXTENDS Naturals, Sequences, FiniteSets

CONSTANTS Users,    \* accounts: root and others
          root,
          Words,    \* lines a person or a script can enter
          InitDb,   \* the text that every account's hash verifies
          Inputs,   \* "tty", "pipe"
          Scripts,  \* what is entered, a sequence of lines
          MaxOther  \* bound: changes made by other runs meanwhile

ASSUME RootAssumption == root \in Users
ASSUME InitDbAssumption == InitDb \in [Users -> Seq(Words)]
ASSUME ScriptsAssumption == Scripts \subseteq Seq(Words)
ASSUME MaxOtherAssumption == MaxOther \in Nat

VARIABLES
  input,    \* where stdin comes from
  caller, target,
  given,    \* the lines to enter
  script,   \* those not entered yet
  queue,    \* lines entered and not read
  pc,
  stored,   \* the hash read before the first prompt, as the text it verifies
  new,      \* the text of the first "New password" prompt
  confirm,
  db,       \* the text each account's hash verifies
  result,   \* "changed", or the reason of the denial
  others    \* changes made by other runs so far

asked == <<input, caller, target, given>>
vars == <<asked, script, queue, pc, stored, new, confirm, db, result, others>>

Init ==
  /\ input \in Inputs
  /\ caller \in Users /\ target \in Users
  /\ given \in Scripts
  /\ script = given
  /\ queue = <<>>
  /\ pc = "start"
  /\ stored = <<>> /\ new = <<>> /\ confirm = <<>>
  /\ db = InitDb
  /\ result = "none"
  /\ others = 0

\* The other end enters some lines; one write of a script enters all of them.
Enter ==
  /\ \E n \in 1..Len(script) :
       /\ queue' = queue \o SubSeq(script, 1, n)
       /\ script' = SubSeq(script, n + 1, Len(script))
  /\ UNCHANGED <<asked, pc, stored, new, confirm, db, result, others>>

\* The end of the script closes a pipe, and is ^D on a terminal.
AtEnd == script = <<>> /\ queue = <<>>

\* Bug: the terminal is not put into canonical mode with the echo off, and answers
\* with everything typed so far.
ReadLineRaw(text, rest) ==
  \/ AtEnd /\ text = <<>> /\ rest = <<>>
  \/ queue # <<>> /\ text = queue /\ rest = <<>>

\* ir0_read_line: what read(2) returns, and what it leaves.
ReadLine(text, rest) ==
  \/ /\ AtEnd
     /\ text = <<>> /\ rest = <<>>
  \/ /\ queue # <<>>
     /\ LET n == IF input = "tty" THEN 1 ELSE Len(queue)
        IN  text = SubSeq(queue, 1, n) /\ rest = SubSeq(queue, n + 1, Len(queue))

\* What a read can return and leave.
Texts == {SubSeq(queue, 1, n) : n \in 0..Len(queue)}
Rests == {SubSeq(queue, n + 1, Len(queue)) : n \in 0..Len(queue)}

\* The message and exit status 1.
deny(why) == pc' = "exit" /\ result' = why

\* Everything before the first prompt: nobody but root changes somebody else.
Start ==
  /\ pc = "start"
  /\ IF caller # root /\ target # caller THEN deny("not-permitted")
     ELSE /\ pc' = IF caller = root THEN "new" ELSE "current"
          /\ result' = result
  /\ stored' = IF pc' = "current" THEN db[target] ELSE stored
  /\ UNCHANGED <<asked, script, queue, new, confirm, db, others>>

\* ir0_shadow_hash finds no entry of the target, or no file.
NoShadowEntry ==
  /\ pc = "start" /\ caller # root /\ target = caller
  /\ deny("no-shadow-entry")
  /\ UNCHANGED <<asked, script, queue, stored, new, confirm, db, others>>

\* "Current password", not asked of root.
PromptCurrent ==
  /\ pc = "current"
  /\ \E text \in Texts, rest \in Rests :
       /\ ReadLine(text, rest)
       /\ queue' = rest
       /\ IF text = stored THEN pc' = "new" /\ result' = result
          ELSE deny("authentication-failure")
  /\ UNCHANGED <<asked, script, stored, new, confirm, db, others>>

\* "New password"
PromptNew ==
  /\ pc = "new"
  /\ \E text \in Texts, rest \in Rests :
       ReadLine(text, rest) /\ queue' = rest /\ new' = text
  /\ pc' = "confirm"
  /\ UNCHANGED <<asked, script, stored, confirm, db, result, others>>

\* "Retype new password"
PromptConfirm ==
  /\ pc = "confirm"
  /\ \E text \in Texts, rest \in Rests :
       ReadLine(text, rest) /\ queue' = rest /\ confirm' = text
  /\ pc' = "check"
  /\ UNCHANGED <<asked, script, stored, new, db, result, others>>

\* read(2) fails at a prompt.
ReadFails ==
  /\ pc \in {"current", "new", "confirm"}
  /\ deny("read-error")
  /\ UNCHANGED <<asked, script, queue, stored, new, confirm, db, others>>

\* Bug: the two answers are not compared.
CheckNewAlone ==
  /\ pc = "check"
  /\ IF new = <<>> THEN deny("empty-password")
     ELSE pc' = "set" /\ result' = result
  /\ UNCHANGED <<asked, script, queue, stored, new, confirm, db, others>>

\* Equal and not empty.
CheckNew ==
  /\ pc = "check"
  /\ IF new # confirm THEN deny("passwords-mismatch")
     ELSE IF new = <<>> THEN deny("empty-password")
     ELSE pc' = "set" /\ result' = result
  /\ UNCHANGED <<asked, script, queue, stored, new, confirm, db, others>>

\* ir0_shadow_set_hash returns 0.
SetHash ==
  /\ pc = "set"
  /\ db' = [db EXCEPT ![target] = new]
  /\ pc' = "exit"
  /\ result' = "changed"
  /\ UNCHANGED <<asked, script, queue, stored, new, confirm, others>>

\* ir0_shadow_set_hash, or the hashing before it, fails.
SetHashFails ==
  /\ pc = "set"
  /\ deny("shadow-write-error")
  /\ UNCHANGED <<asked, script, queue, stored, new, confirm, db, others>>

\* Another run of passwd replaces somebody's hash.
OtherChange ==
  /\ others < MaxOther /\ others' = others + 1
  /\ \E u \in Users, w \in Words : db' = [db EXCEPT ![u] = <<w>>]
  /\ UNCHANGED <<asked, script, queue, pc, stored, new, confirm, result>>

Next == \/ Enter \/ Start \/ NoShadowEntry \/ PromptCurrent \/ PromptNew \/ PromptConfirm
        \/ ReadFails \/ CheckNew \/ SetHash \/ SetHashFails \/ OtherChange

Spec == Init /\ [][Next]_vars

-----------------------------------------------------------------------------
\* The script of batch mode: old, new, confirm, or new, confirm for root.
Documented(w) == IF caller = root THEN <<w, w>> ELSE stored \o <<w, w>>

Failures == {"read-error", "no-shadow-entry", "shadow-write-error"}

\* "Batch mode: with a non-tty stdin the tool reads old\nnew\nconfirm\n (only
\* new\nconfirm\n for root)": a run that is given such a script for a change it
\* permits makes the change, unless a read or the update of the file fails.
BatchModeWorks ==
  pc = "exit" /\ caller \in {root, target} /\ (\E w \in Words : given = Documented(w))
    => result \in {"changed"} \cup Failures

\* The same of a terminal, where all of it may be typed ahead of the prompts in any
\* portions while other runs replace hashes: where the password the caller gave as
\* current is still the account's in the end, it is not refused. Whether one that was
\* replaced at a prompt is to be taken is left open.
TypedAheadWorks ==
  (caller # root => db[target] = stored) => BatchModeWorks

\* Who changes a hash has entered, in this order, the password of the account
\* as it was when passwd read it, unless root, and then the same new one twice;
\* lines entered after these do not matter, and lines in front of them would
\* have been the answers.
ChangeIsEntered ==
  result = "changed" =>
    /\ caller \in {root, target}
    /\ \E w \in Words :
         LET typed == Documented(w)
         IN  /\ new = <<w>>
             /\ Len(given) >= Len(typed) /\ SubSeq(given, 1, Len(typed)) = typed

=============================================================================
