----------------------------- MODULE MatrixCase -----------------------------
(***************************************************************************)
(* One case of the BusyBox matrix: run_case and classify_full of           *)
(* smoke/busybox_matrix_smoke.c over smoke/matrix_capture.c.  The parent    *)
(* spawns an applet, the worker, with its output on a pipe, reads the pipe  *)
(* without blocking, polls for the worker's end, kills it after a deadline, *)
(* and drains the pipe before it judges.  The worker, a process it leaves   *)
(* behind, the kernel that finishes an exit, and the clock go on meanwhile. *)
(*                                                                         *)
(* A byte stands for itself or for a text classify_full looks for.  read(2) *)
(* gives one byte at a time, as it may; pauses are steps of the clock.      *)
(***************************************************************************)
EXTENDS Naturals, Sequences

CONSTANTS
  Bytes,         \* what can be written
  NotFoundText,  \* "applet not found", one of them
  NotImplText,   \* "not implemented" or "ENOSYS", likewise
  Needles,       \* texts a case may look for; <<>> for a case that looks for none
  WantEcs,       \* exit statuses a case may ask for
  Exits,         \* exit statuses of workers
  StoreMax,      \* bytes kept of the output
  CaseTimeout, ExitGrace, DrainTimeout,  \* in ticks of the clock
  LastChances,   \* waits before the kill
  MaxOut         \* bound: bytes of a case's output that are told apart

ASSUME SizesAssumption == {StoreMax, CaseTimeout, ExitGrace, DrainTimeout, LastChances, MaxOut} \subseteq Nat
ASSUME ExitsAssumption == Exits \subseteq 0..255 /\ WantEcs \subseteq Nat
ASSUME NeedlesAssumption == Needles \subseteq Seq(Bytes)

VARIABLES
  needle, want,     \* the case
  worker,           \* "none", "running", "exiting", "zombie", "reaped"
  ended,            \* its status: an exit status, Signal(n), or NoStatus
  wr,               \* who has the write end of the pipe: "worker", "child"
  signalled,        \* SIGKILL was sent
  written,          \* everything written into the pipe
  bytes_seen,       \* how much of it was read
  matched, found,   \* the needle matcher
  saw_eof, capture_timeout,
  pc, phase,        \* where run_case is: in the "live", "killed" or "drain" loop
  left,             \* ticks to the deadline of the loop
  grace,            \* ticks to eof_at + EOF_EXIT_GRACE_MS, or Unset
  chances,          \* last waits made
  timed_out, reaped,
  status,           \* of waitpid, NoStatus while not status_valid
  verdict,          \* the reason of classify_full, "-" for a supported applet
  sinceEof          \* history: ticks since the end of the pipe was read

case    == <<needle, want>>
process == <<worker, ended, wr, signalled, written>>
capture == <<bytes_seen, matched, found, saw_eof, capture_timeout>>
parent  == <<pc, phase, left, grace, chances, timed_out, reaped, status, verdict>>
vars == <<case, process, capture, parent, sinceEof>>

Unset == ExitGrace + 1

\* Statuses of waitpid besides exit statuses.
Signal(n) == 256 + n
NoStatus  == 512
segv      == Signal(11)
killed    == Signal(9)

Init ==
  /\ needle \in Needles /\ want \in WantEcs
  /\ worker = "none" /\ ended = NoStatus /\ wr = {} /\ signalled = FALSE
  /\ written = <<>>
  /\ bytes_seen = 0 /\ matched = 0 /\ found = FALSE
  /\ saw_eof = FALSE /\ capture_timeout = FALSE
  /\ pc = "start" /\ phase = "live" /\ left = CaseTimeout /\ grace = Unset
  /\ chances = 0 /\ timed_out = FALSE /\ reaped = FALSE
  /\ status = NoStatus /\ verdict = "none"
  /\ sinceEof = 0

-----------------------------------------------------------------------------
(* The worker, what it leaves behind, and the kernel.                       *)

Write(b) ==
  /\ wr # {} /\ Len(written) < MaxOut
  /\ written' = Append(written, b)
  /\ UNCHANGED <<case, worker, ended, wr, signalled, capture, parent, sinceEof>>

\* BusyBox may close its output well before it exits.
CloseOutput ==
  /\ worker = "running" /\ "worker" \in wr
  /\ wr' = wr \ {"worker"}
  /\ UNCHANGED <<case, worker, ended, signalled, written, capture, parent, sinceEof>>

\* The worker leaves a process behind that has its output.
LeaveChild ==
  /\ worker = "running" /\ wr = {"worker"}
  /\ wr' = {"worker", "child"}
  /\ UNCHANGED <<case, worker, ended, signalled, written, capture, parent, sinceEof>>

ChildEnds ==
  /\ "child" \in wr
  /\ wr' = wr \ {"child"}
  /\ UNCHANGED <<case, worker, ended, signalled, written, capture, parent, sinceEof>>

\* The worker's end closes its files; it is not waitable at once.
End(how) ==
  /\ worker = "running"
  /\ worker' = "exiting" /\ ended' = how
  /\ wr' = wr \ {"worker"}
  /\ UNCHANGED <<case, signalled, written, capture, parent, sinceEof>>

Exit   == \E e \in Exits \cup {segv} : End(e)
Killed == signalled /\ End(killed)

BecomesWaitable ==
  /\ worker = "exiting" /\ worker' = "zombie"
  /\ UNCHANGED <<case, ended, wr, signalled, written, capture, parent, sinceEof>>

Less(n) == IF n > 0 THEN n - 1 ELSE 0

\* Time passes; more than a deadline makes no difference.
Tick ==
  /\ left' = Less(left)
  /\ grace' = IF grace = Unset THEN Unset ELSE Less(grace)
  /\ sinceEof' = IF saw_eof /\ sinceEof < ExitGrace THEN sinceEof + 1 ELSE sinceEof
  /\ <<left, grace, sinceEof>>' # <<left, grace, sinceEof>>
  /\ UNCHANGED <<case, process, capture, pc, phase, chances, timed_out, reaped, status, verdict>>

-----------------------------------------------------------------------------
(* matrix_capture.c                                                         *)

\* Bug: the byte that did not fit cannot begin the needle either.
RestartAtZero(ch) == 0

\* matrix_needle_feed: matched after one more byte.
Restart(ch) == IF matched > 0 /\ ch = needle[1] THEN 1 ELSE 0
Fed(ch) == IF ch = needle[matched + 1] THEN matched + 1 ELSE Restart(ch)

\* matrix_capture_feed; nothing is fed to a matcher that has found its needle.
feed(ch) ==
  /\ IF found \/ needle = <<>> THEN UNCHANGED <<matched, found>>
     ELSE matched' = Fed(ch) /\ found' = (Fed(ch) = Len(needle))
  /\ bytes_seen' = bytes_seen + 1

\* The bytes kept; the rest is only fed to the matcher.
store == SubSeq(written, 1, IF bytes_seen < StoreMax THEN bytes_seen ELSE StoreMax)

\* One turn of the loop of matrix_capture_read_nb that goes on.
ReadByte ==
  /\ pc = "read" /\ bytes_seen < Len(written)
  /\ feed(written[bytes_seen + 1])
  /\ UNCHANGED <<case, process, saw_eof, capture_timeout, parent, sinceEof>>

\* Where run_case goes on after matrix_capture_read_nb.
AfterRead == IF phase = "live" THEN "wait" ELSE "check"

\* read(2) gives 0: everybody has closed the write end.
ReadEof ==
  /\ pc = "read" /\ bytes_seen = Len(written) /\ wr = {}
  /\ saw_eof' = TRUE
  /\ pc' = AfterRead
  /\ UNCHANGED <<case, process, bytes_seen, matched, found, capture_timeout, phase, left,
                 grace, chances, timed_out, reaped, status, verdict, sinceEof>>

\* Bug: EAGAIN in the drain loop ends the capture.
ReadAgainEnds ==
  /\ pc = "read" /\ bytes_seen = Len(written) /\ wr # {}
  /\ saw_eof' = (saw_eof \/ phase = "drain")
  /\ pc' = AfterRead
  /\ UNCHANGED <<case, process, bytes_seen, matched, found, capture_timeout, phase, left,
                 grace, chances, timed_out, reaped, status, verdict, sinceEof>>

\* EAGAIN: nothing there yet, which is never the end.
ReadAgain ==
  /\ pc = "read" /\ bytes_seen = Len(written) /\ wr # {}
  /\ pc' = AfterRead
  /\ UNCHANGED <<case, process, capture, phase, left, grace, chances, timed_out, reaped,
                 status, verdict, sinceEof>>

\* Any other error; only the drain loop looks at it.
ReadFails ==
  /\ pc = "read"
  /\ IF phase = "drain" THEN capture_timeout' = TRUE /\ pc' = "last"
     ELSE capture_timeout' = capture_timeout /\ pc' = AfterRead
  /\ UNCHANGED <<case, process, bytes_seen, matched, found, saw_eof, phase, left, grace,
                 chances, timed_out, reaped, status, verdict, sinceEof>>

-----------------------------------------------------------------------------
(* run_case                                                                 *)

Enter(loop, limit) == phase' = loop /\ left' = limit /\ pc' = "check"
Drain == Enter("drain", DrainTimeout)

Spawn ==
  /\ pc = "start"
  /\ worker' = "running" /\ wr' = {"worker"}
  /\ Enter("live", CaseTimeout)
  /\ UNCHANGED <<case, ended, signalled, written, capture, grace, chances, timed_out, reaped,
                 status, verdict, sinceEof>>

\* run_case returns -1, which main reports as "harness".
harness ==
  /\ pc' = "done" /\ verdict' = "harness"
  /\ UNCHANGED <<case, process, capture, phase, left, grace, chances, timed_out, reaped,
                 status, sinceEof>>

SpawnFails == pc = "start" /\ harness

\* Bug: eof_at does not put the limit off.
CheckLiveDeadlineOnly ==
  /\ pc = "check" /\ phase = "live"
  /\ pc' = IF left = 0 THEN "chance" ELSE "poll"
  /\ UNCHANGED <<case, process, capture, phase, left, grace, chances, timed_out, reaped,
                 status, verdict, sinceEof>>

\* The top of the live loop.
CheckLive ==
  /\ pc = "check" /\ phase = "live"
  /\ grace' = IF saw_eof /\ grace = Unset THEN ExitGrace ELSE grace
  /\ pc' = IF left = 0 /\ grace' \in {Unset, 0} THEN "chance" ELSE "poll"
  /\ UNCHANGED <<case, process, capture, phase, left, chances, timed_out, reaped, status,
                 verdict, sinceEof>>

\* waitpid gives the worker's status; the loop is left for the drain.
Reap ==
  /\ worker = "zombie" /\ worker' = "reaped"
  /\ reaped' = TRUE /\ status' = ended
  /\ UNCHANGED <<case, ended, wr, signalled, written, capture, grace, chances, timed_out,
                 verdict, sinceEof>>

\* waitpid gives ECHILD: taken for reaped, without a status.
ReapNothing ==
  /\ reaped' = TRUE
  /\ UNCHANGED <<case, process, capture, grace, chances, timed_out, status, verdict, sinceEof>>

WaitReaps  == pc \in {"wait", "chance"} /\ Reap /\ Drain
WaitEchild == pc = "wait" /\ ReapNothing /\ Drain

\* waitpid gives 0.
WaitMisses ==
  /\ pc = "wait" /\ worker # "zombie"
  /\ pc' = IF phase = "live" THEN "check" ELSE "read"
  /\ UNCHANGED <<case, process, capture, phase, left, grace, chances, timed_out, reaped,
                 status, verdict, sinceEof>>

WaitFails == pc = "wait" /\ phase = "live" /\ harness

\* Bug: no end to the last waits.
ChanceMissesUncounted ==
  /\ pc = "chance" /\ worker # "zombie"
  /\ chances' = chances + 1
  /\ UNCHANGED <<case, process, capture, pc, phase, left, grace, timed_out, reaped, status,
                 verdict, sinceEof>>

\* One of the last waits before the kill finds nothing.
ChanceMisses ==
  /\ pc = "chance" /\ chances < LastChances /\ worker # "zombie"
  /\ chances' = chances + 1
  /\ UNCHANGED <<case, process, capture, pc, phase, left, grace, timed_out, reaped, status,
                 verdict, sinceEof>>

Kill ==
  /\ pc = "chance" /\ chances = LastChances
  /\ signalled' = TRUE /\ timed_out' = TRUE
  /\ Enter("killed", DrainTimeout)
  /\ UNCHANGED <<case, worker, ended, wr, written, capture, grace, chances, reaped, status,
                 verdict, sinceEof>>

\* The top of the loop after the kill.
CheckKilled ==
  /\ pc = "check" /\ phase = "killed"
  /\ IF left = 0 THEN Drain ELSE pc' = "wait" /\ UNCHANGED <<phase, left>>
  /\ UNCHANGED <<case, process, capture, grace, chances, timed_out, reaped, status, verdict,
                 sinceEof>>

\* Bug: the drain has no deadline.
CheckDrainForever ==
  /\ pc = "check" /\ phase = "drain"
  /\ pc' = IF saw_eof THEN "last" ELSE "poll"
  /\ UNCHANGED <<case, process, capture, phase, left, grace, chances, timed_out, reaped,
                 status, verdict, sinceEof>>

\* The top of matrix_capture_drain_to_eof.
CheckDrain ==
  /\ pc = "check" /\ phase = "drain"
  /\ capture_timeout' = (capture_timeout \/ (~saw_eof /\ left = 0))
  /\ pc' = IF saw_eof \/ left = 0 THEN "last" ELSE "poll"
  /\ UNCHANGED <<case, process, bytes_seen, matched, found, saw_eof, phase, left, grace,
                 chances, timed_out, reaped, status, verdict, sinceEof>>

\* poll(2) answers at once; its answer is not looked at.
Poll ==
  /\ pc = "poll" /\ pc' = "read"
  /\ UNCHANGED <<case, process, capture, phase, left, grace, chances, timed_out, reaped,
                 status, verdict, sinceEof>>

\* poll(2) gives EAGAIN for want of a waiter: the drain tries again, the live loop
\* reads all the same.
PollAgain ==
  /\ pc = "poll" /\ phase = "drain" /\ pc' = "check"
  /\ UNCHANGED <<case, process, capture, phase, left, grace, chances, timed_out, reaped,
                 status, verdict, sinceEof>>

PollFailsLive == pc = "poll" /\ phase = "live" /\ harness

PollFailsDrain ==
  /\ pc = "poll" /\ phase = "drain"
  /\ capture_timeout' = TRUE /\ pc' = "last"
  /\ UNCHANGED <<case, process, bytes_seen, matched, found, saw_eof, phase, left, grace,
                 chances, timed_out, reaped, status, verdict, sinceEof>>

\* The wait without WNOHANG for a worker that no loop has seen: it has no limit.
LastWait ==
  /\ pc = "last" /\ ~reaped /\ Reap
  /\ UNCHANGED <<pc, phase, left>>

LastWaitEchild ==
  /\ pc = "last" /\ ~reaped /\ ReapNothing
  /\ UNCHANGED <<pc, phase, left>>

LastWaitFails == pc = "last" /\ ~reaped /\ harness

-----------------------------------------------------------------------------
(* The judgement.                                                           *)

\* Bug: the deadline counts, whatever waitpid says.
exit_codeByDeadline ==
  IF timed_out /\ saw_eof /\ want = 0 /\ (needle = <<>> \/ found) THEN 0
  ELSE IF timed_out THEN 124
  ELSE IF status = NoStatus THEN 125
  ELSE IF status > 256 THEN 128 + (status - 256)
  ELSE status

\* res->exit_code: 124 for a timeout, 125 for no status, or the signal.
exit_code ==
  IF timed_out /\ status < 256 THEN status
  ELSE IF timed_out /\ saw_eof /\ want = 0 /\ (needle = <<>> \/ found) THEN 0
  ELSE IF timed_out THEN 124
  ELSE IF status = NoStatus THEN 125
  ELSE IF status > 256 THEN 128 + (status - 256)
  ELSE status

store_contains(text) == \E i \in 1..Len(store) : store[i] = text

\* classify_full: the reason, "-" when the applet is supported.
reason ==
  IF capture_timeout THEN "capture-timeout"
  ELSE IF ~saw_eof THEN "no-eof"
  ELSE IF ~reaped THEN "no-reap"
  ELSE IF exit_code = 127 \/ store_contains(NotFoundText) THEN "missing"
  ELSE IF exit_code = 124 THEN "timeout"
  ELSE IF exit_code = 125 THEN "nofork"
  ELSE IF exit_code = 128 + 11 THEN "segv"
  ELSE IF store_contains(NotImplText) THEN "enosys"
  ELSE IF exit_code # want THEN "exit"
  ELSE IF needle # <<>> /\ ~found THEN "output"
  ELSE "-"

Report ==
  /\ pc = "last" /\ reaped
  /\ pc' = "done" /\ verdict' = reason
  /\ UNCHANGED <<case, process, capture, phase, left, grace, chances, timed_out, reaped,
                 status, sinceEof>>

-----------------------------------------------------------------------------
run_case == \/ Spawn \/ SpawnFails \/ CheckLive \/ CheckKilled \/ CheckDrain
            \/ Poll \/ PollAgain \/ PollFailsLive \/ PollFailsDrain
            \/ ReadByte \/ ReadEof \/ ReadAgain \/ ReadFails
            \/ WaitReaps \/ WaitEchild \/ WaitMisses \/ WaitFails
            \/ ChanceMisses \/ Kill \/ LastWait \/ LastWaitEchild \/ LastWaitFails
            \/ Report

Worker == \/ CloseOutput \/ LeaveChild \/ ChildEnds \/ Exit
          \/ \E b \in Bytes : Write(b)

Next == run_case \/ Worker \/ Killed \/ BecomesWaitable \/ Tick

Spec == Init /\ [][Next]_vars

\* The parent's steps that need no call to fail and no empty pipe.
Advance == \/ Spawn \/ CheckLive \/ CheckKilled \/ CheckDrain \/ Poll
           \/ ReadByte \/ ReadEof \/ WaitReaps \/ WaitMisses
           \/ ChanceMisses \/ Kill \/ LastWait \/ Report

\* The parent runs and time passes.  Nothing is asked of the worker or the kernel: a
\* killed worker may never become waitable, and a writer may refill the pipe each
\* time before it is found empty, with more than the MaxOut bytes told apart here,
\* so that ReadAgain never comes.
FairSpec == Spec /\ WF_vars(Advance) /\ WF_vars(Tick)

\* The writers pause now and then and the kernel carries out a SIGKILL; it still need
\* not finish the exit.
KillSpec == Spec /\ WF_vars(Advance \/ ReadAgain) /\ WF_vars(Tick) /\ WF_vars(Killed)

-----------------------------------------------------------------------------
(* Properties.                                                              *)

TypeOK ==
  /\ needle \in Needles /\ want \in WantEcs
  /\ worker \in {"none", "running", "exiting", "zombie", "reaped"}
  /\ ended \in Exits \cup {NoStatus, segv, killed}
  /\ wr \subseteq {"worker", "child"} /\ signalled \in BOOLEAN
  /\ written \in Seq(Bytes) /\ bytes_seen \in 0..Len(written)
  /\ matched \in 0..Len(needle) /\ found \in BOOLEAN
  /\ saw_eof \in BOOLEAN /\ capture_timeout \in BOOLEAN
  /\ pc \in {"start", "check", "poll", "read", "wait", "chance", "last", "done"}
  /\ phase \in {"live", "killed", "drain"}
  /\ left \in Nat /\ grace \in 0..Unset
  /\ chances \in 0..LastChances
  /\ timed_out \in BOOLEAN /\ reaped \in BOOLEAN
  /\ status \in Exits \cup {NoStatus, segv, killed}
  /\ sinceEof \in 0..ExitGrace

OccursIn(text, s) ==
  \E i \in 0..(Len(s) - Len(text)) : SubSeq(s, i + 1, i + Len(text)) = text

\* Its first byte does not occur again, so no partial match hides the beginning of
\* another: what "good enough for short BusyBox needles" takes for granted.
Plain(text) == \A i \in 2..Len(text) : text[i] # text[1]

\* However the output is cut into reads, the matcher has found the needle when and
\* only when it occurs in what was read; of a needle that is not plain it never
\* finds one that is not there.
FoundIsThere ==
  needle # <<>> =>
    LET there == OccursIn(needle, SubSeq(written, 1, bytes_seen))
    IN  (found => there) /\ (Plain(needle) /\ there => found)

Judged == pc = "done" /\ verdict # "harness"

\* "EAGAIN after exit: writer may still be flushing into the pipe. Never treat EAGAIN
\* as end-of-capture": the output is found missing, or an applet supported, only when
\* everything that was and ever will be written has been read; the needle of a
\* supported applet is in it, and a plain needle that is found missing is not.
OutputVerdictIsFinal ==
  Judged /\ verdict \in {"output", "-"} =>
    /\ bytes_seen = Len(written) /\ wr = {}
    /\ verdict = "-" /\ needle # <<>> => OccursIn(needle, written)
    /\ verdict = "output" /\ Plain(needle) => ~OccursIn(needle, written)

\* "If wait status is a normal exit, do not report timeout": a worker that had exited
\* when the kill came is judged by its status, if waitpid gave one, and a status of 124
\* is what timeout(1) has to say.  A supported applet exited as the case asks for,
\* unless it was killed after all its output had come: that is forgiven a case that
\* asks for 0.
StatusVerdictIsEarned ==
  Judged =>
    /\ verdict = "timeout" => status = 124 \/ (signalled /\ status \notin Exits)
    /\ verdict = "-" => ended = want \/ (signalled /\ want = 0)

\* "After pipe EOF, allow at least EOF_EXIT_GRACE_MS for the worker to finish
\* exiting", however late the end comes.
GraceIsKept == [][~signalled /\ signalled' /\ saw_eof => sinceEof = ExitGrace]_vars

\* Two things can hold up the matrix and nothing else: a writer that never lets the
\* pipe run empty, since the loop of matrix_capture_read_nb looks at no deadline, and,
\* after the kill, a worker that the kernel never makes waitable.  A worker that does
\* not end, that keeps its output open or leaves it to another process cannot.
CaseReturns ==
  \/ <>(pc = "done")
  \/ <>[](pc = "read" /\ wr # {})
  \/ <>[](pc = "last" /\ signalled /\ worker \in {"running", "exiting"})

\* "Cap the wait so a stuck zombie cannot hang us": once the worker is killed the case
\* ends, though the kernel may never finish the worker's exit.
StuckZombieCannotHang == signalled ~> pc = "done"

=============================================================================
