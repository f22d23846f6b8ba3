-------------------------- MODULE MatrixCaseProofs --------------------------
(***************************************************************************)
(* Theorems about MatrixCase, for any needle, any output however it is cut *)
(* into reads, and any limits.                                             *)
(***************************************************************************)
EXTENDS MatrixCase, SequenceTheorems, TLAPS

\* The first k bytes of the needle are the last k of the first n written.
Ends(k, n) == k <= n /\ \A i \in 1..k : written[n - k + i] = needle[i]

\* What the matcher knows: it holds a prefix of the needle that ends where the
\* reading is, of a plain needle the longest one; it has found what was there, and
\* of a plain needle everything that was.
MatcherOK ==
  /\ needle = <<>> => matched = 0 /\ ~found
  /\ needle # <<>> => (found <=> matched = Len(needle))
  /\ ~found => Ends(matched, bytes_seen)
  /\ found => \E n \in 0..bytes_seen : Ends(Len(needle), n)
  /\ needle # <<>> /\ Plain(needle) /\ ~found =>
       /\ \A k \in 1..Len(needle) : Ends(k, bytes_seen) => k <= matched
       /\ \A n \in 0..bytes_seen : ~Ends(Len(needle), n)

\* The end of the pipe is the end of the output.
EofOK ==
  /\ saw_eof => bytes_seen = Len(written) /\ wr = {}
  /\ pc = "start" => ~saw_eof

\* The status is the one the worker ended with, and only a kill kills.
StatusOK ==
  /\ status # NoStatus => worker = "reaped" /\ status = ended
  /\ pc = "start" => status = NoStatus
  /\ ended = killed => signalled
  /\ signalled <=> timed_out

\* The grace runs with the time since the end of the pipe was read.
GraceOK ==
  /\ grace # Unset => saw_eof /\ grace + sinceEof >= ExitGrace
  /\ pc = "chance" /\ saw_eof => grace = 0

\* What the verdict was given for.
VerdictOK ==
  /\ verdict \in {"output", "-"} => pc = "done" /\ saw_eof
  /\ verdict = "output" => needle # <<>> /\ ~found
  /\ verdict = "-" /\ needle # <<>> => found
  /\ verdict = "timeout" => /\ pc = "done"
                            /\ status = 124 \/ (signalled /\ status \notin Exits)
  /\ verdict = "-" => (status # NoStatus /\ status = want) \/ (signalled /\ want = 0)

\* The strengthening.
IndInv == TypeOK /\ MatcherOK /\ EofOK /\ StatusOK /\ GraceOK /\ VerdictOK

-----------------------------------------------------------------------------
(* The matcher                                                             *)

\* Where a text occurs in the beginning of a sequence, it ends there.
LEMMA OccursWhereItEnds ==
  ASSUME TypeOK, needle # <<>>
  PROVE  OccursIn(needle, SubSeq(written, 1, bytes_seen))
           <=> \E n \in 0..bytes_seen : Ends(Len(needle), n)
<1> DEFINE s == SubSeq(written, 1, bytes_seen)
           L == Len(needle)
<1>1. /\ needle \in Seq(Bytes) /\ L \in Nat /\ L > 0
      /\ written \in Seq(Bytes) /\ bytes_seen \in Nat /\ bytes_seen <= Len(written)
  BY NeedlesAssumption, EmptySeq DEF TypeOK
<1>2. /\ s \in Seq(Bytes) /\ Len(s) = bytes_seen
      /\ \A j \in 1..bytes_seen : s[j] = written[j]
  BY <1>1
<1>. HIDE DEF s
<1>3. ASSUME NEW i \in 0..(bytes_seen - L)
      PROVE  SubSeq(s, i + 1, i + L) = needle <=> Ends(L, i + L)
  <2> DEFINE t == SubSeq(s, i + 1, i + L)
  <2>1. i \in Nat /\ i + L \in Nat /\ i + L <= bytes_seen
    BY <1>1
  <2>2. t \in Seq(Bytes) /\ Len(t) = L /\ \A j \in 1..L : t[j] = s[i + j]
    BY <1>1, <1>2, <2>1
  <2>3. \A j \in 1..L : t[j] = written[i + j]
    BY <1>1, <1>2, <2>1, <2>2
  <2>. HIDE DEF t
  <2>4. t = needle <=> \A j \in 1..L : t[j] = needle[j]
    BY <1>1, <2>2, SeqEqual
  <2>5. \A j \in 1..L : (i + L) - L + j = i + j
    BY <1>1
  <2>6. t = needle <=> Ends(L, i + L)
    BY <1>1, <2>1, <2>3, <2>4, <2>5 DEF Ends
  <2>. QED
    BY <2>6 DEF t
<1>4. ASSUME OccursIn(needle, s)
      PROVE  \E n \in 0..bytes_seen : Ends(L, n)
  <2>1. PICK i \in 0..(bytes_seen - L) : SubSeq(s, i + 1, i + L) = needle
    BY <1>2, <1>4 DEF OccursIn
  <2>2. i + L \in 0..bytes_seen
    BY <1>1
  <2>. QED
    BY <1>3, <2>1, <2>2
<1>5. ASSUME NEW n \in 0..bytes_seen, Ends(L, n)
      PROVE  OccursIn(needle, s)
  <2>1. n - L \in 0..(bytes_seen - L) /\ (n - L) + L = n
    BY <1>1, <1>5 DEF Ends
  <2>2. SubSeq(s, (n - L) + 1, (n - L) + L) = needle
    BY <1>3, <1>5, <2>1
  <2>. QED
    BY <1>2, <2>1, <2>2 DEF OccursIn
<1>. QED
  BY <1>4, <1>5 DEF s

\* So the matcher's answer is about the output.
LEMMA MatcherIsRight ==
  ASSUME TypeOK, MatcherOK
  PROVE  FoundIsThere
BY OccursWhereItEnds DEF MatcherOK, FoundIsThere

\* Reading one more byte: the text grows at the end, and with it what ends there.
LEMMA EndsOneLater ==
  ASSUME TypeOK, bytes_seen < Len(written), NEW k \in 0..Len(needle)
  PROVE  Ends(k + 1, bytes_seen + 1)
           <=> Ends(k, bytes_seen) /\ written[bytes_seen + 1] = needle[k + 1]
<1>1. bytes_seen \in Nat /\ k \in Nat
  BY DEF TypeOK
<1>2. /\ (bytes_seen + 1) - (k + 1) + (k + 1) = bytes_seen + 1
      /\ \A i \in 1..k : (bytes_seen + 1) - (k + 1) + i = bytes_seen - k + i
  BY <1>1
<1>3. k + 1 \in 1..(k + 1) /\ 1..k \subseteq 1..(k + 1)
      /\ \A i \in 1..(k + 1) : i \in 1..k \/ i = k + 1
  BY <1>1
<1>4. (k + 1 <= bytes_seen + 1) <=> k <= bytes_seen
  BY <1>1
<1>. QED
  BY <1>2, <1>3, <1>4 DEF Ends

\* A plain needle's first byte is in no longer prefix: two of its prefixes that
\* both end where the reading is are the same, or the shorter one is empty.
LEMMA PlainPrefix ==
  ASSUME TypeOK, Plain(needle), NEW k \in 1..Len(needle), NEW m \in 1..Len(needle),
         Ends(k, bytes_seen), Ends(m, bytes_seen), k <= m
  PROVE  k = m
<1> SUFFICES ASSUME k < m PROVE FALSE
  OBVIOUS
<1>1. bytes_seen \in Nat /\ k \in Nat /\ m \in Nat /\ Len(needle) \in Nat
  BY NeedlesAssumption DEF TypeOK
<1> DEFINE j == m - k + 1
<1>2. j \in 2..Len(needle) /\ j \in 1..m /\ 1 \in 1..k
  BY <1>1
<1>3. bytes_seen - m + j = bytes_seen - k + 1
  BY <1>1
<1>4. written[bytes_seen - m + j] = needle[j] /\ written[bytes_seen - k + 1] = needle[1]
  BY <1>2 DEF Ends
<1>. QED
  BY <1>2, <1>3, <1>4 DEF Plain

\* Feeding a byte keeps what the matcher knows.
LEMMA ReadByteMatches ==
  ASSUME TypeOK, MatcherOK, ReadByte
  PROVE  MatcherOK'
<1> DEFINE n == bytes_seen
           b == written[n + 1]
           L == Len(needle)
<1>1. /\ n \in Nat /\ L \in Nat /\ matched \in 0..L /\ n < Len(written)
      /\ needle \in Seq(Bytes) /\ found \in BOOLEAN
  BY NeedlesAssumption DEF TypeOK, ReadByte
<1>2. UNCHANGED <<needle, written>> /\ bytes_seen' = n + 1
  BY DEF ReadByte, feed, case, process
<1>3. \A k, i : Ends(k, i)' = Ends(k, i)
  BY <1>2 DEF Ends
<1>4. CASE found \/ needle = <<>>
  <2>1. UNCHANGED <<matched, found>>
    BY <1>4 DEF ReadByte, feed
  <2>2. \A i \in 0..n : i \in 0..(n + 1)
    BY <1>1
  <2>3. matched = 0 => Ends(matched, n + 1)
    BY <1>1 DEF Ends
  <2>. QED
    BY <1>1, <1>2, <1>3, <1>4, <2>1, <2>2, <2>3 DEF MatcherOK
<1>5. CASE ~found /\ needle # <<>>
  <2>0. matched' = Fed(b) /\ found' = (Fed(b) = L)
    BY <1>5 DEF ReadByte, feed
  <2>1. matched' = Fed(b) /\ (found' <=> matched' = L) /\ matched < L /\ L > 0
    <3>1. found' <=> matched' = L
      BY <2>0, Zenon
    <3>. QED
      BY <1>1, <1>5, <2>0, <3>1, EmptySeq DEF MatcherOK
  <2>2. matched \in 0..L /\ matched + 1 \in 1..L /\ Ends(matched, n) /\ Ends(0, n)
    BY <1>1, <1>5, <2>1 DEF MatcherOK, Ends
  <2>3. Ends(0, n + 1)
    BY <1>1 DEF Ends
  <2>4. b = needle[1] => Ends(1, n + 1)
    BY <1>1, <2>1, <2>2, EndsOneLater
  <2>5. b = needle[matched + 1] => Ends(matched + 1, n + 1)
    BY <1>1, <2>2, EndsOneLater
  <2>6. Ends(matched', n + 1) /\ matched' \in 0..L
    BY <1>1, <2>1, <2>2, <2>3, <2>4, <2>5 DEF Fed, Restart
  <2>7. ASSUME Plain(needle), NEW k \in 1..L, Ends(k, n + 1)
        PROVE  k <= matched'
    <3> DEFINE j == k - 1
    <3>1. j \in 0..L /\ k = j + 1
      BY <1>1
    <3>2. Ends(j, n) /\ b = needle[j + 1]
      BY <1>1, <2>7, <3>1, EndsOneLater
    <3>3. CASE j = 0
      BY <1>1, <2>1, <2>2, <3>1, <3>2, <3>3 DEF Fed, Restart
    <3>4. CASE j > 0
      <4>1. j \in 1..L /\ j <= matched
        BY <1>1, <1>5, <2>7, <3>1, <3>2, <3>4 DEF MatcherOK
      <4>2. matched \in 1..L
        BY <1>1, <4>1
      <4>3. j = matched
        BY <2>2, <2>7, <3>2, <4>1, <4>2, PlainPrefix
      <4>. QED
        BY <1>1, <2>1, <3>1, <3>2, <4>3 DEF Fed
    <3>. QED
      BY <1>1, <3>1, <3>3, <3>4
  <2>8. ASSUME Plain(needle), ~found', NEW i \in 0..(n + 1)
        PROVE  ~Ends(L, i)
    <3>1. CASE i \in 0..n
      BY <1>5, <2>8, <3>1 DEF MatcherOK
    <3>2. CASE i = n + 1
      <4>1. matched' # L /\ matched' < L
        BY <1>1, <2>1, <2>6, <2>8
      <4>2. L \in 1..L /\ ~(L <= matched')
        BY <1>1, <2>1, <2>6, <4>1
      <4>. QED
        BY <2>7, <2>8, <3>2, <4>2
    <3>. QED
      BY <1>1, <3>1, <3>2
  <2>9. ASSUME found'
        PROVE  \E i \in 0..(n + 1) : Ends(L, i)
    <3>1. Ends(L, n + 1) /\ n + 1 \in 0..(n + 1)
      BY <1>1, <2>1, <2>6, <2>9
    <3>. QED
      BY <3>1
  <2>10. Plain(needle)' = Plain(needle)
    BY <1>2 DEF Plain
  <2>. QED
    BY <1>2, <1>3, <1>5, <2>1, <2>6, <2>7, <2>8, <2>9, <2>10 DEF MatcherOK
<1>. QED
  BY <1>1, <1>4, <1>5

\* What is written after what has been read does not matter to the matcher.
LEMMA WriteMatches ==
  ASSUME TypeOK, MatcherOK, NEW c \in Bytes, Write(c)
  PROVE  MatcherOK'
<1>1. /\ written \in Seq(Bytes) /\ bytes_seen \in 0..Len(written) /\ matched \in 0..Len(needle)
      /\ needle \in Seq(Bytes)
  BY NeedlesAssumption DEF TypeOK
<1>2. /\ written' = Append(written, c)
      /\ UNCHANGED <<needle, bytes_seen, matched, found>>
  BY DEF Write, case, capture
<1>3. \A i \in 1..Len(written) : written'[i] = written[i]
  BY <1>1, <1>2, AppendProperties
<1>4. ASSUME NEW k \in 0..Len(needle), NEW i \in 0..bytes_seen
      PROVE  Ends(k, i)' <=> Ends(k, i)
  <2>1. ASSUME k <= i, NEW j \in 1..k PROVE i - k + j \in 1..Len(written)
    BY <1>1, <2>1
  <2>. QED
    BY <1>2, <1>3, <2>1 DEF Ends
<1>5. Plain(needle)' = Plain(needle)
  BY <1>2 DEF Plain
<1>6. Len(needle) \in 0..Len(needle) /\ bytes_seen \in 0..bytes_seen
  BY <1>1
<1>7. \A k \in 1..Len(needle) : k \in 0..Len(needle)
  BY <1>1
<1>. QED
  BY <1>1, <1>2, <1>4, <1>5, <1>6, <1>7 DEF MatcherOK

-----------------------------------------------------------------------------
(* The steps                                                               *)

\* The variables keep to their values.
LEMMA TypeKept ==
  ASSUME IndInv, [Next]_vars
  PROVE  TypeOK'
<1> USE DEF IndInv, TypeOK, case, process, capture, parent
<1>0. /\ StoreMax \in Nat /\ CaseTimeout \in Nat /\ ExitGrace \in Nat /\ DrainTimeout \in Nat
      /\ LastChances \in Nat /\ Len(needle) \in Nat /\ Len(written) \in Nat
  BY SizesAssumption, NeedlesAssumption
<1>1. CASE Spawn
  BY <1>1, <1>0 DEF Spawn, Enter
<1>2. CASE SpawnFails
  BY <1>2, <1>0 DEF SpawnFails, harness
<1>3. CASE CheckLive
  BY <1>3, <1>0 DEF CheckLive, Unset
<1>4. CASE CheckKilled
  BY <1>4, <1>0 DEF CheckKilled, Drain, Enter
<1>5. CASE CheckDrain
  BY <1>5, <1>0 DEF CheckDrain
<1>6. CASE Poll
  BY <1>6, <1>0 DEF Poll
<1>7. CASE PollAgain
  BY <1>7, <1>0 DEF PollAgain
<1>8. CASE PollFailsLive
  BY <1>8, <1>0 DEF PollFailsLive, harness
<1>9. CASE PollFailsDrain
  BY <1>9, <1>0 DEF PollFailsDrain
<1>10. CASE ReadByte
  <2>1. ~found /\ needle # <<>> => matched < Len(needle) /\ Len(needle) > 0
    BY <1>0, NeedlesAssumption, EmptySeq DEF MatcherOK
  <2>2. matched' \in 0..Len(needle) /\ found' \in BOOLEAN
    <3>1. CASE found \/ needle = <<>>
      BY <1>10, <3>1 DEF ReadByte, feed
    <3>2. CASE ~(found \/ needle = <<>>)
      <4> DEFINE m == Fed(written[bytes_seen + 1])
      <4>1. matched' = m /\ found' = (m = Len(needle))
        BY <1>10, <3>2 DEF ReadByte, feed
      <4>2. m \in 0..Len(needle)
        BY <1>0, <2>1, <3>2 DEF Fed, Restart
      <4>. HIDE DEF m
      <4>3. found' \in BOOLEAN
        BY <4>1, Zenon
      <4>. QED
        BY <4>1, <4>2, <4>3
    <3>. QED
      BY <3>1, <3>2
  <2>. QED
    BY <1>10, <1>0, <2>2 DEF ReadByte, feed
<1>11. CASE ReadEof
  BY <1>11, <1>0 DEF ReadEof, AfterRead
<1>12. CASE ReadAgain
  BY <1>12, <1>0 DEF ReadAgain, AfterRead
<1>13. CASE ReadFails
  <2>1. capture_timeout' \in BOOLEAN /\ pc' \in {"last", "wait", "check"}
    BY <1>13 DEF ReadFails, AfterRead
  <2>. QED
    BY <1>13, <1>0, <2>1 DEF ReadFails
<1>14. CASE WaitReaps
  BY <1>14, <1>0 DEF WaitReaps, Reap, Drain, Enter
<1>15. CASE WaitEchild
  BY <1>15, <1>0 DEF WaitEchild, ReapNothing, Drain, Enter
<1>16. CASE WaitMisses
  BY <1>16, <1>0 DEF WaitMisses
<1>17. CASE WaitFails
  BY <1>17, <1>0 DEF WaitFails, harness
<1>18. CASE ChanceMisses
  BY <1>18, <1>0 DEF ChanceMisses
<1>19. CASE Kill
  BY <1>19, <1>0 DEF Kill, Enter
<1>20. CASE LastWait
  BY <1>20, <1>0 DEF LastWait, Reap
<1>32. CASE LastWaitEchild
  BY <1>32, <1>0 DEF LastWaitEchild, ReapNothing
<1>21. CASE LastWaitFails
  BY <1>21, <1>0 DEF LastWaitFails, harness
<1>22. CASE Report
  BY <1>22, <1>0 DEF Report
<1>23. ASSUME NEW c \in Bytes, Write(c) PROVE TypeOK'
  <2>1. written' \in Seq(Bytes) /\ Len(written') = Len(written) + 1
    BY <1>23, AppendProperties DEF Write
  <2>. QED
    BY <1>23, <1>0, <2>1 DEF Write
<1>24. CASE CloseOutput
  BY <1>24, <1>0 DEF CloseOutput
<1>25. CASE LeaveChild
  BY <1>25, <1>0 DEF LeaveChild
<1>26. CASE ChildEnds
  BY <1>26, <1>0 DEF ChildEnds
<1>27. CASE Exit
  BY <1>27, <1>0 DEF Exit, End, segv
<1>28. CASE Killed
  BY <1>28, <1>0 DEF Killed, End
<1>29. CASE BecomesWaitable
  BY <1>29, <1>0 DEF BecomesWaitable
<1>30. CASE Tick
  BY <1>30, <1>0 DEF Tick, Less, Unset
<1>31. CASE UNCHANGED vars
  BY <1>31 DEF vars
<1>. QED
  BY <1>1, <1>2, <1>3, <1>4, <1>5, <1>6, <1>7, <1>8, <1>9, <1>10, <1>11, <1>12,
     <1>13, <1>14, <1>15, <1>16, <1>17, <1>18, <1>19, <1>20, <1>21, <1>22,
     <1>23, <1>24, <1>25, <1>26, <1>27, <1>28, <1>29, <1>30, <1>31, <1>32
     DEF Next, run_case, Worker

\* Only reading and writing concern the matcher.
LEMMA MatcherKept ==
  ASSUME IndInv, [Next]_vars
  PROVE  MatcherOK'
<1> USE DEF case, process, capture, parent
<1>1. CASE ReadByte
  BY <1>1, ReadByteMatches DEF IndInv
<1>2. ASSUME NEW c \in Bytes, Write(c)
      PROVE  MatcherOK'
  BY <1>2, WriteMatches DEF IndInv
<1>3. ASSUME UNCHANGED <<needle, written, bytes_seen, matched, found>>
      PROVE  MatcherOK'
  BY <1>3 DEF IndInv, MatcherOK, Ends, Plain
<1>4. CASE \/ Spawn \/ SpawnFails \/ CheckLive \/ CheckKilled \/ CheckDrain
           \/ Poll \/ PollAgain \/ PollFailsLive \/ PollFailsDrain
           \/ ReadEof \/ ReadAgain \/ ReadFails \/ WaitReaps \/ WaitEchild \/ WaitMisses
           \/ WaitFails \/ ChanceMisses \/ Kill \/ LastWait \/ LastWaitEchild
           \/ LastWaitFails \/ Report
  <2>1. UNCHANGED <<needle, written, bytes_seen, matched, found>>
    BY <1>4 DEF Spawn, SpawnFails, harness, CheckLive, CheckKilled, CheckDrain, Poll, PollAgain,
       PollFailsLive, PollFailsDrain, ReadEof, ReadAgain, ReadFails, WaitReaps, Reap, WaitEchild,
       ReapNothing, WaitMisses, WaitFails, ChanceMisses, Kill, LastWait, LastWaitEchild, LastWaitFails, Report
  <2>. QED
    BY <1>3, <2>1
<1>5. CASE CloseOutput \/ LeaveChild \/ ChildEnds \/ Exit \/ Killed \/ BecomesWaitable \/ Tick
  BY <1>3, <1>5 DEF CloseOutput, LeaveChild, ChildEnds, Exit, Killed, End, BecomesWaitable, Tick
<1>6. CASE UNCHANGED vars
  BY <1>3, <1>6 DEF vars
<1>. QED
  BY <1>1, <1>2, <1>4, <1>5, <1>6 DEF Next, run_case, Worker

\* Once the pipe has ended, nobody is left to write or to let others write.
LEMMA EofKept ==
  ASSUME IndInv, [Next]_vars
  PROVE  EofOK'
<1> USE DEF IndInv, TypeOK, EofOK, case, process, capture, parent
<1>1. CASE Spawn
  BY <1>1 DEF Spawn, Enter
<1>2. CASE ReadByte
  BY <1>2 DEF ReadByte
<1>3. CASE ReadEof
  BY <1>3 DEF ReadEof, AfterRead
<1>4. ASSUME NEW c \in Bytes, Write(c)
      PROVE  EofOK'
  BY <1>4 DEF Write
<1>5. CASE CloseOutput \/ LeaveChild \/ ChildEnds \/ Exit \/ Killed
  <2>1. UNCHANGED <<written, bytes_seen, saw_eof, pc>> /\ (wr = {} => wr' = {})
    BY <1>5 DEF CloseOutput, LeaveChild, ChildEnds, Exit, Killed, End
  <2>. QED
    BY <2>1
<1>6. CASE \/ SpawnFails \/ CheckLive \/ CheckKilled \/ CheckDrain
           \/ Poll \/ PollAgain \/ PollFailsLive \/ PollFailsDrain
           \/ ReadAgain \/ ReadFails \/ WaitReaps \/ WaitEchild \/ WaitMisses
           \/ WaitFails \/ ChanceMisses \/ Kill \/ LastWait \/ LastWaitEchild
           \/ LastWaitFails \/ Report
  <2>1. UNCHANGED <<written, bytes_seen, saw_eof, wr>> /\ pc' # "start"
    BY <1>6 DEF SpawnFails, harness, CheckLive, CheckKilled, CheckDrain, Poll, PollAgain,
       PollFailsLive, PollFailsDrain, ReadAgain, ReadFails, AfterRead, WaitReaps, Reap, WaitEchild,
       ReapNothing, Drain, Enter, WaitMisses, WaitFails, ChanceMisses, Kill, LastWait,
       LastWaitEchild, LastWaitFails, Report
  <2>. QED
    BY <2>1
<1>7. CASE BecomesWaitable \/ Tick \/ UNCHANGED vars
  <2>1. UNCHANGED <<written, bytes_seen, saw_eof, wr, pc>>
    BY <1>7 DEF BecomesWaitable, Tick, vars
  <2>. QED
    BY <2>1
<1>. QED
  BY <1>1, <1>2, <1>3, <1>4, <1>5, <1>6, <1>7 DEF Next, run_case, Worker

\* A status is given once and for good, and only after the worker's end.
LEMMA StatusKept ==
  ASSUME IndInv, [Next]_vars
  PROVE  StatusOK'
<1> USE DEF IndInv, TypeOK, StatusOK, case, process, capture, parent
<1>1. CASE Spawn
  BY <1>1 DEF Spawn, Enter
<1>2. CASE WaitReaps \/ LastWait
  BY <1>2 DEF WaitReaps, LastWait, Reap, ReapNothing, Drain, Enter
<1>3. CASE Kill
  BY <1>3 DEF Kill, Enter
<1>4. CASE Exit
  BY <1>4, ExitsAssumption DEF Exit, End, segv, killed, Signal
<1>5. CASE Killed
  BY <1>5 DEF Killed, End
<1>6. CASE BecomesWaitable
  BY <1>6 DEF BecomesWaitable
<1>7. CASE \/ SpawnFails \/ CheckLive \/ CheckKilled \/ CheckDrain
           \/ Poll \/ PollAgain \/ PollFailsLive \/ PollFailsDrain
           \/ ReadByte \/ ReadEof \/ ReadAgain \/ ReadFails \/ WaitEchild \/ WaitMisses
           \/ WaitFails \/ ChanceMisses \/ LastWaitEchild
           \/ LastWaitFails \/ Report
  <2>1. UNCHANGED <<worker, ended, status, signalled, timed_out>> /\ pc' # "start"
    BY <1>7 DEF SpawnFails, harness, CheckLive, CheckKilled, CheckDrain, Poll, PollAgain,
       PollFailsLive, PollFailsDrain, ReadByte, ReadEof, ReadAgain, ReadFails, AfterRead,
       WaitEchild, ReapNothing, Drain, Enter, WaitMisses, WaitFails, ChanceMisses,
       LastWaitEchild, LastWaitFails, Report
  <2>. QED
    BY <2>1
<1>8. ASSUME NEW c \in Bytes, Write(c)
      PROVE  StatusOK'
  BY <1>8 DEF Write
<1>9. CASE CloseOutput \/ LeaveChild \/ ChildEnds \/ Tick \/ UNCHANGED vars
  BY <1>9 DEF CloseOutput, LeaveChild, ChildEnds, Tick, vars
<1>. QED
  BY <1>1, <1>2, <1>3, <1>4, <1>5, <1>6, <1>7, <1>8, <1>9 DEF Next, run_case, Worker

\* The clock runs for the grace as it does for the time since the end.
LEMMA GraceKept ==
  ASSUME IndInv, [Next]_vars
  PROVE  GraceOK'
<1> USE DEF IndInv, TypeOK, GraceOK, case, process, capture, parent
<1>0. ExitGrace \in Nat
  BY SizesAssumption
<1>1. CASE CheckLive
  BY <1>0, <1>1 DEF CheckLive, Unset
<1>2. CASE Tick
  BY <1>0, <1>2 DEF Tick, Less, Unset
<1>3. CASE ReadEof
  BY <1>3 DEF ReadEof, AfterRead
<1>4. CASE \/ Spawn \/ SpawnFails \/ CheckKilled \/ CheckDrain
           \/ Poll \/ PollAgain \/ PollFailsLive \/ PollFailsDrain
           \/ ReadByte \/ ReadAgain \/ ReadFails \/ WaitReaps \/ WaitEchild \/ WaitMisses
           \/ WaitFails \/ ChanceMisses \/ Kill \/ LastWait \/ LastWaitEchild
           \/ LastWaitFails \/ Report
  <2>1. UNCHANGED <<grace, sinceEof, saw_eof>> /\ (pc' = "chance" => pc = "chance")
    BY <1>4 DEF Spawn, SpawnFails, harness, CheckKilled, CheckDrain, Poll, PollAgain,
       PollFailsLive, PollFailsDrain, ReadByte, ReadAgain, ReadFails, AfterRead, WaitReaps, Reap,
       WaitEchild, ReapNothing, Drain, Enter, WaitMisses, WaitFails, ChanceMisses, Kill, LastWait,
       LastWaitEchild, LastWaitFails, Report
  <2>. QED
    BY <2>1
<1>5. ASSUME NEW c \in Bytes, Write(c)
      PROVE  GraceOK'
  BY <1>5 DEF Write
<1>6. CASE \/ CloseOutput \/ LeaveChild \/ ChildEnds \/ Exit \/ Killed \/ BecomesWaitable
           \/ UNCHANGED vars
  BY <1>6 DEF CloseOutput, LeaveChild, ChildEnds, Exit, Killed, End, BecomesWaitable, vars
<1>. QED
  BY <1>1, <1>2, <1>3, <1>4, <1>5, <1>6 DEF Next, run_case, Worker

\* classify_full says "timeout" only of a worker that was killed in time or says so
\* itself, and "-" only of one that ended as asked or was forgiven.
LEMMA ReasonIsEarned ==
  ASSUME TypeOK, StatusOK
  PROVE  /\ reason = "timeout" => status = 124 \/ (signalled /\ status \notin Exits)
         /\ reason = "-" => (status # NoStatus /\ status = want) \/ (signalled /\ want = 0)
         /\ reason \in {"output", "-"} => saw_eof
         /\ reason = "output" => needle # <<>> /\ ~found
         /\ reason = "-" /\ needle # <<>> => found
<1>1. /\ status \in Exits \/ status \in {512, 267, 265}
      /\ \A e \in Exits : e \in 0..255
      /\ want \in Nat
      /\ status = 265 => signalled
  BY ExitsAssumption DEF TypeOK, StatusOK, NoStatus, segv, killed, Signal
<1>2. exit_code = 124 => status = 124 \/ (signalled /\ status \notin Exits)
  <2>1. CASE timed_out
    <3>1. signalled /\ (status < 256 \/ status \notin Exits)
      BY <1>1, <2>1 DEF StatusOK
    <3>. QED
      BY <2>1, <3>1 DEF exit_code
  <2>2. CASE ~timed_out
    BY <1>1, <2>2 DEF exit_code, NoStatus
  <2>. QED
    BY <2>1, <2>2
<1>3. ASSUME exit_code \notin {124, 125, 139}, exit_code = want
      PROVE  (status # NoStatus /\ status = want) \/ (signalled /\ want = 0)
  <2>1. CASE timed_out
    BY <1>1, <1>3, <2>1 DEF exit_code, StatusOK, NoStatus
  <2>2. CASE ~timed_out
    BY <1>1, <1>3, <2>2 DEF exit_code, StatusOK, NoStatus
  <2>. QED
    BY <2>1, <2>2
<1>4. reason = "timeout" => exit_code = 124
  BY DEF reason
<1>5. reason = "-" => exit_code \notin {124, 125, 128 + 11} /\ exit_code = want
  BY DEF reason
<1>6. /\ reason \in {"output", "-"} => saw_eof
      /\ reason = "output" => needle # <<>> /\ ~found
      /\ reason = "-" /\ needle # <<>> => found
  BY DEF reason
<1>. QED
  BY <1>2, <1>3, <1>4, <1>5, <1>6

\* A verdict is given once, and nothing it rests on changes any more.
LEMMA VerdictKept ==
  ASSUME IndInv, [Next]_vars
  PROVE  VerdictOK'
<1> USE DEF case, process, capture, parent
<1>1. CASE Report
  <2>1. verdict' = reason /\ pc' = "done"
        /\ UNCHANGED <<status, signalled, want, saw_eof, found, needle>>
    BY <1>1 DEF Report
  <2>. QED
    BY <2>1, ReasonIsEarned DEF IndInv, VerdictOK
<1>2. CASE SpawnFails \/ PollFailsLive \/ WaitFails \/ LastWaitFails
  BY <1>2 DEF SpawnFails, PollFailsLive, WaitFails, LastWaitFails, harness, VerdictOK
<1>3. CASE \/ Spawn \/ CheckLive \/ CheckKilled \/ CheckDrain
           \/ Poll \/ PollAgain \/ PollFailsDrain
           \/ ReadByte \/ ReadEof \/ ReadAgain \/ ReadFails \/ WaitReaps \/ WaitEchild
           \/ WaitMisses \/ ChanceMisses \/ Kill \/ LastWait \/ LastWaitEchild
  <2>1. verdict' = verdict /\ pc # "done"
    BY <1>3 DEF Spawn, CheckLive, CheckKilled, CheckDrain, Poll, PollAgain, PollFailsDrain,
       ReadByte, ReadEof, ReadAgain, ReadFails, WaitReaps, Reap, WaitEchild, ReapNothing,
       WaitMisses, ChanceMisses, Kill, LastWait, LastWaitEchild
  <2>. QED
    BY <2>1 DEF IndInv, VerdictOK
<1>4. ASSUME NEW c \in Bytes, Write(c)
      PROVE  VerdictOK'
  BY <1>4 DEF Write, IndInv, VerdictOK
<1>5. CASE \/ CloseOutput \/ LeaveChild \/ ChildEnds \/ Exit \/ Killed \/ BecomesWaitable
           \/ Tick \/ UNCHANGED vars
  <2>1. UNCHANGED <<verdict, pc, status, signalled, want, saw_eof, found, needle>>
    BY <1>5 DEF CloseOutput, LeaveChild, ChildEnds, Exit, Killed, End, BecomesWaitable, Tick, vars
  <2>. QED
    BY <2>1 DEF IndInv, VerdictOK
<1>. QED
  BY <1>1, <1>2, <1>3, <1>4, <1>5 DEF Next, run_case, Worker

-----------------------------------------------------------------------------
(* The theorems                                                            *)

\* A case begins with nothing written, read or judged.
LEMMA InitIndInv == Init => IndInv
<1> SUFFICES ASSUME Init PROVE IndInv
  OBVIOUS
<1>1. /\ ExitGrace \in Nat /\ CaseTimeout \in Nat /\ LastChances \in Nat
      /\ needle \in Seq(Bytes) /\ Len(needle) \in Nat
      /\ needle # <<>> => Len(needle) > 0
  BY SizesAssumption, NeedlesAssumption, EmptySeq DEF Init
<1>2. <<>> \in Seq(Bytes) /\ Len(<<>>) = 0
  OBVIOUS
<1>3. TypeOK
  <2>1. /\ written \in Seq(Bytes) /\ bytes_seen \in 0..Len(written) /\ matched \in 0..Len(needle)
        /\ left \in Nat /\ grace \in 0..Unset /\ chances \in 0..LastChances
        /\ sinceEof \in 0..ExitGrace
    BY <1>1, <1>2 DEF Init, Unset
  <2>2. needle \in Needles /\ want \in WantEcs /\ wr \subseteq {"worker", "child"}
    BY DEF Init
  <2>. QED
    BY <2>1, <2>2 DEF Init, TypeOK
<1>4. MatcherOK
  <2>1. Ends(0, 0) /\ \A k \in 1..Len(needle) : ~Ends(k, 0)
    BY <1>1 DEF Ends
  <2>2. needle # <<>> => \A n \in 0..0 : ~Ends(Len(needle), n)
    BY <1>1, <2>1
  <2>. QED
    BY <1>1, <2>1, <2>2 DEF Init, MatcherOK
<1>5. EofOK /\ StatusOK /\ GraceOK /\ VerdictOK
  BY DEF Init, EofOK, StatusOK, GraceOK, VerdictOK, NoStatus, killed, Signal
<1>. QED
  BY <1>3, <1>4, <1>5 DEF IndInv

\* The strengthening is an invariant.
LEMMA IndInvAlways == Spec => []IndInv
<1>1. IndInv /\ [Next]_vars => IndInv'
  BY TypeKept, MatcherKept, EofKept, StatusKept, GraceKept, VerdictKept DEF IndInv
<1>. QED
  BY <1>1, InitIndInv, PTL DEF Spec

\* The values the variables range over.
THEOREM CaseTypeCorrect == Spec => []TypeOK
<1>1. IndInv => TypeOK
  BY DEF IndInv
<1>. QED
  BY <1>1, IndInvAlways, PTL

\* For every needle, every output and every way it is cut into reads: the matcher
\* finds no needle that is not there, and every plain one that is.
THEOREM MatcherCorrect == Spec => []FoundIsThere
<1>1. IndInv => FoundIsThere
  BY MatcherIsRight DEF IndInv
<1>. QED
  BY <1>1, IndInvAlways, PTL

\* An applet is supported, or its output found missing, only on all the output it
\* and the processes it leaves behind will ever have written.
THEOREM OutputJudgedWhole == Spec => []OutputVerdictIsFinal
<1>1. ASSUME IndInv, verdict \in {"output", "-"}
      PROVE  /\ bytes_seen = Len(written) /\ wr = {}
             /\ verdict = "-" /\ needle # <<>> => OccursIn(needle, written)
             /\ verdict = "output" /\ Plain(needle) => ~OccursIn(needle, written)
  <2>1. bytes_seen = Len(written) /\ wr = {} /\ written \in Seq(Bytes)
    BY <1>1 DEF IndInv, VerdictOK, EofOK, TypeOK
  <2>2. SubSeq(written, 1, bytes_seen) = written
    BY <2>1
  <2>3. FoundIsThere
    BY <1>1, MatcherIsRight DEF IndInv
  <2>. QED
    BY <1>1, <2>1, <2>2, <2>3 DEF IndInv, VerdictOK, FoundIsThere
<1>2. IndInv => OutputVerdictIsFinal
  BY <1>1 DEF OutputVerdictIsFinal
<1>. QED
  BY <1>2, IndInvAlways, PTL

\* A timeout is reported only of a worker that was killed before it exited or says so
\* itself, and an applet is supported only if it exited as asked or is forgiven.
THEOREM StatusJudgedFairly == Spec => []StatusVerdictIsEarned
<1>1. IndInv => StatusVerdictIsEarned
  BY DEF IndInv, VerdictOK, StatusOK, StatusVerdictIsEarned
<1>. QED
  BY <1>1, IndInvAlways, PTL

\* A worker that has closed its output is given the whole grace before it is killed.
THEOREM GraceGiven == Spec => GraceIsKept
<1> DEFINE Kept == ~signalled /\ signalled' /\ saw_eof => sinceEof = ExitGrace
<1>1. ASSUME IndInv, Next
      PROVE  Kept
  <2> USE DEF case, process, capture, parent
  <2>1. CASE Kill
    <3>1. ExitGrace \in Nat /\ sinceEof \in 0..ExitGrace
      BY <1>1, SizesAssumption DEF IndInv, TypeOK
    <3>2. saw_eof => sinceEof >= ExitGrace
      BY <1>1, <2>1, <3>1 DEF Kill, IndInv, GraceOK, Unset
    <3>. QED
      BY <3>1, <3>2
  <2>2. CASE \/ Spawn \/ SpawnFails \/ CheckLive \/ CheckKilled \/ CheckDrain
             \/ Poll \/ PollAgain \/ PollFailsLive \/ PollFailsDrain \/ ReadByte
             \/ ReadEof \/ ReadAgain \/ ReadFails \/ WaitReaps \/ WaitEchild \/ WaitMisses
             \/ WaitFails \/ ChanceMisses \/ LastWait \/ LastWaitEchild
             \/ LastWaitFails \/ Report
    BY <2>2 DEF Spawn, SpawnFails, harness, CheckLive, CheckKilled, CheckDrain, Poll, PollAgain,
       PollFailsLive, PollFailsDrain, ReadByte, ReadEof, ReadAgain, ReadFails, WaitReaps, Reap,
       WaitEchild, ReapNothing, WaitMisses, WaitFails, ChanceMisses, LastWait, LastWaitEchild, LastWaitFails,
       Report
  <2>3. ASSUME NEW c \in Bytes, Write(c)
        PROVE  Kept
    BY <2>3 DEF Write
  <2>4. CASE CloseOutput \/ LeaveChild \/ ChildEnds \/ Exit \/ Killed \/ BecomesWaitable \/ Tick
    BY <2>4 DEF CloseOutput, LeaveChild, ChildEnds, Exit, Killed, End, BecomesWaitable, Tick
  <2>. QED
    BY <1>1, <2>1, <2>2, <2>3, <2>4 DEF Next, run_case, Worker
<1>2. IndInv /\ [Next]_vars => [Kept]_vars
  BY <1>1
<1>. QED
  BY <1>2, IndInvAlways, PTL DEF Spec, GraceIsKept

=============================================================================
