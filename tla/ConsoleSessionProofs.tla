------------------------ MODULE ConsoleSessionProofs ------------------------
(***************************************************************************)
(* Theorems about ConsoleSession, for any users, any typed words and any   *)
(* length of the terminal's queue.                                         *)
(***************************************************************************)
EXTENDS ConsoleSession, SequenceTheorems, TLAPS

\* The screen says what the service or the shell is waiting for.
ScreenFits ==
  /\ screen = "user" <=> cpc = "read_user"
  /\ screen = "pass" <=> cpc \in {"ask_pass", "read_pass"}
  /\ shell = "runs" => screen = "shell"
  /\ shell = "none" => screen # "shell"

\* Was the line l typed for whoever reads next, or at the name prompt for the
\* password prompt?
Expected(l) ==
  /\ cpc = "read_user" => l.at = "user"
  /\ cpc \in {"ask_pass", "read_pass"} => l.at \in {"user", "pass"}
  /\ shell = "runs" => l.at = "shell"

\* Whatever waits in the queue was.
QueueFits == \A i \in 1..Len(queue) : Expected(queue[i])

\* The strengthening.
IndInv == /\ TypeOK
          /\ ScreenFits /\ QueueFits
          /\ LinesReachTheirReader /\ EchoFitsPrompt /\ UtmpTracksSession

-----------------------------------------------------------------------------
\* The service begins with an empty queue and no session.
LEMMA InitIndInv == Init => IndInv
<1> SUFFICES ASSUME Init PROVE IndInv
  OBVIOUS
<1>1. NoLine \in Line /\ NoLine.at = "none"
  BY WordsAssumption DEF NoLine, Line
<1>2. queue = <<>> /\ queue \in Seq(Line) /\ Len(queue) = 0
  BY DEF Init
<1>3. TypeOK
  BY <1>1, <1>2, MaxQueueAssumption DEF Init, TypeOK, CPCs
<1>4. QueueFits
  BY <1>2 DEF QueueFits
<1>5. ScreenFits /\ LinesReachTheirReader /\ EchoFitsPrompt /\ UtmpTracksSession
  BY <1>1 DEF Init, ScreenFits, LinesReachTheirReader, EchoFitsPrompt, UtmpTracksSession
<1>. QED
  BY <1>3, <1>4, <1>5 DEF IndInv

\* The reader of a line takes what was typed first and leaves the rest.
LEMMA Taken ==
  ASSUME IndInv, queue # <<>>
  PROVE  /\ Head(queue) \in Line /\ Expected(Head(queue))
         /\ Tail(queue) \in Seq(Line) /\ Len(Tail(queue)) <= MaxQueue
         /\ \A i \in 1..Len(Tail(queue)) : Tail(queue)[i] = queue[i + 1] /\ i + 1 \in 1..Len(queue)
<1>1. /\ queue \in Seq(Line) /\ Len(queue) <= MaxQueue /\ Len(queue) \in Nat
      /\ \A i \in 1..Len(queue) : Expected(queue[i])
  BY DEF IndInv, TypeOK, QueueFits
<1>2. Head(queue) = queue[1] /\ 1 \in 1..Len(queue) /\ queue[1] \in Line
  BY <1>1
<1>3. /\ Tail(queue) \in Seq(Line) /\ Len(Tail(queue)) = Len(queue) - 1
      /\ \A i \in 1..Len(Tail(queue)) : Tail(queue)[i] = queue[i + 1]
  BY <1>1
<1>. QED
  BY <1>1, <1>2, <1>3, MaxQueueAssumption

\* Every step keeps the strengthening.
LEMMA NextKeeps == IndInv /\ [Next]_vars => IndInv'
<1> SUFFICES ASSUME IndInv, [Next]_vars PROVE IndInv'
  OBVIOUS
<1> USE DEF IndInv, ScreenFits, LinesReachTheirReader, EchoFitsPrompt, UtmpTracksSession
<1>0. <<>> \in Seq(Line) /\ Len(<<>>) = 0 /\ 0 <= MaxQueue
  BY MaxQueueAssumption
<1>1. CASE StartService
  <2>1. TypeOK'
    BY <1>1, <1>0, NoUserAssumption DEF TypeOK, CPCs, StartService, Authenticates, restore_cooked
  <2>2. QueueFits'
    BY <1>1, <1>0 DEF TypeOK, QueueFits, Expected, StartService, Authenticates, restore_cooked
  <2>3. (ScreenFits /\ LinesReachTheirReader /\ EchoFitsPrompt /\ UtmpTracksSession)'
    BY <1>1, NoUserAssumption DEF TypeOK, Expected, StartService, Authenticates, restore_cooked
  <2>. QED
    BY <2>1, <2>2, <2>3
<1>2. CASE Prompt
  <2>1. TypeOK'
    BY <1>2, <1>0 DEF TypeOK, CPCs, Prompt, restore_cooked
  <2>2. QueueFits'
    BY <1>2, <1>0 DEF TypeOK, QueueFits, Expected, Prompt, restore_cooked
  <2>3. (ScreenFits /\ LinesReachTheirReader /\ EchoFitsPrompt /\ UtmpTracksSession)'
    BY <1>2 DEF TypeOK, Expected, Prompt, restore_cooked
  <2>. QED
    BY <2>1, <2>2, <2>3
<1>3. CASE ReadUser
  <2>1. TypeOK'
    BY <1>3, <1>0, Taken DEF TypeOK, CPCs, ReadUser
  <2>2. QueueFits'
    BY <1>3, <1>0, Taken DEF TypeOK, QueueFits, Expected, ReadUser
  <2>3. (ScreenFits /\ LinesReachTheirReader /\ EchoFitsPrompt /\ UtmpTracksSession)'
    BY <1>3, Taken DEF TypeOK, Expected, ReadUser
  <2>. QED
    BY <2>1, <2>2, <2>3
<1>4. CASE EchoOff
  <2>1. TypeOK'
    BY <1>4, <1>0 DEF TypeOK, CPCs, EchoOff
  <2>2. QueueFits'
    BY <1>4, <1>0 DEF TypeOK, QueueFits, Expected, EchoOff
  <2>3. (ScreenFits /\ LinesReachTheirReader /\ EchoFitsPrompt /\ UtmpTracksSession)'
    BY <1>4 DEF TypeOK, Expected, EchoOff
  <2>. QED
    BY <2>1, <2>2, <2>3
<1>5. CASE ReadPass
  <2>1. TypeOK'
    BY <1>5, <1>0, Taken DEF TypeOK, CPCs, ReadPass, restore_cooked
  <2>2. QueueFits'
    BY <1>5, <1>0, Taken DEF TypeOK, QueueFits, Expected, ReadPass, restore_cooked
  <2>3. (ScreenFits /\ LinesReachTheirReader /\ EchoFitsPrompt /\ UtmpTracksSession)'
    BY <1>5, Taken DEF TypeOK, Expected, ReadPass, restore_cooked
  <2>. QED
    BY <2>1, <2>2, <2>3
<1>6. CASE Auth
  <2>1. TypeOK'
    BY <1>6, <1>0, NoUserAssumption DEF TypeOK, CPCs, Auth, Authenticates
  <2>2. QueueFits'
    BY <1>6, <1>0 DEF TypeOK, QueueFits, Expected, Auth, Authenticates
  <2>3. (ScreenFits /\ LinesReachTheirReader /\ EchoFitsPrompt /\ UtmpTracksSession)'
    BY <1>6, NoUserAssumption DEF TypeOK, Expected, Auth, Authenticates
  <2>. QED
    BY <2>1, <2>2, <2>3
<1>7. CASE DelayOver
  <2>1. TypeOK'
    BY <1>7, <1>0 DEF TypeOK, CPCs, DelayOver
  <2>2. QueueFits'
    BY <1>7, <1>0 DEF TypeOK, QueueFits, Expected, DelayOver
  <2>3. (ScreenFits /\ LinesReachTheirReader /\ EchoFitsPrompt /\ UtmpTracksSession)'
    BY <1>7 DEF TypeOK, Expected, DelayOver
  <2>. QED
    BY <2>1, <2>2, <2>3
<1>8. CASE Spawn
  <2>1. TypeOK'
    BY <1>8, <1>0 DEF TypeOK, CPCs, Spawn, restore_cooked
  <2>2. QueueFits'
    BY <1>8, <1>0 DEF TypeOK, QueueFits, Expected, Spawn, restore_cooked
  <2>3. (ScreenFits /\ LinesReachTheirReader /\ EchoFitsPrompt /\ UtmpTracksSession)'
    BY <1>8 DEF TypeOK, Expected, Spawn, restore_cooked
  <2>. QED
    BY <2>1, <2>2, <2>3
<1>9. CASE SpawnFails
  <2>1. TypeOK'
    BY <1>9, <1>0 DEF TypeOK, CPCs, SpawnFails, restore_cooked
  <2>2. QueueFits'
    BY <1>9, <1>0 DEF TypeOK, QueueFits, Expected, SpawnFails, restore_cooked
  <2>3. (ScreenFits /\ LinesReachTheirReader /\ EchoFitsPrompt /\ UtmpTracksSession)'
    BY <1>9 DEF TypeOK, Expected, SpawnFails, restore_cooked
  <2>. QED
    BY <2>1, <2>2, <2>3
<1>10. CASE Record
  <2>1. TypeOK'
    BY <1>10, <1>0 DEF TypeOK, CPCs, Record
  <2>2. QueueFits'
    BY <1>10, <1>0 DEF TypeOK, QueueFits, Expected, Record
  <2>3. (ScreenFits /\ LinesReachTheirReader /\ EchoFitsPrompt /\ UtmpTracksSession)'
    BY <1>10 DEF TypeOK, Expected, Record
  <2>. QED
    BY <2>1, <2>2, <2>3
<1>11. CASE Reap
  <2>1. TypeOK'
    BY <1>11, <1>0 DEF TypeOK, CPCs, Reap, restore_cooked
  <2>2. QueueFits'
    BY <1>11, <1>0 DEF TypeOK, QueueFits, Expected, Reap, restore_cooked
  <2>3. (ScreenFits /\ LinesReachTheirReader /\ EchoFitsPrompt /\ UtmpTracksSession)'
    BY <1>11 DEF TypeOK, Expected, Reap, restore_cooked
  <2>. QED
    BY <2>1, <2>2, <2>3
<1>12. CASE Type
  <2>1. PICK l \in Line : l.at = screen /\ queue' = Append(queue, l)
    BY <1>12 DEF Type, Line, TypeOK
  <2>2. UNCHANGED <<cpc, screen, echo, name, pass, acct, shell, got, utmp, db>>
    BY <1>12 DEF Type
  <2>3. /\ queue' \in Seq(Line) /\ Len(queue') = Len(queue) + 1 /\ Len(queue') <= MaxQueue
        /\ queue'[Len(queue) + 1] = l /\ \A i \in 1..Len(queue) : queue'[i] = queue[i]
    BY <1>12, <2>1, AppendProperties, MaxQueueAssumption DEF Type, TypeOK
  <2>4. TypeOK'
    BY <2>2, <2>3 DEF TypeOK, CPCs
  <2>5. Expected(l)'
    BY <2>1, <2>2 DEF Expected, TypeOK
  <2>6. QueueFits'
    BY <2>2, <2>3, <2>5 DEF QueueFits, Expected, TypeOK
  <2>. QED
    BY <2>2, <2>4, <2>6
<1>13. CASE ChangePassword
  <2>1. TypeOK'
    BY <1>13, <1>0 DEF TypeOK, CPCs, ChangePassword
  <2>2. QueueFits'
    BY <1>13, <1>0 DEF TypeOK, QueueFits, Expected, ChangePassword
  <2>3. (ScreenFits /\ LinesReachTheirReader /\ EchoFitsPrompt /\ UtmpTracksSession)'
    BY <1>13 DEF TypeOK, Expected, ChangePassword
  <2>. QED
    BY <2>1, <2>2, <2>3
<1>14. CASE ShellStarts
  <2>1. TypeOK'
    BY <1>14, <1>0 DEF TypeOK, CPCs, ShellStarts, restore_cooked
  <2>2. QueueFits'
    BY <1>14, <1>0 DEF TypeOK, QueueFits, Expected, ShellStarts, restore_cooked
  <2>3. (ScreenFits /\ LinesReachTheirReader /\ EchoFitsPrompt /\ UtmpTracksSession)'
    BY <1>14 DEF TypeOK, Expected, ShellStarts, restore_cooked
  <2>. QED
    BY <2>1, <2>2, <2>3
<1>15. CASE ShellStartFails
  <2>1. TypeOK'
    BY <1>15, <1>0 DEF TypeOK, CPCs, ShellStartFails
  <2>2. QueueFits'
    BY <1>15, <1>0 DEF TypeOK, QueueFits, Expected, ShellStartFails
  <2>3. (ScreenFits /\ LinesReachTheirReader /\ EchoFitsPrompt /\ UtmpTracksSession)'
    BY <1>15 DEF TypeOK, Expected, ShellStartFails
  <2>. QED
    BY <2>1, <2>2, <2>3
<1>16. CASE ShellReads
  <2>1. TypeOK'
    BY <1>16, <1>0, Taken DEF TypeOK, CPCs, ShellReads
  <2>2. QueueFits'
    BY <1>16, <1>0, Taken DEF TypeOK, QueueFits, Expected, ShellReads
  <2>3. (ScreenFits /\ LinesReachTheirReader /\ EchoFitsPrompt /\ UtmpTracksSession)'
    BY <1>16, Taken DEF TypeOK, Expected, ShellReads
  <2>. QED
    BY <2>1, <2>2, <2>3
<1>17. CASE ShellSetsEcho
  <2>1. TypeOK'
    BY <1>17, <1>0 DEF TypeOK, CPCs, ShellSetsEcho
  <2>2. QueueFits'
    BY <1>17, <1>0 DEF TypeOK, QueueFits, Expected, ShellSetsEcho
  <2>3. (ScreenFits /\ LinesReachTheirReader /\ EchoFitsPrompt /\ UtmpTracksSession)'
    BY <1>17 DEF TypeOK, Expected, ShellSetsEcho
  <2>. QED
    BY <2>1, <2>2, <2>3
<1>18. CASE ShellEnds
  <2>1. TypeOK'
    BY <1>18, <1>0 DEF TypeOK, CPCs, ShellEnds
  <2>2. QueueFits'
    BY <1>18, <1>0 DEF TypeOK, QueueFits, Expected, ShellEnds
  <2>3. (ScreenFits /\ LinesReachTheirReader /\ EchoFitsPrompt /\ UtmpTracksSession)'
    BY <1>18 DEF TypeOK, Expected, ShellEnds
  <2>. QED
    BY <2>1, <2>2, <2>3
<1>19. CASE UNCHANGED vars
  BY <1>19 DEF vars, TypeOK, CPCs, QueueFits, Expected
<1>. QED
  BY <1>1, <1>2, <1>3, <1>4, <1>5, <1>6, <1>7, <1>8, <1>9, <1>10, <1>11, <1>12, <1>13,
     <1>14, <1>15, <1>16, <1>17, <1>18, <1>19 DEF Next, Service

\* The strengthening is an invariant.
LEMMA IndInvAlways == Spec => []IndInv
  BY InitIndInv, NextKeeps, PTL DEF Spec

\* The values the variables range over: there is an account exactly during its
\* session, and a child exactly from fork to waitpid.
THEOREM ConsoleTypeCorrect == Spec => []TypeOK
<1>1. IndInv => TypeOK
  BY DEF IndInv
<1>. QED
  BY <1>1, IndInvAlways, PTL

\* What was typed for one reader of the terminal is never taken by another, however
\* much is typed ahead: no line of the login, a password least of all, reaches the
\* shell, and none meant for the shell or typed during the delay becomes a name.
THEOREM LinesAreTaken == Spec => []LinesReachTheirReader
<1>1. IndInv => LinesReachTheirReader
  BY DEF IndInv
<1>. QED
  BY <1>1, IndInvAlways, PTL

\* A password is never echoed and a name always is, in whatever state the last
\* shell left the terminal.
THEOREM EchoIsRight == Spec => []EchoFitsPrompt
<1>1. IndInv => EchoFitsPrompt
  BY DEF IndInv
<1>. QED
  BY <1>1, IndInvAlways, PTL

\* utmp names a user exactly while the service waits for that user's shell.
THEOREM UtmpIsRight == Spec => []UtmpTracksSession
<1>1. IndInv => UtmpTracksSession
  BY DEF IndInv
<1>. QED
  BY <1>1, IndInvAlways, PTL

\* A session passes from one account to another only through the login dialogue,
\* however often its shell crashes.
THEOREM SessionIsKept == Spec => SessionKeepsUser
<1> DEFINE Kept == acct # NoUser /\ acct' # acct
                     => acct' = NoUser /\ (cpc = "spawn" \/ shell = "logout")
<1>1. ASSUME IndInv, Next
      PROVE  Kept
  <2>1. acct # NoUser <=> cpc \in {"spawn", "record", "wait"}
    BY <1>1 DEF IndInv, TypeOK
  <2>2. CASE \/ Prompt \/ ReadUser \/ EchoOff \/ ReadPass \/ DelayOver \/ Spawn \/ Record \/ Type
             \/ ChangePassword \/ ShellStarts \/ ShellStartFails \/ ShellReads \/ ShellSetsEcho
             \/ ShellEnds
    BY <2>2 DEF Prompt, ReadUser, EchoOff, ReadPass, DelayOver, Spawn, Record, Type, ChangePassword,
                ShellStarts, ShellStartFails, ShellReads, ShellSetsEcho, ShellEnds
  <2>3. CASE StartService \/ Auth
    BY <2>1, <2>3 DEF StartService, Auth
  <2>4. CASE SpawnFails \/ Reap
    BY <2>4 DEF SpawnFails, Reap
  <2>. QED
    BY <1>1, <2>2, <2>3, <2>4 DEF Next, Service
<1>2. IndInv /\ [Next]_vars => [Kept]_vars
  BY <1>1
<1>. QED
  BY <1>2, IndInvAlways, PTL DEF Spec, SessionKeepsUser

=============================================================================
