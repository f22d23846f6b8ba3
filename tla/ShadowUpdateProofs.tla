------------------------- MODULE ShadowUpdateProofs -------------------------
(***************************************************************************)
(* What holds of ShadowUpdate for any number of processes, users, tries,   *)
(* and any initial file.                                                   *)
(***************************************************************************)
EXTENDS ShadowUpdate, SequenceTheorems, TLAPS

IndInv == TypeOK /\ Inv

-----------------------------------------------------------------------------
(* Lines                                                                   *)

\* The line appended for a user who has none is a line.
LEMMA NewLineType ==
  ASSUME NEW u \in Users, NEW h \in Hashes
  PROVE  NewLine(u, h, DefaultTail) \in Entry
BY TailsAssumption DEF NewLine, Entry

\* The copy of a line is a line.
LEMMA CopyOfType ==
  ASSUME NEW e \in Entry, NEW u \in Users, NEW h \in Hashes
  PROVE  CopyOf(e, u, h) \in Entry
BY TailsAssumption DEF CopyOf, NewLine, Entry

\* The copy of a whole file is a file.
LEMMA RewriteType ==
  ASSUME NEW s \in Seq(Entry), NEW u \in Users, NEW h \in Hashes
  PROVE  Rewrite(s, u, h) \in Seq(Entry)
<1> DEFINE c == [i \in 1..Len(s) |-> CopyOf(s[i], u, h)]
<1>1. c \in Seq(Entry)
  BY CopyOfType
<1>2. Append(c, NewLine(u, h, DefaultTail)) \in Seq(Entry)
  BY <1>1, NewLineType, AppendProperties
<1>3. Rewrite(s, u, h) = IF Lines(s, u) # {} THEN c
                         ELSE Append(c, NewLine(u, h, DefaultTail))
  BY DEF Rewrite
<1>. HIDE DEF c
<1>. QED
  BY <1>1, <1>2, <1>3

\* Copying one more line of s extends the copy by the copy of that line.
LEMMA CopyExtends ==
  ASSUME NEW s \in Seq(Entry), NEW k \in Nat, k < Len(s), NEW u \in Users, NEW h \in Hashes
  PROVE  Append([i \in 1..k |-> CopyOf(s[i], u, h)], CopyOf(s[k+1], u, h))
           = [i \in 1..(k+1) |-> CopyOf(s[i], u, h)]
<1> DEFINE c == [i \in 1..k |-> CopyOf(s[i], u, h)]
           d == [i \in 1..(k+1) |-> CopyOf(s[i], u, h)]
<1>1. c \in Seq(Entry) /\ Len(c) = k
  BY CopyOfType
<1>2. d \in Seq(Entry) /\ Len(d) = k+1
  BY CopyOfType
<1>3. CopyOf(s[k+1], u, h) \in Entry
  BY CopyOfType
<1>4. \A i \in 1..(k+1) : Append(c, CopyOf(s[k+1], u, h))[i] = d[i]
  BY <1>1, <1>3
<1>5. Append(c, CopyOf(s[k+1], u, h)) \in Seq(Entry)
        /\ Len(Append(c, CopyOf(s[k+1], u, h))) = k+1
  BY <1>1, <1>3, AppendProperties
<1>. HIDE DEF c, d
<1>6. Append(c, CopyOf(s[k+1], u, h)) = d
  BY <1>2, <1>4, <1>5, SeqEqual
<1>. QED
  BY <1>6 DEF c, d

-----------------------------------------------------------------------------
(* The inductive invariant                                                 *)

\* The initial files and processes satisfy the induction invariant.
LEMMA InitIndInv == Init => IndInv
<1> SUFFICES ASSUME Init PROVE IndInv
  OBVIOUS
<1>1. content \in [Inodes -> Seq(Entry)]
  <2>1. PICK s \in InitFiles : content = [i \in Inodes |-> IF i = shadow THEN s ELSE <<>>]
    BY DEF Init
  <2>2. s \in Seq(Entry) /\ <<>> \in Seq(Entry)
    BY InitFilesAssumption
  <2>. QED
    BY <2>1, <2>2
<1>3. TypeOK
  BY <1>1, MaxTriesAssumption DEF Init, TypeOK, PCs
<1>2. Inv
  BY NoProcAssumption, NoInodeAssumption
     DEF Init, Inv, LockHeldInCritical, Critical, ProcInv, ReaderInv
<1>. QED
  BY <1>2, <1>3 DEF IndInv

\* Only one process is between acquiring and releasing the lock.
LEMMA Mutex ==
  ASSUME IndInv, NEW p \in Procs, NEW q \in Procs, p # q, pc[p] \in Critical
  PROVE  pc[q] \notin Critical
BY DEF IndInv, Inv, LockHeldInCritical

\* q takes no part in the step.
Idles(q) ==
  /\ pc'[q] = pc[q] /\ user'[q] = user[q] /\ hash'[q] = hash[q]
  /\ src'[q] = src[q] /\ dst'[q] = dst[q]
  /\ pos'[q] = pos[q] /\ found'[q] = found[q] /\ rc'[q] = rc[q]

\* What holds of a process goes on holding when it takes no part in the step and
\* neither the live file nor the copy changes.
LEMMA IdleStays ==
  ASSUME IndInv, NEW q \in Procs, Idles(q), UNCHANGED <<shadow, temp>>,
         content'[shadow] = content[shadow],
         temp # NoInode => content'[temp] = content[temp]
  PROVE  ProcInv(q)'
<1>1. pc[q] = "copy" => CopyInProgress(q)'
  BY DEF IndInv, Inv, ProcInv, Idles, CopyInProgress
<1>2. pc[q] = "rename" => CopyComplete(q)'
  BY DEF IndInv, Inv, ProcInv, Idles, CopyComplete
<1>. QED
  BY <1>1, <1>2 DEF IndInv, Inv, ProcInv, Idles

\* Nor does it matter what becomes of the files to a process outside the critical
\* section, before its copy or after it.
LEMMA IdleOutside ==
  ASSUME IndInv, NEW q \in Procs, Idles(q), pc[q] \notin Critical
  PROVE  ProcInv(q)'
BY DEF IndInv, Inv, ProcInv, Idles, Critical

\* Nor to a lookup, as long as the file it reads is left alone.
LEMMA UnreadStays ==
  ASSUME IndInv, NEW r \in Readers, UNCHANGED <<rpc, rfile, rpos, ruser, rval>>,
         temp' = temp,
         rfile[r] \in Inodes => content'[rfile[r]] = content[rfile[r]]
  PROVE  ReaderInv(r)'
<1>1. CASE rpc[r] = "scan"
  BY <1>1 DEF IndInv, Inv, ReaderInv
<1>2. CASE rpc[r] # "scan"
  BY <1>2 DEF IndInv, Inv, ReaderInv
<1>. QED
  BY <1>1, <1>2

\* Calling ir0_shadow_set_hash keeps the invariant: nothing is open or locked yet.
LEMMA CallKeeps ==
  ASSUME IndInv, NEW p \in Procs, NEW u \in Users, NEW h \in Hashes, Call(p, u, h)
  PROVE  IndInv'
<1>1. TypeOK'
  BY MaxTriesAssumption, NoInodeAssumption, NoProcAssumption DEF IndInv, Inv, ProcInv, ReaderInv, TypeOK, PCs, Call, Goto, readerVars
<1>2. LockHeldInCritical' /\ temp' # shadow'
  BY DEF IndInv, Inv, LockHeldInCritical, Critical, TypeOK, Call, Goto, readerVars
<1>3. \A q \in Procs : ProcInv(q)'
  BY Mutex DEF IndInv, Inv, ProcInv, CopyInProgress, CopyComplete, TypeOK, PCs, Critical, Call, Goto, readerVars
<1>4. \A x \in Readers : ReaderInv(x)'
  BY DEF IndInv, Inv, ReaderInv, TypeOK, Call, Goto, readerVars
<1>. QED
  BY <1>1, <1>2, <1>3, <1>4 DEF IndInv, Inv

\* Opening IR0_LOCK_FILE touches no account file.
LEMMA OpenLockFileKeeps ==
  ASSUME IndInv, NEW p \in Procs, OpenLockFile(p)
  PROVE  IndInv'
<1>1. TypeOK'
  BY MaxTriesAssumption, NoInodeAssumption, NoProcAssumption DEF IndInv, Inv, ProcInv, ReaderInv, TypeOK, PCs, OpenLockFile, Goto, readerVars
<1>2. LockHeldInCritical' /\ temp' # shadow'
  BY DEF IndInv, Inv, LockHeldInCritical, Critical, TypeOK, OpenLockFile, Goto, readerVars
<1>3. \A q \in Procs : ProcInv(q)'
  BY Mutex DEF IndInv, Inv, ProcInv, CopyInProgress, CopyComplete, TypeOK, PCs, Critical, OpenLockFile, Goto, readerVars
<1>4. \A x \in Readers : ReaderInv(x)'
  BY DEF IndInv, Inv, ReaderInv, TypeOK, OpenLockFile, Goto, readerVars
<1>. QED
  BY <1>1, <1>2, <1>3, <1>4 DEF IndInv, Inv

\* Failing to open IR0_LOCK_FILE refuses the call and touches no account file.
LEMMA OpenLockFileFailsKeeps ==
  ASSUME IndInv, NEW p \in Procs, OpenLockFileFails(p)
  PROVE  IndInv'
<1>1. TypeOK'
  BY MaxTriesAssumption, NoInodeAssumption, NoProcAssumption DEF IndInv, Inv, ProcInv, ReaderInv, TypeOK, PCs, OpenLockFileFails, Goto, Refuse, readerVars
<1>2. LockHeldInCritical' /\ temp' # shadow'
  BY DEF IndInv, Inv, LockHeldInCritical, Critical, TypeOK, OpenLockFileFails, Goto, Refuse, readerVars
<1>3. \A q \in Procs : ProcInv(q)'
  BY Mutex DEF IndInv, Inv, ProcInv, CopyInProgress, CopyComplete, TypeOK, PCs, Critical, OpenLockFileFails, Goto, Refuse, readerVars
<1>4. \A x \in Readers : ReaderInv(x)'
  BY DEF IndInv, Inv, ReaderInv, TypeOK, OpenLockFileFails, Goto, Refuse, readerVars
<1>. QED
  BY <1>1, <1>2, <1>3, <1>4 DEF IndInv, Inv

\* A successful flock excludes every other process from the critical section.
LEMMA AcquireLockKeeps ==
  ASSUME IndInv, NEW p \in Procs, AcquireLock(p)
  PROVE  IndInv'
<1>1. TypeOK'
  BY MaxTriesAssumption, NoInodeAssumption, NoProcAssumption DEF IndInv, Inv, ProcInv, ReaderInv, TypeOK, PCs, AcquireLock, Goto, readerVars
<1>2. LockHeldInCritical' /\ temp' # shadow'
  BY NoProcAssumption DEF IndInv, Inv, LockHeldInCritical, Critical, TypeOK, AcquireLock, Goto, readerVars
<1>3. \A q \in Procs : ProcInv(q)'
  BY Mutex DEF IndInv, Inv, ProcInv, CopyInProgress, CopyComplete, TypeOK, PCs, Critical, AcquireLock, Goto, readerVars
<1>4. \A x \in Readers : ReaderInv(x)'
  BY DEF IndInv, Inv, ReaderInv, TypeOK, AcquireLock, Goto, readerVars
<1>. QED
  BY <1>1, <1>2, <1>3, <1>4 DEF IndInv, Inv

\* A failed flock attempt only counts, and never beyond MaxTries.
LEMMA LockBusyKeeps ==
  ASSUME IndInv, NEW p \in Procs, LockBusy(p)
  PROVE  IndInv'
<1>1. TypeOK'
  BY MaxTriesAssumption, NoInodeAssumption, NoProcAssumption DEF IndInv, Inv, ProcInv, ReaderInv, TypeOK, PCs, LockBusy, readerVars
<1>2. LockHeldInCritical' /\ temp' # shadow'
  BY DEF IndInv, Inv, LockHeldInCritical, Critical, TypeOK, LockBusy, readerVars
<1>3. \A q \in Procs : ProcInv(q)'
  BY Mutex DEF IndInv, Inv, ProcInv, CopyInProgress, CopyComplete, TypeOK, PCs, Critical, LockBusy, readerVars
<1>4. \A x \in Readers : ReaderInv(x)'
  BY DEF IndInv, Inv, ReaderInv, TypeOK, LockBusy, readerVars
<1>. QED
  BY <1>1, <1>2, <1>3, <1>4 DEF IndInv, Inv

\* Giving up on the lock touches no account file.
LEMMA LockTimeoutKeeps ==
  ASSUME IndInv, NEW p \in Procs, LockTimeout(p)
  PROVE  IndInv'
<1>1. TypeOK'
  BY MaxTriesAssumption, NoInodeAssumption, NoProcAssumption DEF IndInv, Inv, ProcInv, ReaderInv, TypeOK, PCs, LockTimeout, Goto, Refuse, readerVars
<1>2. LockHeldInCritical' /\ temp' # shadow'
  BY DEF IndInv, Inv, LockHeldInCritical, Critical, TypeOK, LockTimeout, Goto, Refuse, readerVars
<1>3. \A q \in Procs : ProcInv(q)'
  BY Mutex DEF IndInv, Inv, ProcInv, CopyInProgress, CopyComplete, TypeOK, PCs, Critical, LockTimeout, Goto, Refuse, readerVars
<1>4. \A x \in Readers : ReaderInv(x)'
  BY DEF IndInv, Inv, ReaderInv, TypeOK, LockTimeout, Goto, Refuse, readerVars
<1>. QED
  BY <1>1, <1>2, <1>3, <1>4 DEF IndInv, Inv

\* fopen of /etc/shadow under the lock opens the live file.
LEMMA OpenSourceKeeps ==
  ASSUME IndInv, NEW p \in Procs, OpenSource(p)
  PROVE  IndInv'
<1>1. TypeOK'
  BY MaxTriesAssumption, NoInodeAssumption, NoProcAssumption DEF IndInv, Inv, ProcInv, ReaderInv, TypeOK, PCs, OpenSource, Goto, readerVars
<1>2. LockHeldInCritical' /\ temp' # shadow'
  BY DEF IndInv, Inv, LockHeldInCritical, Critical, TypeOK, OpenSource, Goto, readerVars
<1>3. \A q \in Procs : ProcInv(q)'
  BY Mutex DEF IndInv, Inv, ProcInv, CopyInProgress, CopyComplete, TypeOK, PCs, Critical, OpenSource, Goto, readerVars
<1>4. \A x \in Readers : ReaderInv(x)'
  BY DEF IndInv, Inv, ReaderInv, TypeOK, OpenSource, Goto, readerVars
<1>. QED
  BY <1>1, <1>2, <1>3, <1>4 DEF IndInv, Inv

\* A failed fopen leaves through out_unlock with nothing open for writing.
LEMMA OpenFailsKeeps ==
  ASSUME IndInv, NEW p \in Procs, OpenFails(p)
  PROVE  IndInv'
<1>1. TypeOK'
  BY MaxTriesAssumption, NoInodeAssumption, NoProcAssumption DEF IndInv, Inv, ProcInv, ReaderInv, TypeOK, PCs, OpenFails, Goto, readerVars
<1>2. LockHeldInCritical' /\ temp' # shadow'
  BY DEF IndInv, Inv, LockHeldInCritical, Critical, TypeOK, OpenFails, Goto, readerVars
<1>3. \A q \in Procs : ProcInv(q)'
  BY Mutex DEF IndInv, Inv, ProcInv, CopyInProgress, CopyComplete, TypeOK, PCs, Critical, OpenFails, Goto, readerVars
<1>4. \A x \in Readers : ReaderInv(x)'
  BY DEF IndInv, Inv, ReaderInv, TypeOK, OpenFails, Goto, readerVars
<1>. QED
  BY <1>1, <1>2, <1>3, <1>4 DEF IndInv, Inv

\* fopen(tmp_path, "w") opens a file that is neither live nor being read.
LEMMA OpenTempKeeps ==
  ASSUME IndInv, NEW p \in Procs, OpenTemp(p)
  PROVE  IndInv'
<1>1. TypeOK'
  BY MaxTriesAssumption, NoInodeAssumption, NoProcAssumption DEF IndInv, Inv, ProcInv, ReaderInv, TypeOK, PCs, OpenTemp, Goto, FreeInodes, Used, readerVars
<1>2. LockHeldInCritical' /\ temp' # shadow'
  BY DEF IndInv, Inv, LockHeldInCritical, Critical, TypeOK, OpenTemp, Goto, FreeInodes, Used, readerVars
<1>3. ASSUME NEW q \in Procs PROVE ProcInv(q)'
  <2>1. CASE q = p
    <3>1. /\ pc[p] = "open_dst" /\ pc'[p] = "copy" /\ dst'[p] = temp'
          /\ temp' \in Inodes /\ content'[temp'] = <<>> /\ temp' # shadow
          /\ UNCHANGED <<shadow, user, hash, src, pos, found, rc>>
      BY NoInodeAssumption DEF OpenTemp, Goto, FreeInodes, Used, IndInv, Inv, TypeOK
    <3>2. /\ src[p] = shadow /\ pos[p] = 0 /\ ~found[p] /\ rc[p] = "fail"
          /\ user[p] \in Users /\ hash[p] \in Hashes
      BY <3>1 DEF IndInv, Inv, ProcInv
    <3>3. content'[shadow] \in Seq(Entry)
      BY <1>1, <3>1 DEF TypeOK
    <3>4. CopyInProgress(p)'
      BY <3>1, <3>2, <3>3, NoInodeAssumption DEF CopyInProgress
    <3>. QED
      BY <2>1, <3>1, <3>2, <3>4 DEF ProcInv
  <2>2. CASE q # p
    <3>1. Idles(q)
      BY <2>2 DEF OpenTemp, Goto, IndInv, TypeOK, Idles
    <3>2. pc[q] \notin Critical
      BY <2>2, Mutex DEF OpenTemp, Goto, Critical
    <3>. QED
      BY <3>1, <3>2, IdleOutside
  <2>. QED
    BY <2>1, <2>2
<1>4. \A x \in Readers : ReaderInv(x)'
  BY DEF IndInv, Inv, ReaderInv, TypeOK, OpenTemp, Goto, FreeInodes, Used, readerVars
<1>. QED
  BY <1>1, <1>2, <1>3, <1>4 DEF IndInv, Inv

\* The facts about the process p that is copying, gathered once.
LEMMA Copying ==
  ASSUME IndInv, NEW p \in Procs, pc[p] = "copy"
  PROVE  /\ user[p] \in Users /\ hash[p] \in Hashes
         /\ src[p] = shadow /\ dst[p] = temp
         /\ temp \in Inodes /\ shadow \in Inodes /\ temp # shadow
         /\ content[shadow] \in Seq(Entry) /\ content[temp] \in Seq(Entry)
         /\ pos[p] \in Nat /\ pos[p] <= Len(content[shadow])
         /\ content[temp] = [i \in 1..pos[p] |-> CopyOf(content[shadow][i], user[p], hash[p])]
         /\ found[p] <=> \E i \in 1..pos[p] : content[shadow][i].name = user[p]
         /\ \A q \in Procs \ {p} : pc[q] \notin Critical
<1>1. \A q \in Procs \ {p} : pc[q] \notin Critical
  BY Mutex DEF Critical
<1>. QED
  BY <1>1 DEF IndInv, Inv, ProcInv, CopyInProgress, TypeOK

\* One turn of the copy loop extends the copy by the rewrite of the next line.
LEMMA CopyLineKeeps ==
  ASSUME IndInv, NEW p \in Procs, CopyLine(p)
  PROVE  IndInv'
<1> DEFINE s == content[shadow]
           n == pos[p]
           e == s[n + 1]
           d == CopyOf(e, user[p], hash[p])
<1>1. pc[p] = "copy"
  BY DEF CopyLine
<1>2. /\ user[p] \in Users /\ hash[p] \in Hashes
      /\ src[p] = shadow /\ dst[p] = temp
      /\ temp \in Inodes /\ shadow \in Inodes /\ temp # shadow
      /\ s \in Seq(Entry) /\ content[temp] \in Seq(Entry)
      /\ n \in Nat
  BY <1>1, Copying
<1>3. content[temp] = [i \in 1..n |-> CopyOf(s[i], user[p], hash[p])]
  BY <1>1, Copying
<1>4. found[p] <=> \E i \in 1..n : s[i].name = user[p]
  BY <1>1, Copying
<1>5. \A q \in Procs \ {p} : pc[q] \notin Critical
  BY <1>1, Copying
<1>6. n < Len(s) /\ e \in Entry
  BY <1>2 DEF CopyLine
<1>7. d \in Entry
  BY <1>2, <1>6, CopyOfType
<1>8. /\ content' = [content EXCEPT ![temp] = Append(content[temp], d)]
      /\ found' = [found EXCEPT ![p] = found[p] \/ e.name = user[p]]
      /\ pos' = [pos EXCEPT ![p] = n + 1]
      /\ UNCHANGED <<shadow, temp, lock, pc, tries, user, hash, src, dst, rc,
                     rpc, rfile, rpos, ruser, rval>>
  BY <1>2 DEF CopyLine, readerVars
<1>9. Append(content[temp], d) \in Seq(Entry)
  BY <1>2, <1>7, AppendProperties
<1>10. content'[temp] = [i \in 1..(n + 1) |-> CopyOf(s[i], user[p], hash[p])]
  <2>1. content'[temp] = Append(content[temp], d)
    BY <1>2, <1>8 DEF IndInv, TypeOK
  <2>2. Append([i \in 1..n |-> CopyOf(s[i], user[p], hash[p])], d)
          = [i \in 1..(n + 1) |-> CopyOf(s[i], user[p], hash[p])]
    BY <1>2, <1>6, CopyExtends
  <2>. QED
    BY <1>3, <2>1, <2>2
<1>. HIDE DEF d
<1>11. TypeOK'
  BY <1>2, <1>8, <1>9 DEF IndInv, TypeOK
<1>12. LockHeldInCritical' /\ temp' # shadow'
  BY <1>2, <1>8 DEF IndInv, Inv, LockHeldInCritical
<1>13. ProcInv(p)'
  <2>1. content'[shadow] = s /\ pos'[p] = n + 1 /\ n + 1 <= Len(s)
    BY <1>2, <1>6, <1>8 DEF IndInv, TypeOK
  <2>2. found'[p] <=> \E i \in 1..(n + 1) : s[i].name = user[p]
    <3>1. found'[p] <=> (found[p] \/ e.name = user[p])
      BY <1>8 DEF IndInv, TypeOK
    <3>2. 1..(n + 1) = 1..n \cup {n + 1}
      BY <1>2
    <3>. QED
      BY <1>4, <3>1, <3>2, Zenon
  <2>3. CopyInProgress(p)'
    <3>1. /\ src'[p] = shadow' /\ dst'[p] = temp' /\ temp' # NoInode
          /\ temp' = temp /\ shadow' = shadow /\ user' = user /\ hash' = hash
      BY <1>2, <1>8, NoInodeAssumption
    <3>2. content'[temp'] = [i \in 1..pos'[p] |-> CopyOf(content'[shadow'][i], user'[p], hash'[p])]
      BY <1>10, <2>1, <3>1, Zenon
    <3>3. found'[p] <=> \E i \in 1..pos'[p] : content'[shadow'][i].name = user'[p]
      BY <2>1, <2>2, <3>1, Zenon
    <3>4. pos'[p] <= Len(content'[shadow'])
      BY <2>1, <3>1, Zenon
    <3>. QED
      BY <3>1, <3>2, <3>3, <3>4, Zenon DEF CopyInProgress
  <2>. QED
    <3>1. /\ pc'[p] = "copy" /\ src'[p] # NoInode /\ rc'[p] = "fail"
          /\ user'[p] \in Users /\ hash'[p] \in Hashes
      BY <1>1, <1>2, <1>8, NoInodeAssumption DEF IndInv, Inv, ProcInv
    <3>. QED
      BY <2>3, <3>1 DEF ProcInv
<1>14. ASSUME NEW q \in Procs \ {p} PROVE ProcInv(q)'
  <2>1. Idles(q)
    BY <1>8 DEF IndInv, TypeOK, Idles
  <2>. QED
    BY <1>5, <2>1, IdleOutside
<1>15. ASSUME NEW r \in Readers PROVE ReaderInv(r)'
  <2>1. rfile[r] # temp \/ rfile[r] = NoInode
    BY DEF IndInv, Inv, ReaderInv
  <2>2. rfile[r] \in Inodes => content'[rfile[r]] = content[rfile[r]]
    BY <1>2, <1>8, <2>1, NoInodeAssumption DEF IndInv, TypeOK
  <2>. QED
    BY <1>8, <2>2, UnreadStays
<1>. QED
  BY <1>11, <1>12, <1>13, <1>14, <1>15 DEF IndInv, Inv

\* At the end of the source the copy is the rewrite of the live file.
LEMMA FinishCopyKeeps ==
  ASSUME IndInv, NEW p \in Procs, FinishCopy(p)
  PROVE  IndInv'
<1> DEFINE s == content[shadow]
           c == IF found[p] THEN content[temp]
                ELSE Append(content[temp], NewLine(user[p], hash[p], DefaultTail))
<1>1. pc[p] = "copy"
  BY DEF FinishCopy, Goto
<1>2. /\ user[p] \in Users /\ hash[p] \in Hashes
      /\ src[p] = shadow /\ dst[p] = temp
      /\ temp \in Inodes /\ shadow \in Inodes /\ temp # shadow
      /\ s \in Seq(Entry) /\ content[temp] \in Seq(Entry)
      /\ pos[p] \in Nat /\ pos[p] <= Len(s)
  BY <1>1, Copying
<1>3. pos[p] = Len(s)
  BY <1>2 DEF FinishCopy
<1>4. content[temp] = [i \in 1..Len(s) |-> CopyOf(s[i], user[p], hash[p])]
  BY <1>1, <1>3, Copying
<1>5. found[p] \in BOOLEAN /\ (found[p] <=> \E i \in 1..Len(s) : s[i].name = user[p])
  BY <1>1, <1>3, Copying DEF IndInv, TypeOK
<1>6. \A q \in Procs \ {p} : pc[q] \notin Critical
  BY <1>1, Copying
<1>7. c = Rewrite(s, user[p], hash[p])
  <2>1. found[p] <=> Lines(s, user[p]) # {}
    BY <1>5 DEF Lines
  <2>. QED
    BY <1>4, <2>1 DEF Rewrite
<1>8. c \in Seq(Entry)
  <2>1. Rewrite(s, user[p], hash[p]) \in Seq(Entry)
    BY <1>2, RewriteType
  <2>. QED
    BY <1>7, <2>1
<1>9. /\ content' = [content EXCEPT ![temp] = c]
      /\ pc' = [pc EXCEPT ![p] = "rename"]
      /\ src' = [src EXCEPT ![p] = NoInode] /\ dst' = [dst EXCEPT ![p] = NoInode]
      /\ pos' = [pos EXCEPT ![p] = 0] /\ found' = [found EXCEPT ![p] = FALSE]
      /\ UNCHANGED <<shadow, temp, lock, tries, user, hash, rc,
                     rpc, rfile, rpos, ruser, rval>>
  BY <1>2 DEF FinishCopy, Goto, readerVars
<1>. HIDE DEF c
<1>10. TypeOK'
  BY <1>2, <1>8, <1>9 DEF IndInv, TypeOK, PCs
<1>11. LockHeldInCritical' /\ temp' # shadow'
  BY <1>1, <1>2, <1>9 DEF IndInv, Inv, LockHeldInCritical, Critical, TypeOK
<1>12. ProcInv(p)'
  <2>1. content'[shadow] = s /\ content'[temp] = c
    BY <1>2, <1>9 DEF IndInv, TypeOK
  <2>2. CopyComplete(p)'
    BY <1>2, <1>7, <1>9, <2>1, NoInodeAssumption DEF CopyComplete
  <2>3. pc'[p] = "rename" /\ src'[p] = NoInode /\ dst'[p] = NoInode
    BY <1>9 DEF IndInv, TypeOK
  <2>. QED
    BY <1>1, <1>2, <1>9, <2>2, <2>3 DEF IndInv, Inv, ProcInv
<1>13. ASSUME NEW q \in Procs \ {p} PROVE ProcInv(q)'
  <2>1. /\ pc[q] \notin {"open_dst", "copy", "rename"} /\ pc'[q] = pc[q]
        /\ pos'[q] = pos[q] /\ found'[q] = found[q]
        /\ src'[q] = src[q] /\ dst'[q] = dst[q]
    BY <1>6, <1>9 DEF Critical, IndInv, TypeOK
  <2>. QED
    BY <1>9, <2>1 DEF IndInv, Inv, ProcInv
<1>14. ASSUME NEW r \in Readers PROVE ReaderInv(r)'
  <2>1. rfile[r] # temp \/ rfile[r] = NoInode
    BY DEF IndInv, Inv, ReaderInv
  <2>2. rfile[r] \in Inodes => content'[rfile[r]] = content[rfile[r]]
    BY <1>2, <1>9, <2>1, NoInodeAssumption DEF IndInv, TypeOK
  <2>. QED
    BY <1>9, <2>2 DEF IndInv, Inv, ReaderInv
<1>. QED
  BY <1>10, <1>11, <1>12, <1>13, <1>14 DEF IndInv, Inv

\* A failed write unlinks the copy and leaves the live file as it is.
LEMMA WriteFailsKeeps ==
  ASSUME IndInv, NEW p \in Procs, WriteFails(p)
  PROVE  IndInv'
<1>1. TypeOK'
  BY MaxTriesAssumption, NoInodeAssumption, NoProcAssumption DEF IndInv, Inv, ProcInv, ReaderInv, TypeOK, PCs, WriteFails, Goto, Reclaim, Used, readerVars
<1>2. LockHeldInCritical' /\ temp' # shadow'
  BY NoInodeAssumption DEF IndInv, Inv, LockHeldInCritical, Critical, TypeOK, WriteFails, Goto, Reclaim, Used, readerVars
<1>3. \A q \in Procs : ProcInv(q)'
  <2>1. \A q \in Procs \ {p} : pc[q] \notin Critical
    BY Mutex DEF Critical, Goto, WriteFails
  <2>2. ProcInv(p)'
    BY DEF IndInv, Inv, ProcInv, CopyInProgress, CopyComplete, TypeOK, PCs, WriteFails, Goto, Reclaim, Used, readerVars
  <2>3. \A q \in Procs \ {p} : ProcInv(q)'
    BY <2>1 DEF IndInv, Inv, ProcInv, TypeOK, PCs, Critical, WriteFails, Goto, readerVars
  <2>. QED
    BY <2>2, <2>3
<1>4. \A x \in Readers : ReaderInv(x)'
  BY DEF IndInv, Inv, ReaderInv, TypeOK, WriteFails, Goto, Reclaim, Used, readerVars
<1>. QED
  BY <1>1, <1>2, <1>3, <1>4 DEF IndInv, Inv

\* rename makes the finished copy the live file; older readers keep theirs.
LEMMA RenameKeeps ==
  ASSUME IndInv, NEW p \in Procs, Rename(p)
  PROVE  IndInv'
<1>1. TypeOK'
  BY MaxTriesAssumption, NoInodeAssumption, NoProcAssumption DEF IndInv, Inv, ProcInv, ReaderInv, TypeOK, PCs, Rename, Goto, Reclaim, Used, readerVars
<1>2. LockHeldInCritical' /\ temp' # shadow'
  BY DEF IndInv, Inv, LockHeldInCritical, Critical, TypeOK, Rename, Goto, Reclaim, Used, readerVars
<1>3. \A q \in Procs : ProcInv(q)'
  <2>1. \A q \in Procs \ {p} : pc[q] \notin Critical
    BY Mutex DEF Critical, Goto, Rename
  <2>2. ProcInv(p)'
    BY DEF IndInv, Inv, ProcInv, CopyInProgress, CopyComplete, TypeOK, PCs, Rename, Goto, Reclaim, Used, readerVars
  <2>3. \A q \in Procs \ {p} : ProcInv(q)'
    BY <2>1 DEF IndInv, Inv, ProcInv, TypeOK, PCs, Critical, Rename, Goto, readerVars
  <2>. QED
    BY <2>2, <2>3
<1>4. \A x \in Readers : ReaderInv(x)'
  BY DEF IndInv, Inv, ReaderInv, TypeOK, Rename, Goto, Reclaim, Used, readerVars
<1>. QED
  BY <1>1, <1>2, <1>3, <1>4 DEF IndInv, Inv

\* A failed rename unlinks the copy and leaves the live file as it is.
LEMMA RenameFailsKeeps ==
  ASSUME IndInv, NEW p \in Procs, RenameFails(p)
  PROVE  IndInv'
<1>1. TypeOK'
  BY MaxTriesAssumption, NoInodeAssumption, NoProcAssumption DEF IndInv, Inv, ProcInv, ReaderInv, TypeOK, PCs, RenameFails, Goto, Reclaim, Used, readerVars
<1>2. LockHeldInCritical' /\ temp' # shadow'
  BY NoInodeAssumption DEF IndInv, Inv, LockHeldInCritical, Critical, TypeOK, RenameFails, Goto, Reclaim, Used, readerVars
<1>3. \A q \in Procs : ProcInv(q)'
  <2>1. \A q \in Procs \ {p} : pc[q] \notin Critical
    BY Mutex DEF Critical, Goto, RenameFails
  <2>2. ProcInv(p)'
    BY DEF IndInv, Inv, ProcInv, CopyInProgress, CopyComplete, TypeOK, PCs, RenameFails, Goto, Reclaim, Used, readerVars
  <2>3. \A q \in Procs \ {p} : ProcInv(q)'
    BY <2>1 DEF IndInv, Inv, ProcInv, TypeOK, PCs, Critical, RenameFails, Goto, readerVars
  <2>. QED
    BY <2>2, <2>3
<1>4. \A x \in Readers : ReaderInv(x)'
  BY DEF IndInv, Inv, ReaderInv, TypeOK, RenameFails, Goto, Reclaim, Used, readerVars
<1>. QED
  BY <1>1, <1>2, <1>3, <1>4 DEF IndInv, Inv

\* Releasing the lock ends the critical section of its holder.
LEMMA UnlockKeeps ==
  ASSUME IndInv, NEW p \in Procs, Unlock(p)
  PROVE  IndInv'
<1>1. TypeOK'
  BY MaxTriesAssumption, NoInodeAssumption, NoProcAssumption DEF IndInv, Inv, ProcInv, ReaderInv, TypeOK, PCs, Unlock, Goto, DropFrame, readerVars
<1>2. LockHeldInCritical' /\ temp' # shadow'
  BY NoProcAssumption DEF IndInv, Inv, LockHeldInCritical, Critical, TypeOK, Unlock, Goto, DropFrame, readerVars
<1>3. \A q \in Procs : ProcInv(q)'
  BY Mutex DEF IndInv, Inv, ProcInv, CopyInProgress, CopyComplete, TypeOK, PCs, Critical, Unlock, Goto, DropFrame, readerVars
<1>4. \A x \in Readers : ReaderInv(x)'
  BY DEF IndInv, Inv, ReaderInv, TypeOK, Unlock, Goto, DropFrame, readerVars
<1>. QED
  BY <1>1, <1>2, <1>3, <1>4 DEF IndInv, Inv

\* A call that never got the lock returns without touching it.
LEMMA ReturnRefusedKeeps ==
  ASSUME IndInv, NEW p \in Procs, ReturnRefused(p)
  PROVE  IndInv'
<1>1. TypeOK'
  BY MaxTriesAssumption, NoInodeAssumption, NoProcAssumption DEF IndInv, Inv, ProcInv, ReaderInv, TypeOK, PCs, ReturnRefused, Goto, DropFrame, readerVars
<1>2. LockHeldInCritical' /\ temp' # shadow'
  BY DEF IndInv, Inv, LockHeldInCritical, Critical, TypeOK, ReturnRefused, Goto, DropFrame, readerVars
<1>3. \A q \in Procs : ProcInv(q)'
  BY Mutex DEF IndInv, Inv, ProcInv, CopyInProgress, CopyComplete, TypeOK, PCs, Critical, ReturnRefused, Goto, DropFrame, readerVars
<1>4. \A x \in Readers : ReaderInv(x)'
  BY DEF IndInv, Inv, ReaderInv, TypeOK, ReturnRefused, Goto, DropFrame, readerVars
<1>. QED
  BY <1>1, <1>2, <1>3, <1>4 DEF IndInv, Inv

\* A killed process takes its lock and its open files with it.
LEMMA CrashKeeps ==
  ASSUME IndInv, NEW p \in Procs, Crash(p)
  PROVE  IndInv'
<1>1. TypeOK'
  BY MaxTriesAssumption, NoInodeAssumption, NoProcAssumption DEF IndInv, Inv, ProcInv, ReaderInv, TypeOK, PCs, Crash, DropFrame, Reclaim, Used, readerVars
<1>2. LockHeldInCritical' /\ temp' # shadow'
  BY NoProcAssumption DEF IndInv, Inv, LockHeldInCritical, Critical, TypeOK, Crash, DropFrame, Reclaim, Used, readerVars
<1>3. \A q \in Procs : ProcInv(q)'
  BY Mutex DEF IndInv, Inv, ProcInv, CopyInProgress, CopyComplete, TypeOK, PCs, Critical, Crash, DropFrame, Reclaim, Used, readerVars
<1>4. \A x \in Readers : ReaderInv(x)'
  BY DEF IndInv, Inv, ReaderInv, TypeOK, Crash, DropFrame, Reclaim, Used, readerVars
<1>. QED
  BY <1>1, <1>2, <1>3, <1>4 DEF IndInv, Inv

\* A lookup opens the live file, never the copy.
LEMMA OpenReadKeeps ==
  ASSUME IndInv, NEW r \in Readers, NEW u \in Users, OpenRead(r, u)
  PROVE  IndInv'
<1>1. TypeOK'
  BY MaxTriesAssumption, NoInodeAssumption, NoProcAssumption DEF IndInv, Inv, ProcInv, ReaderInv, TypeOK, PCs, OpenRead, procVars, readerVars
<1>2. LockHeldInCritical' /\ temp' # shadow'
  BY DEF IndInv, Inv, LockHeldInCritical, Critical, TypeOK, OpenRead, procVars, readerVars
<1>3. \A q \in Procs : ProcInv(q)'
  BY Mutex DEF IndInv, Inv, ProcInv, CopyInProgress, CopyComplete, TypeOK, PCs, Critical, OpenRead, procVars, readerVars
<1>4. \A x \in Readers : ReaderInv(x)'
  BY DEF IndInv, Inv, ReaderInv, TypeOK, OpenRead, procVars, readerVars
<1>. QED
  BY <1>1, <1>2, <1>3, <1>4 DEF IndInv, Inv

\* A lookup that cannot open the file has none open.
LEMMA OpenReadFailsKeeps ==
  ASSUME IndInv, NEW r \in Readers, NEW u \in Users, OpenReadFails(r, u)
  PROVE  IndInv'
<1>1. TypeOK'
  BY MaxTriesAssumption, NoInodeAssumption, NoProcAssumption DEF IndInv, Inv, ProcInv, ReaderInv, TypeOK, PCs, OpenReadFails, procVars, readerVars
<1>2. LockHeldInCritical' /\ temp' # shadow'
  BY DEF IndInv, Inv, LockHeldInCritical, Critical, TypeOK, OpenReadFails, procVars, readerVars
<1>3. \A q \in Procs : ProcInv(q)'
  BY Mutex DEF IndInv, Inv, ProcInv, CopyInProgress, CopyComplete, TypeOK, PCs, Critical, OpenReadFails, procVars, readerVars
<1>4. \A x \in Readers : ReaderInv(x)'
  BY DEF IndInv, Inv, ReaderInv, TypeOK, OpenReadFails, procVars, readerVars
<1>. QED
  BY <1>1, <1>2, <1>3, <1>4 DEF IndInv, Inv

\* A lookup passes over lines of other users only.
LEMMA SkipLineKeeps ==
  ASSUME IndInv, NEW r \in Readers, SkipLine(r)
  PROVE  IndInv'
<1>1. TypeOK'
  BY MaxTriesAssumption, NoInodeAssumption, NoProcAssumption DEF IndInv, Inv, ProcInv, ReaderInv, TypeOK, PCs, SkipLine, procVars, readerVars
<1>2. LockHeldInCritical' /\ temp' # shadow'
  BY DEF IndInv, Inv, LockHeldInCritical, Critical, TypeOK, SkipLine, procVars, readerVars
<1>3. \A q \in Procs : ProcInv(q)'
  BY Mutex DEF IndInv, Inv, ProcInv, CopyInProgress, CopyComplete, TypeOK, PCs, Critical, SkipLine, procVars, readerVars
<1>4. \A x \in Readers : ReaderInv(x)'
  BY DEF IndInv, Inv, ReaderInv, TypeOK, SkipLine, procVars, readerVars
<1>. QED
  BY <1>1, <1>2, <1>3, <1>4 DEF IndInv, Inv

\* A lookup ends at the first line of its user or at the end of the file.
LEMMA EndReadKeeps ==
  ASSUME IndInv, NEW r \in Readers, EndRead(r)
  PROVE  IndInv'
<1>1. TypeOK'
  <2>1. content' \in [Inodes -> Seq(Entry)]
    BY DEF IndInv, TypeOK, EndRead, Reclaim
  <2>2. rval' \in [Readers -> Hashes \cup {NoHash}]
    <3>1. CASE rval' = rval
      BY <3>1 DEF IndInv, TypeOK
    <3>2. CASE /\ rpos[r] < Len(content[rfile[r]])
               /\ rval' = [rval EXCEPT ![r] = content[rfile[r]][rpos[r] + 1].hash]
      <4>1. rfile[r] \in Inodes /\ content[rfile[r]] \in Seq(Entry) /\ rpos[r] \in Nat
        BY DEF EndRead, IndInv, Inv, ReaderInv, TypeOK
      <4>2. content[rfile[r]][rpos[r] + 1] \in Entry
        BY <3>2, <4>1
      <4>. QED
        BY <3>2, <4>2 DEF IndInv, TypeOK, Entry
    <3>. QED
      BY <3>1, <3>2 DEF EndRead
  <2>. QED
    BY <2>1, <2>2 DEF IndInv, TypeOK, EndRead, procVars
<1>2. LockHeldInCritical' /\ temp' # shadow'
  BY DEF IndInv, Inv, LockHeldInCritical, Critical, TypeOK, EndRead, procVars, Reclaim, Used, readerVars
<1>3. ASSUME NEW q \in Procs PROVE ProcInv(q)'
  <2>1. Idles(q)
    BY DEF EndRead, procVars, Idles
  <2>2. /\ content'[shadow] = content[shadow]
        /\ temp # NoInode => content'[temp] = content[temp]
    BY DEF EndRead, Reclaim, Used, IndInv, TypeOK
  <2>. QED
    BY <2>1, <2>2, IdleStays DEF EndRead
<1>4. \A x \in Readers : ReaderInv(x)'
  BY DEF IndInv, Inv, ReaderInv, TypeOK, EndRead, procVars, Reclaim, Used, readerVars
<1>. QED
  BY <1>1, <1>2, <1>3, <1>4 DEF IndInv, Inv

\* A finished lookup returns and forgets its result.
LEMMA ReturnHashKeeps ==
  ASSUME IndInv, NEW r \in Readers, ReturnHash(r)
  PROVE  IndInv'
<1>1. TypeOK'
  BY MaxTriesAssumption, NoInodeAssumption, NoProcAssumption DEF IndInv, Inv, ProcInv, ReaderInv, TypeOK, PCs, ReturnHash, procVars, readerVars
<1>2. LockHeldInCritical' /\ temp' # shadow'
  BY DEF IndInv, Inv, LockHeldInCritical, Critical, TypeOK, ReturnHash, procVars, readerVars
<1>3. ASSUME NEW q \in Procs PROVE ProcInv(q)'
  <2>1. Idles(q)
    BY DEF ReturnHash, procVars, Idles
  <2>. QED
    BY <2>1, IdleStays DEF ReturnHash
<1>4. \A x \in Readers : ReaderInv(x)'
  BY DEF IndInv, Inv, ReaderInv, TypeOK, ReturnHash, procVars, readerVars
<1>. QED
  BY <1>1, <1>2, <1>3, <1>4 DEF IndInv, Inv

-----------------------------------------------------------------------------
(* The theorems                                                            *)

\* A step that changes no variable keeps the invariant.
LEMMA StutterKeeps == IndInv /\ UNCHANGED vars => IndInv'
<1> SUFFICES ASSUME IndInv, UNCHANGED vars PROVE IndInv'
  OBVIOUS
<1>1. TypeOK'
  BY DEF IndInv, TypeOK, vars
<1>2. LockHeldInCritical' /\ temp' # shadow'
  BY DEF IndInv, Inv, LockHeldInCritical, vars
<1>3. \A q \in Procs : ProcInv(q)'
  BY DEF IndInv, Inv, ProcInv, CopyInProgress, CopyComplete, vars
<1>4. \A x \in Readers : ReaderInv(x)'
  BY DEF IndInv, Inv, ReaderInv, vars
<1>. QED
  BY <1>1, <1>2, <1>3, <1>4 DEF IndInv, Inv

\* Every step of a running update keeps the invariant.
LEMMA StepKeeps ==
  ASSUME IndInv, NEW p \in Procs, Step(p)
  PROVE  IndInv'
BY OpenLockFileKeeps, OpenLockFileFailsKeeps, AcquireLockKeeps, LockBusyKeeps,
   LockTimeoutKeeps, OpenSourceKeeps, OpenFailsKeeps, OpenTempKeeps, CopyLineKeeps,
   FinishCopyKeeps, WriteFailsKeeps, RenameKeeps, RenameFailsKeeps, UnlockKeeps,
   ReturnRefusedKeeps
   DEF Step

\* Every step of the system keeps the invariant.
LEMMA NextKeeps == IndInv /\ [Next]_vars => IndInv'
<1> SUFFICES ASSUME IndInv, [Next]_vars PROVE IndInv'
  OBVIOUS
<1>1. CASE UNCHANGED vars
  BY <1>1, StutterKeeps
<1>2. ASSUME NEW p \in Procs,
             \/ \E u \in Users, h \in Hashes : Call(p, u, h)
             \/ Step(p)
             \/ Crash(p)
      PROVE  IndInv'
  BY <1>2, CallKeeps, StepKeeps, CrashKeeps
<1>3. ASSUME NEW r \in Readers,
             \/ \E u \in Users : OpenRead(r, u) \/ OpenReadFails(r, u)
             \/ ReadStep(r)
      PROVE  IndInv'
  BY <1>3, OpenReadKeeps, OpenReadFailsKeeps, SkipLineKeeps, EndReadKeeps, ReturnHashKeeps DEF ReadStep
<1>. QED
  BY <1>1, <1>2, <1>3 DEF Next

\* The induction invariant holds throughout every behaviour.
LEMMA IndInvAlways == Spec => []IndInv
BY InitIndInv, NextKeeps, PTL DEF Spec

\* Every variable of the password-file protocol stays in its range; in
\* particular lock_accounts never makes more than MaxTries attempts.
THEOREM TypeCorrect == Spec => []TypeOK
<1>1. IndInv => TypeOK
  BY DEF IndInv
<1>. QED
  BY <1>1, IndInvAlways, PTL

\* Mutual exclusion of ir0_shadow_set_hash, and what it is for: the copy in
\* /etc/shadow.new is at every moment the rewrite of what has been read of the
\* file /etc/shadow names, however many processes update and however many die.
THEOREM UpdateInvariant == Spec => []Inv
<1>1. IndInv => Inv
  BY DEF IndInv
<1>. QED
  BY <1>1, IndInvAlways, PTL

\* No process ever has the live /etc/shadow, or a file a login is reading, open
\* for writing.
THEOREM LiveFileSafe == Spec => []LiveFileNotWritten
<1>1. ASSUME IndInv, NEW p \in Procs, dst[p] # NoInode
      PROVE  dst[p] # shadow /\ \A r \in Readers : rfile[r] # dst[p]
  <2>1. pc[p] = "copy"
    BY <1>1 DEF IndInv, Inv, ProcInv
  <2>2. dst[p] = temp /\ temp # shadow
    BY <1>1, <2>1 DEF IndInv, Inv, ProcInv, CopyInProgress
  <2>3. \A r \in Readers : rfile[r] # NoInode => rfile[r] # temp
    BY <1>1 DEF IndInv, Inv, ReaderInv
  <2>. QED
    BY <1>1, <2>2, <2>3
<1>2. IndInv => LiveFileNotWritten
  BY <1>1 DEF LiveFileNotWritten
<1>. QED
  BY <1>2, IndInvAlways, PTL

\* Every step but a rename leaves the file /etc/shadow names as it is.
LEMMA OnlyRenamePublishes ==
  ASSUME IndInv, [Next]_vars, \A p \in Procs : ~Rename(p)
  PROVE  content'[shadow'] = content[shadow]
<1> USE DEF Goto, procVars, readerVars
<1>1. shadow \in Inodes /\ content \in [Inodes -> Seq(Entry)] /\ temp # shadow
  BY DEF IndInv, Inv, TypeOK
<1>2. CASE UNCHANGED vars
  BY <1>2 DEF vars
<1>3. ASSUME NEW p \in Procs, NEW u \in Users, NEW h \in Hashes, Call(p, u, h)
      PROVE  content'[shadow'] = content[shadow]
  BY <1>3 DEF Call
<1>4. ASSUME NEW p \in Procs, Step(p)
      PROVE  content'[shadow'] = content[shadow]
  <2>1. CASE OpenTemp(p)
    <3>1. \A i \in FreeInodes : i # shadow
      BY DEF FreeInodes, Used
    <3>. QED
      BY <1>1, <2>1, <3>1 DEF OpenTemp
  <2>2. CASE CopyLine(p)
    <3>1. dst[p] = temp
      BY <2>2 DEF CopyLine, IndInv, Inv, ProcInv, CopyInProgress
    <3>. QED
      BY <1>1, <2>2, <3>1 DEF CopyLine
  <2>3. CASE FinishCopy(p)
    <3>1. dst[p] = temp
      BY <2>3 DEF FinishCopy, IndInv, Inv, ProcInv, CopyInProgress
    <3>. QED
      BY <1>1, <2>3, <3>1 DEF FinishCopy
  <2>4. CASE WriteFails(p) \/ RenameFails(p)
    BY <1>1, <2>4 DEF WriteFails, RenameFails, Reclaim, Used
  <2>5. CASE OpenLockFile(p) \/ OpenLockFileFails(p) \/ AcquireLock(p) \/ LockBusy(p)
             \/ LockTimeout(p) \/ OpenSource(p) \/ OpenFails(p)
    BY <2>5 DEF OpenLockFile, OpenLockFileFails, Refuse, AcquireLock, LockBusy, LockTimeout,
                OpenSource, OpenFails
  <2>6. CASE Unlock(p) \/ ReturnRefused(p)
    BY <2>6 DEF Unlock, ReturnRefused
  <2>. QED
    BY <1>4, <2>1, <2>2, <2>3, <2>4, <2>5, <2>6 DEF Step
<1>5. ASSUME NEW p \in Procs, Crash(p)
      PROVE  content'[shadow'] = content[shadow]
  BY <1>1, <1>5 DEF Crash, Reclaim, Used
<1>6. ASSUME NEW r \in Readers, (\E u \in Users : OpenRead(r, u) \/ OpenReadFails(r, u)) \/ ReadStep(r)
      PROVE  content'[shadow'] = content[shadow]
  <2>1. CASE \E u \in Users : OpenRead(r, u) \/ OpenReadFails(r, u)
    BY <2>1 DEF OpenRead, OpenReadFails
  <2>2. CASE SkipLine(r) \/ ReturnHash(r)
    BY <2>2 DEF SkipLine, ReturnHash
  <2>3. CASE EndRead(r)
    BY <1>1, <2>3 DEF EndRead, Reclaim, Used
  <2>. QED
    BY <1>6, <2>1, <2>2, <2>3 DEF ReadStep
<1>. QED
  BY <1>2, <1>3, <1>4, <1>5, <1>6 DEF Next

\* An update of /etc/shadow is the rewrite of what /etc/shadow held when the
\* rename published it: no update another process completed is lost.
THEOREM NoLostUpdate == Spec => UpdateIsRewrite
<1> DEFINE Published == \E p \in Procs :
              /\ pc[p] = "rename" /\ rc'[p] = "ok"
              /\ content'[shadow'] = Rewrite(content[shadow], user[p], hash[p])
<1>1. ASSUME IndInv, NEW p \in Procs, Rename(p)
      PROVE  Published
  <2>1. pc[p] = "rename" /\ rc'[p] = "ok"
    BY <1>1 DEF Rename, Goto, IndInv, TypeOK
  <2>2. content[temp] = Rewrite(content[shadow], user[p], hash[p])
    BY <1>1, <2>1 DEF IndInv, Inv, ProcInv, CopyComplete
  <2>3. content'[shadow'] = content[temp]
    BY <1>1 DEF Rename, Reclaim, Used, IndInv, TypeOK
  <2>. QED
    BY <2>1, <2>2, <2>3
<1>2. IndInv /\ [Next]_vars => [content'[shadow'] # content[shadow] => Published]_vars
  BY <1>1, OnlyRenamePublishes
<1>. QED
  BY <1>2, IndInvAlways, PTL DEF Spec, UpdateIsRewrite

=============================================================================
