----------------------- MODULE ShadowRefinementProofs -----------------------
(***************************************************************************)
(* ShadowUpdate implements AtomicShadow: to its callers the replacement of *)
(* /etc/shadow is an update of a table at one instant, the rename.         *)
(***************************************************************************)
EXTENDS ShadowUpdateProofs, WellFoundedInduction

-----------------------------------------------------------------------------
(* What a file says of a user                                              *)

\* A set of line numbers has a least one.
LEMMA FirstIsLeast ==
  ASSUME NEW S, S \subseteq Nat, S # {}
  PROVE  First(S) \in S /\ \A j \in S : First(S) <= j
<1>1. PICK i \in S : \A j \in S : ~(<<j, i>> \in OpToRel(<, Nat))
  BY NatLessThanWellFounded, WFMin, Zenon
<1>2. \A j \in S : i \in Nat /\ j \in Nat /\ <<j, i>> \in Nat \X Nat
  OBVIOUS
<1>3. \A j \in S : ~(j < i)
  BY <1>1, <1>2, Zenon DEF OpToRel
<1>4. \A j \in S : i <= j
  BY <1>2, <1>3
<1>. QED
  BY <1>4, Zenon DEF First

\* The line that counts is the one no line of the user comes before.
LEMMA FirstIs ==
  ASSUME NEW S, NEW i, S \subseteq Nat, i \in S, \A j \in S : i <= j
  PROVE  First(S) = i
<1>1. First(S) \in S /\ \A j \in S : First(S) <= j
  BY FirstIsLeast
<1>2. First(S) \in Nat /\ i \in Nat /\ First(S) <= i /\ i <= First(S)
  BY <1>1
<1>. QED
  BY <1>2

\* Rewriting the file for one user changes what it says of that user, and of
\* nobody else.
LEMMA LookupRewrite ==
  ASSUME NEW s \in Seq(Entry), NEW u \in Users, NEW h \in Hashes, NEW v \in Users
  PROVE  Lookup(Rewrite(s, u, h), v) = IF v = u THEN h ELSE Lookup(s, v)
<1> DEFINE c == [i \in 1..Len(s) |-> CopyOf(s[i], u, h)]
           t == Rewrite(s, u, h)
<1>1. /\ c \in Seq(Entry) /\ Len(c) = Len(s)
      /\ \A i \in 1..Len(s) : c[i].name = s[i].name
      /\ \A i \in 1..Len(s) : c[i].hash = IF s[i].name = u THEN h ELSE s[i].hash
  <2>1. \A i \in 1..Len(s) : c[i] = CopyOf(s[i], u, h) /\ c[i] \in Entry /\ s[i] \in Entry
    BY CopyOfType
  <2>2. c \in Seq(Entry) /\ Len(c) = Len(s)
    BY CopyOfType
  <2>. QED
    BY <2>1, <2>2 DEF CopyOf, NewLine
<1>2. Lines(c, v) = Lines(s, v)
  BY <1>1 DEF Lines
<1>3. Lines(s, v) \subseteq Nat
  BY DEF Lines
<1>. HIDE DEF c
<1>4. CASE Lines(s, u) # {}
  <2>1. t = c
    BY <1>4 DEF Rewrite, c
  <2>2. CASE Lines(s, v) = {}
    BY <1>2, <1>4, <2>1, <2>2 DEF Lookup
  <2>3. CASE Lines(s, v) # {}
    <3>1. First(Lines(s, v)) \in Lines(s, v)
      BY <1>3, <2>3, FirstIsLeast
    <3>2. First(Lines(s, v)) \in 1..Len(s) /\ s[First(Lines(s, v))].name = v
      BY <3>1 DEF Lines
    <3>. QED
      BY <1>1, <1>2, <2>1, <2>3, <3>2 DEF Lookup
  <2>. QED
    BY <2>2, <2>3
<1>5. CASE Lines(s, u) = {}
  <2> DEFINE e == NewLine(u, h, DefaultTail)
  <2>1. t = Append(c, e) /\ e \in Entry
    BY <1>5, NewLineType DEF Rewrite, c
  <2>2. /\ t \in Seq(Entry) /\ Len(t) = Len(s) + 1 /\ Len(s) \in Nat
        /\ t[Len(s) + 1] = e /\ \A i \in 1..Len(s) : t[i] = c[i]
    BY <1>1, <2>1, AppendProperties
  <2>3. e.name = u /\ e.hash = h
    BY DEF NewLine
  <2>. HIDE DEF t, e
  <2>4. CASE v = u
    <3>1. Lines(t, u) = {Len(s) + 1}
      BY <1>1, <1>5, <2>2, <2>3 DEF Lines
    <3>2. First({Len(s) + 1}) = Len(s) + 1
      <4> DEFINE k == Len(s) + 1
                 S == {k}
      <4>1. S \subseteq Nat /\ k \in S /\ \A j \in S : k <= j
        BY <2>2
      <4>. HIDE DEF k, S
      <4>2. First(S) = k
        BY <4>1, FirstIs
      <4>. QED
        BY <4>2 DEF k, S
    <3>. QED
      BY <2>2, <2>3, <2>4, <3>1, <3>2 DEF Lookup, t
  <2>5. CASE v # u
    <3>1. Lines(t, v) = Lines(s, v)
      BY <1>1, <2>2, <2>3, <2>5 DEF Lines
    <3>2. CASE Lines(s, v) = {}
      BY <2>5, <3>1, <3>2 DEF Lookup, t
    <3>3. CASE Lines(s, v) # {}
      <4>1. First(Lines(s, v)) \in Lines(s, v)
        BY <1>3, <3>3, FirstIsLeast
      <4>2. First(Lines(s, v)) \in 1..Len(s) /\ s[First(Lines(s, v))].name = v
        BY <4>1 DEF Lines
      <4>. QED
        BY <1>1, <2>2, <2>5, <3>1, <3>3, <4>2 DEF Lookup, t
    <3>. QED
      BY <3>2, <3>3
  <2>. QED
    BY <2>4, <2>5
<1>. QED
  BY <1>4, <1>5

-----------------------------------------------------------------------------
(* What a step leaves as it was                                            *)

\* The table is what the live file says.
LEMMA TableKept ==
  ASSUME content'[shadow'] = content[shadow]
  PROVE  table' = table
BY DEF table

\* A file a lookup has open is never written, removed or reused.
LEMMA OpenFileKept ==
  ASSUME IndInv, [Next]_vars, NEW r \in Readers, rpc[r] = "scan", rfile'[r] = rfile[r]
  PROVE  content'[rfile[r]] = content[rfile[r]]
<1> USE DEF Goto, procVars, readerVars
<1>1. /\ rfile[r] \in Inodes /\ rfile[r] # temp
      /\ content \in [Inodes -> Seq(Entry)]
  BY NoInodeAssumption DEF IndInv, Inv, ReaderInv, TypeOK
<1>2. CASE UNCHANGED vars
  BY <1>2 DEF vars
<1>3. ASSUME NEW p \in Procs, NEW u \in Users, NEW h \in Hashes, Call(p, u, h)
      PROVE  content'[rfile[r]] = content[rfile[r]]
  BY <1>3 DEF Call
<1>4. ASSUME NEW p \in Procs, Step(p)
      PROVE  content'[rfile[r]] = content[rfile[r]]
  <2>1. CASE OpenTemp(p)
    <3>1. \A i \in FreeInodes : i # rfile[r]
      BY DEF FreeInodes, Used
    <3>. QED
      BY <1>1, <2>1, <3>1 DEF OpenTemp
  <2>2. CASE CopyLine(p)
    <3>1. dst[p] = temp
      BY <2>2 DEF CopyLine, IndInv, Inv, ProcInv, CopyInProgress
    <3>. QED
      BY <1>1, <2>2, <3>1 DEF CopyLine
  <2>3. CASE FinishCopy(p)
    <3>1. dst[p] = temp
      BY <2>3 DEF FinishCopy, IndInv, Inv, ProcInv, CopyInProgress
    <3>. QED
      BY <1>1, <2>3, <3>1 DEF FinishCopy
  <2>4. CASE WriteFails(p) \/ Rename(p) \/ RenameFails(p)
    BY <1>1, <2>4 DEF WriteFails, Rename, RenameFails, Reclaim, Used
  <2>5. CASE OpenLockFile(p) \/ OpenLockFileFails(p) \/ AcquireLock(p) \/ LockBusy(p)
             \/ LockTimeout(p) \/ OpenSource(p) \/ OpenFails(p)
    BY <2>5 DEF OpenLockFile, OpenLockFileFails, Refuse, AcquireLock, LockBusy, LockTimeout,
                OpenSource, OpenFails
  <2>6. CASE Unlock(p) \/ ReturnRefused(p)
    BY <2>6 DEF Unlock, ReturnRefused
  <2>. QED
    BY <1>4, <2>1, <2>2, <2>3, <2>4, <2>5, <2>6 DEF Step
<1>5. ASSUME NEW p \in Procs, Crash(p)
      PROVE  content'[rfile[r]] = content[rfile[r]]
  BY <1>1, <1>5 DEF Crash, Reclaim, Used
<1>6. ASSUME NEW x \in Readers, (\E u \in Users : OpenRead(x, u) \/ OpenReadFails(x, u)) \/ ReadStep(x)
      PROVE  content'[rfile[r]] = content[rfile[r]]
  <2>1. CASE \E u \in Users : OpenRead(x, u) \/ OpenReadFails(x, u)
    BY <2>1 DEF OpenRead, OpenReadFails
  <2>2. CASE SkipLine(x) \/ ReturnHash(x)
    BY <2>2 DEF SkipLine, ReturnHash
  <2>3. CASE EndRead(x)
    BY <1>1, <2>3 DEF EndRead, Reclaim, Used
  <2>. QED
    BY <1>6, <2>1, <2>2, <2>3 DEF ReadStep
<1>. QED
  BY <1>2, <1>3, <1>4, <1>5, <1>6 DEF Next

\* A lookup that takes no part in the step is going to return what it was.
LEMMA WillSeeKept ==
  ASSUME IndInv, [Next]_vars, NEW r \in Readers,
         rpc'[r] = rpc[r], rfile'[r] = rfile[r], ruser'[r] = ruser[r], rval'[r] = rval[r]
  PROVE  willSee'[r] = willSee[r]
<1>1. CASE rpc[r] = "scan"
  BY <1>1, OpenFileKept DEF willSee
<1>2. CASE rpc[r] # "scan"
  BY <1>2 DEF willSee
<1>. QED
  BY <1>1, <1>2

\* No update touches a lookup.
LEMMA LookupsKept ==
  ASSUME IndInv, [Next]_vars, UNCHANGED readerVars
  PROVE  willSee' = willSee /\ reading' = reading
<1>1. UNCHANGED <<rpc, rfile, ruser, rval>>
  BY DEF readerVars
<1>2. \A r \in Readers : willSee'[r] = willSee[r]
  BY <1>1, WillSeeKept
<1>3. willSee' = willSee
  BY <1>2 DEF willSee
<1>. QED
  BY <1>1, <1>3 DEF reading

\* A step of one process is a step of its status alone.
LEMMA StatusOfOne ==
  ASSUME NEW p \in Procs, \A q \in Procs \ {p} : pc'[q] = pc[q] /\ rc'[q] = rc[q]
  PROVE  status' = [status EXCEPT ![p] = status'[p]]
BY DEF status

\* The table changes only when a rename succeeds.
LEMMA Unpublished ==
  ASSUME IndInv, [Next]_vars,
         \A q \in Procs : pc[q] = "rename" => pc'[q] # "unlock" \/ rc'[q] # "ok"
  PROVE  table' = table
<1>1. \A q \in Procs : ~Rename(q)
  BY DEF Rename, Goto, IndInv, TypeOK
<1>. QED
  BY <1>1, OnlyRenamePublishes, TableKept

-----------------------------------------------------------------------------
(* Each step is a step of the promise, or none                             *)

\* The call is the promise's Begin.
LEMMA CallMaps ==
  ASSUME IndInv, NEW p \in Procs, NEW u \in Users, NEW h \in Hashes, Call(p, u, h)
  PROVE  Promise!Begin(p, u, h)
<1>1. [Next]_vars
  BY DEF Next
<1>2. pc[p] = "idle" /\ pc' = [pc EXCEPT ![p] = "open_lock"] /\ rc' = rc
  BY DEF Call, Goto
<1>3. table' = table
  BY <1>1, <1>2, Unpublished DEF IndInv, TypeOK
<1>4. willSee' = willSee /\ reading' = reading
  BY <1>1, LookupsKept DEF Call
<1>5. status[p] = "idle" /\ status'[p] = "pending"
  BY <1>2 DEF status, IndInv, TypeOK
<1>6. status' = [status EXCEPT ![p] = "pending"]
  BY <1>2, <1>5, StatusOfOne DEF IndInv, TypeOK
<1>. QED
  BY <1>3, <1>4, <1>5, <1>6 DEF Promise!Begin, Call

\* Locking, opening and copying are none of the caller's business.
LEMMA WorkMaps ==
  ASSUME IndInv, NEW p \in Procs,
         \/ OpenLockFile(p) \/ AcquireLock(p) \/ LockBusy(p) \/ OpenSource(p)
         \/ OpenTemp(p) \/ CopyLine(p) \/ FinishCopy(p)
  PROVE  UNCHANGED Promise!vars
<1> USE DEF OpenLockFile, AcquireLock, LockBusy, OpenSource, OpenTemp, CopyLine, FinishCopy, Goto
<1>1. [Next]_vars
  BY DEF Next, Step
<1>2. /\ pc[p] \in PCs \ {"idle", "unlock", "refused"}
      /\ pc'[p] \in PCs \ {"idle", "unlock", "refused"}
      /\ \A q \in Procs \ {p} : pc'[q] = pc[q]
      /\ UNCHANGED <<rc, user, hash, readerVars>>
  BY DEF IndInv, TypeOK, PCs
<1>3. table' = table
  BY <1>1, <1>2, Unpublished DEF IndInv, Inv, ProcInv
<1>4. willSee' = willSee /\ reading' = reading
  BY <1>1, <1>2, LookupsKept
<1>5. status' = status
  BY <1>2 DEF status, PCs
<1>. QED
  BY <1>2, <1>3, <1>4, <1>5 DEF Promise!vars

\* Whatever fails, the call has left no trace.
LEMMA FailureMaps ==
  ASSUME IndInv, NEW p \in Procs,
         \/ OpenLockFileFails(p) \/ LockTimeout(p) \/ OpenFails(p) \/ WriteFails(p)
         \/ RenameFails(p)
  PROVE  Promise!Refuse(p)
<1> USE DEF OpenLockFileFails, LockTimeout, Refuse, OpenFails, WriteFails, RenameFails, Goto
<1>1. [Next]_vars
  BY DEF Next, Step
<1>2. /\ pc[p] \in {"open_lock", "lock", "open_src", "open_dst", "copy", "rename"}
      /\ pc'[p] \in {"refused", "unlock"}
      /\ \A q \in Procs \ {p} : pc'[q] = pc[q]
      /\ UNCHANGED <<rc, user, hash, readerVars>>
  BY DEF IndInv, TypeOK, PCs
<1>3. \A q \in Procs : pc[q] # "unlock" => rc[q] = "fail"
  BY DEF IndInv, Inv, ProcInv
<1>4. table' = table
  BY <1>1, <1>2, <1>3, Unpublished
<1>5. willSee' = willSee /\ reading' = reading
  BY <1>1, <1>2, LookupsKept
<1>6. status[p] = "pending" /\ status'[p] = "refused"
  BY <1>2, <1>3 DEF status
<1>7. status' = [status EXCEPT ![p] = "refused"]
  BY <1>2, <1>6, StatusOfOne
<1>. QED
  BY <1>2, <1>4, <1>5, <1>6, <1>7 DEF Promise!Refuse

\* The rename is the instant of the update.
LEMMA RenameMaps ==
  ASSUME IndInv, NEW p \in Procs, Rename(p)
  PROVE  Promise!Apply(p)
<1>1. [Next]_vars
  BY DEF Next, Step
<1>2. /\ pc[p] = "rename" /\ pc'[p] = "unlock" /\ rc'[p] = "ok"
      /\ \A q \in Procs \ {p} : pc'[q] = pc[q] /\ rc'[q] = rc[q]
      /\ UNCHANGED <<user, hash, readerVars>>
  BY DEF Rename, Goto, IndInv, TypeOK
<1>3. /\ content[temp] = Rewrite(content[shadow], user[p], hash[p])
      /\ user[p] \in Users /\ hash[p] \in Hashes /\ content[shadow] \in Seq(Entry)
  BY <1>2 DEF IndInv, Inv, ProcInv, CopyComplete, TypeOK
<1>4. content'[shadow'] = content[temp]
  BY DEF Rename, Reclaim, Used, IndInv, TypeOK
<1>5. table' = [table EXCEPT ![user[p]] = hash[p]]
  <2>1. \A v \in Users : Lookup(content'[shadow'], v)
                           = IF v = user[p] THEN hash[p] ELSE Lookup(content[shadow], v)
    BY <1>3, <1>4, LookupRewrite
  <2>. QED
    BY <2>1 DEF table
<1>6. willSee' = willSee /\ reading' = reading
  BY <1>1, <1>2, LookupsKept
<1>7. status[p] = "pending" /\ status'[p] = "applied"
  BY <1>2 DEF status
<1>8. status' = [status EXCEPT ![p] = "applied"]
  BY <1>2, <1>7, StatusOfOne
<1>. QED
  BY <1>2, <1>5, <1>6, <1>7, <1>8 DEF Promise!Apply

\* The return is the promise's Return: 0 exactly when the update happened.
LEMMA ReturnMaps ==
  ASSUME IndInv, NEW p \in Procs, Unlock(p) \/ ReturnRefused(p)
  PROVE  Promise!Return(p)
<1> USE DEF Unlock, ReturnRefused, DropFrame, Goto
<1>1. [Next]_vars
  BY DEF Next, Step
<1>2. /\ pc[p] \in {"unlock", "refused"} /\ pc'[p] = "idle"
      /\ \A q \in Procs \ {p} : pc'[q] = pc[q] /\ rc'[q] = rc[q]
      /\ UNCHANGED readerVars
  BY DEF IndInv, TypeOK
<1>3. table' = table
  BY <1>1, <1>2, Unpublished
<1>4. willSee' = willSee /\ reading' = reading
  BY <1>1, <1>2, LookupsKept
<1>5. status[p] \in {"applied", "refused"} /\ status'[p] = "idle"
  BY <1>2 DEF status, IndInv, TypeOK
<1>6. status' = [status EXCEPT ![p] = "idle"]
  BY <1>2, <1>5, StatusOfOne
<1>. QED
  BY <1>3, <1>4, <1>5, <1>6 DEF Promise!Return, Promise!End

\* Wherever the process is killed, its update has happened or has not.
LEMMA CrashMaps ==
  ASSUME IndInv, NEW p \in Procs, Crash(p)
  PROVE  Promise!Die(p)
<1> USE DEF Crash, DropFrame
<1>1. [Next]_vars
  BY DEF Next
<1>2. /\ pc[p] # "idle" /\ pc'[p] = "idle"
      /\ \A q \in Procs \ {p} : pc'[q] = pc[q] /\ rc'[q] = rc[q]
      /\ UNCHANGED readerVars
  BY DEF IndInv, TypeOK
<1>3. table' = table
  BY <1>1, <1>2, Unpublished
<1>4. willSee' = willSee /\ reading' = reading
  BY <1>1, <1>2, LookupsKept
<1>5. status[p] # "idle" /\ status'[p] = "idle"
  BY <1>2 DEF status, IndInv, TypeOK
<1>6. status' = [status EXCEPT ![p] = "idle"]
  BY <1>2, <1>5, StatusOfOne
<1>. QED
  BY <1>3, <1>4, <1>5, <1>6 DEF Promise!Die, Promise!End

\* No lookup touches the table or a call.
LEMMA CallsKept ==
  ASSUME IndInv, [Next]_vars, UNCHANGED procVars
  PROVE  table' = table /\ status' = status /\ UNCHANGED <<user, hash>>
<1>1. UNCHANGED <<pc, rc, user, hash>>
  BY DEF procVars
<1>2. table' = table
  BY <1>1, Unpublished
<1>3. status' = status
  BY <1>1 DEF status
<1>. QED
  BY <1>1, <1>2, <1>3

\* A step of one reader is a step of its lookup alone.
LEMMA WillSeeOfOne ==
  ASSUME IndInv, [Next]_vars, NEW r \in Readers,
         \A x \in Readers \ {r} : /\ rpc'[x] = rpc[x] /\ rfile'[x] = rfile[x]
                                  /\ ruser'[x] = ruser[x] /\ rval'[x] = rval[x]
  PROVE  willSee' = [willSee EXCEPT ![r] = willSee'[r]]
<1>1. \A x \in Readers \ {r} : willSee'[x] = willSee[x]
  BY WillSeeKept
<1>. QED
  BY <1>1 DEF willSee

\* A lookup is settled by the file it opens.
LEMMA OpenReadMaps ==
  ASSUME IndInv, NEW r \in Readers, NEW u \in Users, OpenRead(r, u)
  PROVE  Promise!BeginRead(r, u)
<1> USE DEF OpenRead
<1>1. [Next]_vars
  BY DEF Next
<1>2. /\ rpc[r] = "idle" /\ rpc'[r] = "scan" /\ rfile'[r] = shadow /\ ruser'[r] = u
      /\ content' = content
      /\ \A x \in Readers \ {r} : /\ rpc'[x] = rpc[x] /\ rfile'[x] = rfile[x]
                                  /\ ruser'[x] = ruser[x] /\ rval'[x] = rval[x]
  BY DEF IndInv, TypeOK
<1>3. table' = table /\ status' = status /\ UNCHANGED <<user, hash>>
  BY <1>1, CallsKept
<1>4. willSee'[r] = table[u]
  BY <1>2 DEF willSee, table
<1>5. willSee' = [willSee EXCEPT ![r] = table[u]]
  BY <1>1, <1>2, <1>4, WillSeeOfOne
<1>6. reading[r] = "no" /\ reading' = [reading EXCEPT ![r] = "yes"]
  BY <1>2 DEF reading
<1>. QED
  BY <1>3, <1>5, <1>6 DEF Promise!BeginRead

\* One that cannot open it finds nothing.
LEMMA OpenReadFailsMaps ==
  ASSUME IndInv, NEW r \in Readers, NEW u \in Users, OpenReadFails(r, u)
  PROVE  Promise!BeginReadFails(r)
<1> USE DEF OpenReadFails
<1>1. [Next]_vars
  BY DEF Next
<1>2. /\ rpc[r] = "idle" /\ rpc'[r] = "failed" /\ rval'[r] = NoHash
      /\ \A x \in Readers \ {r} : /\ rpc'[x] = rpc[x] /\ rfile'[x] = rfile[x]
                                  /\ ruser'[x] = ruser[x] /\ rval'[x] = rval[x]
  BY DEF IndInv, Inv, ReaderInv, TypeOK
<1>3. table' = table /\ status' = status /\ UNCHANGED <<user, hash>>
  BY <1>1, CallsKept
<1>4. willSee'[r] = NoHash
  BY <1>2 DEF willSee
<1>5. willSee' = [willSee EXCEPT ![r] = NoHash]
  BY <1>1, <1>2, <1>4, WillSeeOfOne
<1>6. reading[r] = "no" /\ reading' = [reading EXCEPT ![r] = "failed"]
  BY <1>2 DEF reading
<1>. QED
  BY <1>3, <1>5, <1>6 DEF Promise!BeginReadFails

\* What a lookup finds at its line is what the whole file says.
LEMMA FoundIsLookup ==
  ASSUME IndInv, NEW r \in Readers, EndRead(r)
  PROVE  rval'[r] = Lookup(content[rfile[r]], ruser[r])
<1> DEFINE s == content[rfile[r]]
           k == rpos[r] + 1
           L == Lines(s, ruser[r])
<1>1. /\ rpc[r] = "scan" /\ rfile[r] \in Inodes /\ s \in Seq(Entry) /\ rpos[r] \in Nat
      /\ rval[r] = NoHash
      /\ \A i \in 1..rpos[r] : s[i].name # ruser[r]
      /\ rval \in [Readers -> Hashes \cup {NoHash}]
  BY DEF EndRead, IndInv, Inv, ReaderInv, TypeOK
<1>2. Len(s) \in Nat /\ L \subseteq Nat
  BY <1>1 DEF Lines
<1>3. \A i \in L : i \in 1..Len(s) /\ s[i].name = ruser[r] /\ i > rpos[r]
  BY <1>1, <1>2 DEF Lines
<1>4. CASE rpos[r] >= Len(s) /\ rval' = rval
  <2>1. L = {}
    BY <1>1, <1>2, <1>3, <1>4
  <2>. QED
    BY <1>1, <1>4, <2>1 DEF Lookup
<1>5. CASE rpos[r] < Len(s) /\ s[k].name = ruser[r] /\ rval' = [rval EXCEPT ![r] = s[k].hash]
  <2>1. k \in L
    BY <1>1, <1>2, <1>5 DEF Lines
  <2>2. \A i \in L : k <= i
    BY <1>1, <1>2, <1>3
  <2>3. First(L) = k
    <3>. HIDE DEF L, k
    <3>. QED
      BY <1>2, <2>1, <2>2, FirstIs
  <2>. QED
    BY <1>1, <1>5, <2>1, <2>3 DEF Lookup
<1>. QED
  BY <1>4, <1>5 DEF EndRead

\* Reading the lines is none of the caller's business.
LEMMA ScanMaps ==
  ASSUME IndInv, NEW r \in Readers, SkipLine(r) \/ EndRead(r)
  PROVE  UNCHANGED Promise!vars
<1>1. [Next]_vars
  BY DEF Next, ReadStep
<1>2. /\ rpc[r] = "scan" /\ rpc'[r] \in {"scan", "done"}
      /\ \A x \in Readers \ {r} : /\ rpc'[x] = rpc[x] /\ rfile'[x] = rfile[x]
                                  /\ ruser'[x] = ruser[x] /\ rval'[x] = rval[x]
      /\ UNCHANGED procVars
  BY DEF SkipLine, EndRead, IndInv, TypeOK
<1>3. table' = table /\ status' = status /\ UNCHANGED <<user, hash>>
  BY <1>1, <1>2, CallsKept
<1>4. willSee'[r] = willSee[r]
  <2>1. CASE SkipLine(r)
    BY <1>1, <2>1, WillSeeKept DEF SkipLine
  <2>2. CASE EndRead(r)
    <3>1. rpc'[r] = "done"
      BY <2>2 DEF EndRead, IndInv, TypeOK
    <3>. QED
      BY <1>2, <2>2, <3>1, FoundIsLookup DEF willSee
  <2>. QED
    BY <2>1, <2>2
<1>5. willSee' = willSee
  <2>1. \A x \in Readers : willSee'[x] = willSee[x]
    BY <1>1, <1>2, <1>4, WillSeeKept
  <2>. QED
    BY <2>1 DEF willSee
<1>6. reading' = reading
  BY <1>2 DEF reading
<1>. QED
  BY <1>3, <1>5, <1>6 DEF Promise!vars

\* The lookup returns what it settled on when it began.
LEMMA ReturnHashMaps ==
  ASSUME IndInv, NEW r \in Readers, ReturnHash(r)
  PROVE  Promise!EndRead(r)
<1> USE DEF ReturnHash
<1>1. [Next]_vars
  BY DEF Next, ReadStep
<1>2. /\ rpc[r] \in {"done", "failed"} /\ rpc'[r] = "idle" /\ rval'[r] = NoHash
      /\ \A x \in Readers \ {r} : /\ rpc'[x] = rpc[x] /\ rfile'[x] = rfile[x]
                                  /\ ruser'[x] = ruser[x] /\ rval'[x] = rval[x]
  BY DEF IndInv, TypeOK
<1>3. table' = table /\ status' = status /\ UNCHANGED <<user, hash>>
  BY <1>1, CallsKept
<1>4. willSee'[r] = NoHash
  BY <1>2 DEF willSee
<1>5. willSee' = [willSee EXCEPT ![r] = NoHash]
  BY <1>1, <1>2, <1>4, WillSeeOfOne
<1>6. reading[r] \in {"yes", "failed"} /\ reading' = [reading EXCEPT ![r] = "no"]
  BY <1>2 DEF reading
<1>. QED
  BY <1>3, <1>5, <1>6 DEF Promise!EndRead

-----------------------------------------------------------------------------
(* The refinement                                                          *)

\* The file the system boots with is a table no call is using.
LEMMA InitMaps ==
  ASSUME Init
  PROVE  Promise!Init
<1>1. content[shadow] \in Seq(Entry)
  BY InitIndInv DEF IndInv, TypeOK
<1>2. ASSUME NEW u \in Users
      PROVE  Lookup(content[shadow], u) \in Hashes \cup {NoHash}
  <2> DEFINE s == content[shadow]
             L == Lines(s, u)
  <2>1. CASE L = {}
    BY <2>1 DEF Lookup
  <2>2. CASE L # {}
    <3>1. L \subseteq Nat /\ L \subseteq 1..Len(s)
      BY <1>1 DEF Lines
    <3>2. First(L) \in L
      <4>. HIDE DEF L
      <4>. QED
        BY <2>2, <3>1, FirstIsLeast
    <3>3. s[First(L)] \in Entry
      BY <1>1, <3>1, <3>2
    <3>. QED
      BY <2>2, <3>3 DEF Lookup, Entry
  <2>. QED
    BY <2>1, <2>2
<1>3. table \in [Users -> Hashes \cup {NoHash}]
  BY <1>2 DEF table
<1>4. status = [p \in Procs |-> "idle"]
  BY DEF Init, status
<1>5. willSee = [r \in Readers |-> NoHash]
  BY DEF Init, willSee
<1>6. reading = [r \in Readers |-> "no"]
  BY DEF Init, reading
<1>. QED
  BY <1>3, <1>4, <1>5, <1>6 DEF Init, Promise!Init

\* Every step of the program is a step of the promise, or changes nothing in it.
LEMMA StepMaps == IndInv /\ [Next]_vars => [Promise!Next]_(Promise!vars)
<1> SUFFICES ASSUME IndInv, [Next]_vars PROVE [Promise!Next]_(Promise!vars)
  OBVIOUS
<1>1. CASE UNCHANGED vars
  <2>1. UNCHANGED <<content, shadow, pc, rc, user, hash, rpc, rfile, ruser, rval>>
    BY <1>1 DEF vars
  <2>2. table' = table /\ status' = status /\ willSee' = willSee
    BY <2>1 DEF table, status, willSee
  <2>3. reading' = reading
    BY <2>1 DEF reading
  <2>. QED
    BY <2>1, <2>2, <2>3 DEF Promise!vars
<1>2. ASSUME NEW p \in Procs, NEW u \in Users, NEW h \in Hashes, Call(p, u, h)
      PROVE  Promise!Next
  BY <1>2, CallMaps DEF Promise!Next
<1>3. ASSUME NEW p \in Procs, Step(p)
      PROVE  [Promise!Next]_(Promise!vars)
  <2>1. CASE \/ OpenLockFile(p) \/ AcquireLock(p) \/ LockBusy(p) \/ OpenSource(p)
             \/ OpenTemp(p) \/ CopyLine(p) \/ FinishCopy(p)
    BY <2>1, WorkMaps
  <2>2. CASE \/ OpenLockFileFails(p) \/ LockTimeout(p) \/ OpenFails(p) \/ WriteFails(p)
             \/ RenameFails(p)
    BY <2>2, FailureMaps DEF Promise!Next
  <2>3. CASE Rename(p)
    BY <2>3, RenameMaps DEF Promise!Next
  <2>4. CASE Unlock(p) \/ ReturnRefused(p)
    BY <2>4, ReturnMaps DEF Promise!Next
  <2>. QED
    BY <1>3, <2>1, <2>2, <2>3, <2>4 DEF Step
<1>4. ASSUME NEW p \in Procs, Crash(p)
      PROVE  Promise!Next
  BY <1>4, CrashMaps DEF Promise!Next
<1>5. ASSUME NEW r \in Readers, NEW u \in Users, OpenRead(r, u) \/ OpenReadFails(r, u)
      PROVE  Promise!Next
  BY <1>5, OpenReadMaps, OpenReadFailsMaps DEF Promise!Next
<1>6. ASSUME NEW r \in Readers, ReadStep(r)
      PROVE  [Promise!Next]_(Promise!vars)
  BY <1>6, ScanMaps, ReturnHashMaps DEF ReadStep, Promise!Next
<1>. QED
  BY <1>1, <1>2, <1>3, <1>4, <1>5, <1>6 DEF Next

\* For any number of processes and readers, any users and any initial file, the
\* program is a table whose updates happen at one instant, whichever of the calls
\* modelled here fails and whoever is killed: a call returns 0 exactly when its
\* update happened, a lookup that could open the file returns what the table held
\* at that moment, and one that could not returns -1.
THEOREM Refinement == Spec => ImplementsAtomicShadow
<1>1. Init => Promise!Init
  BY InitMaps
<1>2. IndInv /\ [Next]_vars => [Promise!Next]_(Promise!vars)
  BY StepMaps
<1>. QED
  BY <1>1, <1>2, IndInvAlways, PTL DEF Spec, ImplementsAtomicShadow, Promise!Spec

=============================================================================
