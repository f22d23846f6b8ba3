--------------------------- MODULE AccountAdminProofs ---------------------------
(***************************************************************************)
(* Any number of adders beside any number of passwd processes, none of     *)
(* them under the other's lock: what an account is never changes, no name  *)
(* is in /etc/shadow or a group without its account, and no append takes a *)
(* user's hash.                                                            *)
(***************************************************************************)
EXTENDS AccountAdmin, ShadowRefinementProofs

-----------------------------------------------------------------------------
(* The inductive invariant                                                 *)

\* An update of a passwd process works on inodes it has open, the copy among
\* them, for a user who has an account.  What is in the copy is not said: an
\* adder may append to the file it is made from.
WorkOK(p) ==
  /\ pc[p] # "idle" => user[p] \in Users /\ hash[p] \in Hashes /\ user[p] \in Names(passwd)
  /\ pc[p] \in {"open_dst", "copy"} => src[p] \in Inodes
  /\ pc[p] = "copy" => dst[p] = temp /\ temp # NoInode

\* What the lock still guarantees when adders write without it.
ShadowOK ==
  /\ TypeOK
  /\ LockHeldInCritical
  /\ temp # shadow
  /\ \A p \in Procs : WorkOK(p)

\* An adder past a point of main has what it got there, and past the append to
\* /etc/passwd its user has an account.
AdderOK(a) ==
  /\ apc[a] # "idle" => auser[a] \in ValidUsers
  /\ apc[a] \notin {"idle", "prompt"} => ahash[a] \in Hashes
  /\ apc[a] \notin {"idle", "prompt", "passwd"} => auser[a] \in Names(passwd)
  /\ apc[a] = "shadow" => asrc[a] \in Inodes
  /\ apc[a] = "write" => gdst[a] \in GroupFiles

\* Every inode, live or being written or already replaced, names accounts only.
ShadowsNested == \A i \in Inodes : Names(content[i]) \subseteq Names(passwd)
GroupsNested  == \A f \in GroupFiles : \A m \in gdata[f] : m[2] \in Names(passwd)

AdminInv ==
  /\ ShadowOK
  /\ AdminTypeOK
  /\ \A a \in Adders : AdderOK(a)
  /\ ShadowsNested
  /\ GroupsNested

-----------------------------------------------------------------------------
(* Lines and names                                                         *)

\* An appended line adds its name.
LEMMA NamesAppend ==
  ASSUME NEW T, NEW s \in Seq(T), NEW e \in T
  PROVE  Names(Append(s, e)) = Names(s) \cup {e.name}
<1>1. PICK t : t = Append(s, e)
  OBVIOUS
<1>2. PICK n : n = Len(s) + 1
  OBVIOUS
<1>3. /\ t[n] = e /\ \A i \in DOMAIN s : t[i] = s[i]
      /\ DOMAIN t = DOMAIN s \cup {n}
  BY <1>1, <1>2
<1>4. Names(t) \subseteq Names(s) \cup {e.name}
  BY <1>3 DEF Names
<1>5. Names(s) \subseteq Names(t) /\ e.name \in Names(t)
  BY <1>3 DEF Names
<1>. QED
  BY <1>1, <1>4, <1>5

\* An empty file names nobody.
LEMMA NamesEmpty == Names(<<>>) = {}
BY DEF Names

\* A turn of the copy loop keeps the name.
LEMMA CopyOfName ==
  ASSUME NEW e, NEW u, NEW h
  PROVE  CopyOf(e, u, h).name = e.name
BY DEF CopyOf, NewLine

\* The names of a file are users.
LEMMA LineNames ==
  ASSUME NEW s \in Seq(Entry), NEW k \in 1..Len(s)
  PROVE  s[k] \in Entry /\ s[k].name \in Names(s)
BY DEF Names

\* An appended line does not change the first line of a name that has one.
LEMMA FirstAppend ==
  ASSUME NEW T, NEW s \in Seq(T), NEW e \in T, NEW u, u \in Names(s)
  PROVE  /\ Lines(s, u) # {} /\ Lines(Append(s, e), u) # {}
         /\ First(Lines(s, u)) \in 1..Len(s)
         /\ First(Lines(Append(s, e), u)) = First(Lines(s, u))
         /\ Append(s, e)[First(Lines(s, u))] = s[First(Lines(s, u))]
<1> DEFINE t == Append(s, e)
           k == First(Lines(s, u))
<1>1. /\ Len(t) = Len(s) + 1 /\ Len(s) \in Nat
      /\ \A i \in 1..Len(s) : t[i] = s[i]
      /\ DOMAIN s = 1..Len(s)
  OBVIOUS
<1>2. Lines(s, u) \subseteq Nat /\ Lines(t, u) \subseteq Nat /\ Lines(s, u) # {}
  BY <1>1 DEF Lines, Names
<1>3. k \in Lines(s, u) /\ \A j \in Lines(s, u) : k <= j
  BY <1>2, FirstIsLeast
<1>4. k \in 1..Len(s) /\ k \in Lines(t, u)
  BY <1>1, <1>3 DEF Lines
<1>. HIDE DEF k
<1>5. \A j \in Lines(t, u) : k <= j
  <2> SUFFICES ASSUME NEW j \in Lines(t, u) PROVE k <= j
    OBVIOUS
  <2>1. CASE j \in 1..Len(s)
    BY <1>1, <1>3, <2>1 DEF Lines
  <2>2. CASE j \notin 1..Len(s)
    BY <1>1, <1>4, <2>2 DEF Lines
  <2>. QED
    BY <2>1, <2>2
<1>6. First(Lines(t, u)) = k
  BY <1>2, <1>4, <1>5, FirstIs
<1>. QED
  BY <1>1, <1>2, <1>4, <1>6 DEF k

-----------------------------------------------------------------------------
(* A step of a passwd process                                              *)

\* The step of p, its end by kill included.
Working(p) == Step(p) \/ Crash(p)

\* A process keeps every variable in its range.
LEMMA WorkingTypes ==
  ASSUME ShadowOK, NEW p \in Procs, Working(p)
  PROVE  TypeOK'
<1> USE MaxTriesAssumption, NoInodeAssumption, NoProcAssumption DEF readerVars
<1>1. CASE OpenLockFile(p)
  BY <1>1 DEF ShadowOK, WorkOK, TypeOK, PCs, OpenLockFile, Goto
<1>2. CASE OpenLockFileFails(p)
  BY <1>2 DEF ShadowOK, WorkOK, TypeOK, PCs, OpenLockFileFails, Goto, Refuse
<1>3. CASE AcquireLock(p)
  BY <1>3 DEF ShadowOK, WorkOK, TypeOK, PCs, AcquireLock, Goto
<1>4. CASE LockBusy(p)
  BY <1>4 DEF ShadowOK, WorkOK, TypeOK, PCs, LockBusy
<1>5. CASE LockTimeout(p)
  BY <1>5 DEF ShadowOK, WorkOK, TypeOK, PCs, LockTimeout, Goto, Refuse
<1>6. CASE OpenSource(p)
  BY <1>6 DEF ShadowOK, WorkOK, TypeOK, PCs, OpenSource, Goto
<1>7. CASE OpenFails(p)
  BY <1>7 DEF ShadowOK, WorkOK, TypeOK, PCs, OpenFails, Goto
<1>8. CASE OpenTemp(p)
  BY <1>8 DEF ShadowOK, WorkOK, TypeOK, PCs, OpenTemp, Goto, FreeInodes, Used
<1>9. CASE CopyLine(p)
  <2> DEFINE e == content[src[p]][pos[p] + 1]
             d == CopyOf(e, user[p], hash[p])
  <2>1. /\ user[p] \in Users /\ hash[p] \in Hashes /\ src[p] \in Inodes
        /\ dst[p] \in Inodes /\ pos[p] \in Nat
        /\ content[src[p]] \in Seq(Entry) /\ content[dst[p]] \in Seq(Entry)
    BY <1>9 DEF ShadowOK, WorkOK, TypeOK, CopyLine
  <2>2. e \in Entry
    BY <1>9, <2>1 DEF CopyLine
  <2>3. d \in Entry
    BY <2>1, <2>2, CopyOfType
  <2>4. Append(content[dst[p]], d) \in Seq(Entry)
    BY <2>1, <2>3
  <2>5. content' = [content EXCEPT ![dst[p]] = Append(@, d)]
    BY <1>9 DEF CopyLine
  <2>. HIDE DEF d, e
  <2>6. content' \in [Inodes -> Seq(Entry)]
    BY <2>1, <2>4, <2>5 DEF ShadowOK, TypeOK
  <2>7. found' \in [Procs -> BOOLEAN]
    BY <1>9 DEF ShadowOK, TypeOK, CopyLine
  <2>. QED
    BY <1>9, <2>6, <2>7 DEF ShadowOK, TypeOK, CopyLine
<1>10. CASE FinishCopy(p)
  <2> DEFINE e == NewLine(user[p], hash[p], DefaultTail)
  <2>1. /\ user[p] \in Users /\ hash[p] \in Hashes /\ dst[p] \in Inodes
        /\ content[dst[p]] \in Seq(Entry)
    BY <1>10 DEF ShadowOK, WorkOK, TypeOK, FinishCopy, Goto
  <2>2. Append(content[dst[p]], e) \in Seq(Entry)
    BY <2>1, NewLineType
  <2>3. content' = [content EXCEPT ![dst[p]] = IF found[p] THEN @ ELSE Append(@, e)]
    BY <1>10 DEF FinishCopy
  <2>. HIDE DEF e
  <2>4. content' \in [Inodes -> Seq(Entry)]
    BY <2>1, <2>2, <2>3 DEF ShadowOK, TypeOK
  <2>. QED
    BY <1>10, <2>4 DEF ShadowOK, TypeOK, PCs, FinishCopy, Goto
<1>11. CASE WriteFails(p)
  BY <1>11 DEF ShadowOK, WorkOK, TypeOK, PCs, WriteFails, Goto, Reclaim, Used
<1>12. CASE Rename(p)
  BY <1>12 DEF ShadowOK, WorkOK, TypeOK, PCs, Rename, Goto, Reclaim, Used
<1>13. CASE RenameFails(p)
  BY <1>13 DEF ShadowOK, WorkOK, TypeOK, PCs, RenameFails, Goto, Reclaim, Used
<1>14. CASE Unlock(p)
  BY <1>14 DEF ShadowOK, WorkOK, TypeOK, PCs, Unlock, Goto, DropFrame
<1>15. CASE ReturnRefused(p)
  BY <1>15 DEF ShadowOK, WorkOK, TypeOK, PCs, ReturnRefused, Goto, DropFrame
<1>16. CASE Crash(p)
  BY <1>16 DEF ShadowOK, WorkOK, TypeOK, PCs, Crash, DropFrame, Reclaim, Used
<1>. QED
  BY <1>1, <1>2, <1>3, <1>4, <1>5, <1>6, <1>7, <1>8, <1>9, <1>10, <1>11, <1>12, <1>13, <1>14, <1>15, <1>16 DEF Working, Step

\* A process keeps the lock, the copy apart from the live file, and every
\* other process as it was.
LEMMA WorkingKeeps ==
  ASSUME ShadowOK, NEW p \in Procs, Working(p), passwd' = passwd
  PROVE  LockHeldInCritical' /\ temp' # shadow' /\ \A q \in Procs : WorkOK(q)'
<1> USE NoInodeAssumption, NoProcAssumption DEF readerVars
<1>1. CASE OpenLockFile(p)
  BY <1>1 DEF ShadowOK, WorkOK, LockHeldInCritical, Critical, TypeOK, OpenLockFile, Goto
<1>2. CASE OpenLockFileFails(p)
  BY <1>2 DEF ShadowOK, WorkOK, LockHeldInCritical, Critical, TypeOK, OpenLockFileFails, Goto, Refuse
<1>3. CASE AcquireLock(p)
  BY <1>3 DEF ShadowOK, WorkOK, LockHeldInCritical, Critical, TypeOK, AcquireLock, Goto
<1>4. CASE LockBusy(p)
  BY <1>4 DEF ShadowOK, WorkOK, LockHeldInCritical, Critical, TypeOK, LockBusy
<1>5. CASE LockTimeout(p)
  BY <1>5 DEF ShadowOK, WorkOK, LockHeldInCritical, Critical, TypeOK, LockTimeout, Goto, Refuse
<1>6. CASE OpenSource(p)
  BY <1>6 DEF ShadowOK, WorkOK, LockHeldInCritical, Critical, TypeOK, OpenSource, Goto
<1>7. CASE OpenFails(p)
  BY <1>7 DEF ShadowOK, WorkOK, LockHeldInCritical, Critical, TypeOK, OpenFails, Goto
<1>8. CASE OpenTemp(p)
  BY <1>8 DEF ShadowOK, WorkOK, LockHeldInCritical, Critical, TypeOK, OpenTemp, Goto, FreeInodes, Used
<1>9. CASE CopyLine(p)
  BY <1>9 DEF ShadowOK, WorkOK, LockHeldInCritical, Critical, TypeOK, CopyLine
<1>10. CASE FinishCopy(p)
  BY <1>10 DEF ShadowOK, WorkOK, LockHeldInCritical, Critical, TypeOK, FinishCopy, Goto
<1>11. CASE WriteFails(p)
  BY <1>11 DEF ShadowOK, WorkOK, LockHeldInCritical, Critical, TypeOK, WriteFails, Goto, Reclaim, Used
<1>12. CASE Rename(p)
  BY <1>12 DEF ShadowOK, WorkOK, LockHeldInCritical, Critical, TypeOK, Rename, Goto, Reclaim, Used
<1>13. CASE RenameFails(p)
  BY <1>13 DEF ShadowOK, WorkOK, LockHeldInCritical, Critical, TypeOK, RenameFails, Goto, Reclaim, Used
<1>14. CASE Unlock(p)
  BY <1>14 DEF ShadowOK, WorkOK, LockHeldInCritical, Critical, TypeOK, Unlock, Goto, DropFrame
<1>15. CASE ReturnRefused(p)
  BY <1>15 DEF ShadowOK, WorkOK, LockHeldInCritical, Critical, TypeOK, ReturnRefused, Goto, DropFrame
<1>16. CASE Crash(p)
  BY <1>16 DEF ShadowOK, WorkOK, LockHeldInCritical, Critical, TypeOK, Crash, DropFrame, Reclaim, Used
<1>. QED
  BY <1>1, <1>2, <1>3, <1>4, <1>5, <1>6, <1>7, <1>8, <1>9, <1>10, <1>11, <1>12, <1>13, <1>14, <1>15, <1>16 DEF Working, Step

\* A process writes into no inode a name that has no account.
LEMMA WorkingNests ==
  ASSUME ShadowOK, ShadowsNested, NEW p \in Procs, Working(p), passwd' = passwd
  PROVE  ShadowsNested'
<1> SUFFICES ASSUME NEW i \in Inodes PROVE Names(content'[i]) \subseteq Names(passwd)
  BY DEF ShadowsNested
<1> USE DEF Goto
<1>1. Names(content[i]) \subseteq Names(passwd) /\ Names(<<>>) = {}
  BY NamesEmpty DEF ShadowsNested
<1>2. /\ content \in [Inodes -> Seq(Entry)]
      /\ pc[p] # "idle" => user[p] \in Users /\ hash[p] \in Hashes /\ user[p] \in Names(passwd)
      /\ pc[p] = "copy" => src[p] \in Inodes /\ dst[p] \in Inodes
  BY DEF ShadowOK, TypeOK, WorkOK
<1>3. CASE content'[i] = content[i] \/ content'[i] = <<>>
  BY <1>1, <1>3
<1>4. CASE CopyLine(p)
  <2> DEFINE k == pos[p] + 1
             e == content[src[p]][k]
             d == CopyOf(e, user[p], hash[p])
  <2>1. /\ user[p] \in Users /\ hash[p] \in Hashes /\ src[p] \in Inodes /\ dst[p] \in Inodes
        /\ content[src[p]] \in Seq(Entry) /\ content[dst[p]] \in Seq(Entry)
        /\ k \in 1..Len(content[src[p]])
    BY <1>2, <1>4 DEF CopyLine, ShadowOK, TypeOK
  <2>2. e \in Entry /\ e.name \in Names(content[src[p]])
    BY <2>1, LineNames
  <2>3. e.name \in Names(passwd) /\ d \in Entry /\ d.name = e.name
    BY <2>1, <2>2, CopyOfType, CopyOfName DEF ShadowsNested
  <2>4. content' = [content EXCEPT ![dst[p]] = Append(@, d)]
    BY <1>4 DEF CopyLine
  <2>. HIDE DEF d, e, k
  <2>5. Names(Append(content[dst[p]], d)) = Names(content[dst[p]]) \cup {d.name}
    BY <2>1, <2>3, NamesAppend
  <2>. QED
    BY <1>1, <1>2, <2>3, <2>4, <2>5
<1>5. CASE FinishCopy(p)
  <2> DEFINE e == NewLine(user[p], hash[p], DefaultTail)
  <2>1. /\ user[p] \in Users /\ hash[p] \in Hashes /\ user[p] \in Names(passwd)
        /\ dst[p] \in Inodes /\ content[dst[p]] \in Seq(Entry)
    BY <1>2, <1>5 DEF FinishCopy
  <2>2. e \in Entry /\ e.name = user[p]
    BY <2>1, NewLineType DEF NewLine
  <2>3. content' = [content EXCEPT ![dst[p]] = IF found[p] THEN @ ELSE Append(@, e)]
    BY <1>5 DEF FinishCopy
  <2>. HIDE DEF e
  <2>4. Names(Append(content[dst[p]], e)) = Names(content[dst[p]]) \cup {e.name}
    BY <2>1, <2>2, NamesAppend
  <2>. QED
    BY <1>1, <1>2, <2>1, <2>2, <2>3, <2>4
<1>6. CASE OpenTemp(p)
  BY <1>1, <1>2, <1>6 DEF OpenTemp
<1>7. CASE WriteFails(p) \/ Rename(p) \/ RenameFails(p) \/ Crash(p)
  BY <1>3, <1>7 DEF WriteFails, Rename, RenameFails, Crash, Reclaim
<1>8. CASE \/ OpenLockFile(p) \/ OpenLockFileFails(p)
           \/ AcquireLock(p) \/ LockBusy(p) \/ LockTimeout(p)
           \/ OpenSource(p) \/ OpenFails(p) \/ Unlock(p) \/ ReturnRefused(p)
  BY <1>3, <1>8 DEF OpenLockFile, OpenLockFileFails, AcquireLock, LockBusy, LockTimeout, Refuse,
                    OpenSource, OpenFails, Unlock, ReturnRefused
<1>. QED
  BY <1>4, <1>5, <1>6, <1>7, <1>8 DEF Working, Step

\* A process changes what /etc/shadow holds by its rename alone.
LEMMA WorkingLive ==
  ASSUME ShadowOK, NEW p \in Procs, Working(p)
  PROVE  \/ content'[shadow'] = content[shadow]
         \/ pc[p] = "rename" /\ rc'[p] = "ok"
<1> USE DEF Goto
<1>1. /\ content \in [Inodes -> Seq(Entry)] /\ shadow \in Inodes /\ temp # shadow
      /\ pc[p] = "copy" => dst[p] \in Inodes /\ dst[p] # shadow
      /\ rc \in [Procs -> {"ok", "fail"}]
  BY DEF ShadowOK, TypeOK, WorkOK
<1>2. CASE CopyLine(p) \/ FinishCopy(p)
  BY <1>1, <1>2 DEF CopyLine, FinishCopy
<1>3. CASE OpenTemp(p)
  BY <1>1, <1>3 DEF OpenTemp, FreeInodes, Used
<1>4. CASE WriteFails(p) \/ RenameFails(p) \/ Crash(p)
  BY <1>1, <1>4 DEF WriteFails, RenameFails, Crash, Reclaim, Used
<1>5. CASE Rename(p)
  BY <1>1, <1>5 DEF Rename
<1>6. CASE \/ OpenLockFile(p) \/ OpenLockFileFails(p)
           \/ AcquireLock(p) \/ LockBusy(p) \/ LockTimeout(p)
           \/ OpenSource(p) \/ OpenFails(p) \/ Unlock(p) \/ ReturnRefused(p)
  BY <1>6 DEF OpenLockFile, OpenLockFileFails, AcquireLock, LockBusy, LockTimeout, Refuse,
              OpenSource, OpenFails, Unlock, ReturnRefused
<1>. QED
  BY <1>2, <1>3, <1>4, <1>5, <1>6 DEF Working, Step

\* A call is for a user who has an account.
LEMMA ChangeKeeps ==
  ASSUME ShadowOK, NEW p \in Procs, NEW u \in Users, NEW h \in Hashes,
         ChangePassword(p, u, h), passwd' = passwd
  PROVE  ShadowOK' /\ content'[shadow'] = content[shadow] /\ content' = content
<1> USE DEF ChangePassword, Call, Goto, readerVars
<1>1. TypeOK'
  BY DEF ShadowOK, TypeOK, PCs
<1>2. LockHeldInCritical' /\ temp' # shadow'
  BY DEF ShadowOK, LockHeldInCritical, Critical, TypeOK
<1>3. \A q \in Procs : WorkOK(q)'
  BY DEF ShadowOK, WorkOK, TypeOK
<1>. QED
  BY <1>1, <1>2, <1>3 DEF ShadowOK

-----------------------------------------------------------------------------
(* A step of an adder                                                      *)

\* The numbers f takes on 1..n and a number c have a greatest among them.
LEMMA GreatestExists ==
  ASSUME NEW c \in Nat, NEW n \in Nat, NEW f, \A i \in 1..n : f[i] \in Nat
  PROVE  LET m == Max({c} \cup {f[i] : i \in 1..n})
         IN  m \in Nat /\ \A i \in 1..n : f[i] <= m
<1> DEFINE V(k) == {c} \cup {f[i] : i \in 1..k}
           Has(k) == \E x \in V(k) : \A y \in V(k) : x >= y
           Bad == {k \in 0..n : ~Has(k)}
<1>1. Has(0)
  OBVIOUS
<1>2. ASSUME NEW k \in 1..n, Has(k - 1) PROVE Has(k)
  <2>1. k - 1 \in Nat /\ 1..k = 1..(k - 1) \cup {k} /\ f[k] \in Nat
        /\ \A i \in 1..(k - 1) : f[i] \in Nat
    OBVIOUS
  <2>2. V(k) = V(k - 1) \cup {f[k]}
    BY <2>1, Zenon
  <2>3. V(k - 1) \subseteq Nat
    BY <2>1
  <2>. HIDE DEF V
  <2>4. PICK x \in V(k - 1) : \A y \in V(k - 1) : x >= y
    BY <1>2
  <2>5. x >= f[k] => \A y \in V(k) : x >= y
    BY <2>1, <2>2, <2>3, <2>4
  <2>6. ~(x >= f[k]) => \A y \in V(k) : f[k] >= y
    BY <2>1, <2>2, <2>3, <2>4
  <2>. QED
    BY <2>2, <2>4, <2>5, <2>6
<1>3. V(n) \subseteq Nat
  OBVIOUS
<1>. HIDE DEF V, Has
<1>4. Bad = {}
  <2>1. SUFFICES ASSUME Bad # {} PROVE FALSE
    OBVIOUS
  <2>2. Bad \subseteq Nat
    OBVIOUS
  <2>3. PICK k : k = First(Bad)
    OBVIOUS
  <2>. HIDE DEF Bad
  <2>4. k \in Bad /\ \A j \in Bad : k <= j
    BY <2>1, <2>2, <2>3, FirstIsLeast
  <2>5. k \in 0..n /\ ~Has(k) /\ k # 0
    BY <2>4, <1>1 DEF Bad
  <2>6. k \in 1..n /\ k - 1 \in 0..n /\ ~(k <= k - 1)
    BY <2>5
  <2>7. Has(k - 1)
    BY <2>4, <2>6 DEF Bad
  <2>. QED
    BY <1>2, <2>5, <2>6, <2>7
<1>5. Has(n)
  BY <1>4
<1>6. Max(V(n)) \in V(n) /\ \A y \in V(n) : Max(V(n)) >= y
  BY <1>5 DEF Max, Has
<1>7. PICK m : m = Max(V(n))
  OBVIOUS
<1>8. \A i \in 1..n : f[i] \in V(n)
  BY DEF V
<1>9. m \in Nat /\ \A i \in 1..n : f[i] <= m
  BY <1>3, <1>6, <1>7, <1>8
<1>. QED
  BY <1>7, <1>9 DEF V

\* next_uid finds a uid whatever the file holds, and one that no line has.
LEMMA NextUidIsNew ==
  ASSUME passwd \in Seq(Account)
  PROVE  NextUid \in Nat /\ \A i \in DOMAIN passwd : passwd[i].uid < NextUid
<1> DEFINE f == [i \in 1..Len(passwd) |-> passwd[i].uid + 1]
<1>0. /\ Len(passwd) \in Nat /\ DOMAIN passwd = 1..Len(passwd)
      /\ \A i \in 1..Len(passwd) : passwd[i] \in Account
  OBVIOUS
<1>1. /\ Len(passwd) \in Nat /\ DOMAIN passwd = 1..Len(passwd)
      /\ \A i \in 1..Len(passwd) : f[i] \in Nat
  BY <1>0 DEF Account
<1>2. {f[i] : i \in 1..Len(passwd)} = {passwd[i].uid + 1 : i \in DOMAIN passwd}
  BY <1>1
<1>3. \A i \in DOMAIN passwd : passwd[i].uid \in Nat /\ f[i] = passwd[i].uid + 1
  BY <1>0 DEF Account
<1>. HIDE DEF f
<1>4. PICK m : m = Max({FirstUid} \cup {f[i] : i \in 1..Len(passwd)})
  OBVIOUS
<1>5. m \in Nat /\ \A i \in 1..Len(passwd) : f[i] <= m
  BY <1>1, <1>4, GreatestExists, FirstUidAssumption
<1>6. NextUid = m
  BY <1>2, <1>4 DEF NextUid
<1>. QED
  BY <1>0, <1>3, <1>5, <1>6

\* /etc/passwd gains a line for the adder's user, or stays as it is.
LEMMA PasswdGrows ==
  ASSUME AdminTypeOK, NEW a \in Adders, AdderOK(a), AdderStep(a)
  PROVE  \/ passwd' = passwd
         \/ \E e \in Account : /\ passwd' = Append(passwd, e)
                                /\ e.name = auser[a]
                                /\ AppendPasswd(a)
<1>1. CASE AppendPasswd(a)
  <2> DEFINE e == [name |-> auser[a], uid |-> auid[a]]
  <2>1. e \in Account /\ e.name = auser[a] /\ passwd' = Append(passwd, e)
    BY <1>1, ValidUsersAssumption DEF AdminTypeOK, AdderOK, AppendPasswd, AGoto, Account
  <2>. QED
    BY <1>1, <2>1
<1>2. CASE ~AppendPasswd(a)
  BY <1>2 DEF AdderStep, CheckName, ChooseUid, OpenShadow, AppendShadow, OpenGroup,
              OpenGroupCopy, WriteGroupCopy, RenameGroup, ExitCreated, Abandon, GroupFails, AEnd
<1>. QED
  BY <1>1, <1>2

\* No account loses its name.
LEMMA NamesStay ==
  ASSUME AdminTypeOK, NEW a \in Adders, AdderOK(a), AdderStep(a)
  PROVE  /\ passwd' \in Seq(Account)
         /\ Names(passwd) \subseteq Names(passwd')
         /\ AppendPasswd(a) => auser[a] \in Names(passwd')
<1>1. passwd \in Seq(Account)
  BY DEF AdminTypeOK
<1>2. CASE passwd' = passwd /\ ~AppendPasswd(a)
  BY <1>1, <1>2
<1>3. ASSUME NEW e \in Account, passwd' = Append(passwd, e), e.name = auser[a]
      PROVE  /\ passwd' \in Seq(Account)
             /\ Names(passwd) \subseteq Names(passwd')
             /\ auser[a] \in Names(passwd')
  <2>1. Names(Append(passwd, e)) = Names(passwd) \cup {e.name}
    BY <1>1, NamesAppend
  <2>. QED
    BY <1>1, <1>3, <2>1
<1>4. CASE AppendPasswd(a)
  <2>1. passwd' = Append(passwd, [name |-> auser[a], uid |-> auid[a]])
    BY <1>4 DEF AppendPasswd
  <2>2. [name |-> auser[a], uid |-> auid[a]] \in Account
    BY <1>4, ValidUsersAssumption DEF AdminTypeOK, AdderOK, AppendPasswd, AGoto, Account
  <2>. QED
    BY <1>3, <2>1, <2>2
<1>. QED
  BY <1>2, <1>3, <1>4, PasswdGrows

\* The groups have numbers from 1 on.
LEMMA GroupNumbers ==
  /\ Len(Groups) \in Nat /\ 1 \in DOMAIN Groups
  /\ \A k \in DOMAIN Groups : k < Len(Groups) => k + 1 \in DOMAIN Groups
BY GroupsAssumption

\* ensure_group_member lists whom it read and perhaps the adder's user.
LEMMA WithMemberIs ==
  ASSUME NEW M, NEW g, NEW u
  PROVE  M \subseteq WithMember(M, g, u) /\ WithMember(M, g, u) \subseteq M \cup {<<g, u>>}
BY DEF WithMember

\* What an adder appends to a shadow file, and that it may also append nothing.
LEMMA AppendShadowIs ==
  ASSUME ShadowOK, AdminTypeOK, NEW a \in Adders, AdderOK(a), AppendShadow(a)
  PROVE  \E e \in Entry :
           /\ e.name = auser[a] /\ auser[a] \in Names(passwd) /\ asrc[a] \in Inodes
           /\ \/ content' = content
              \/ content' = [content EXCEPT ![asrc[a]] = Append(content[asrc[a]], e)]
<1> DEFINE e == NewLine(auser[a], ahash[a], DefaultTail)
<1>1. /\ auser[a] \in Users /\ ahash[a] \in Hashes /\ auser[a] \in Names(passwd)
      /\ asrc[a] \in Inodes
  BY ValidUsersAssumption DEF AdderOK, AppendShadow, AGoto
<1>2. e \in Entry /\ e.name = auser[a]
  BY <1>1, NewLineType DEF NewLine
<1>3. content' = [content EXCEPT ![asrc[a]] = IF asrc[a] \in Used THEN Append(@, e) ELSE @]
  BY DEF AppendShadow
<1>. HIDE DEF e
<1>4. content' = content \/ content' = [content EXCEPT ![asrc[a]] = Append(content[asrc[a]], e)]
  BY <1>1, <1>3 DEF ShadowOK, TypeOK
<1>. QED
  BY <1>1, <1>2, <1>4

\* No other step of an adder touches what ShadowUpdate is about.
LEMMA AdderElsewhere ==
  ASSUME NEW a \in Adders, AdderStep(a), ~AppendShadow(a)
  PROVE  UNCHANGED vars
BY DEF AdderStep, CheckName, ChooseUid, AppendPasswd, OpenShadow, OpenGroup,
       OpenGroupCopy, WriteGroupCopy, RenameGroup, ExitCreated, Abandon, GroupFails, AEnd

\* An adder leaves the passwd processes what they rely on.
LEMMA AdderShadowOK ==
  ASSUME ShadowOK, AdminTypeOK, NEW a \in Adders, AdderOK(a), AdderStep(a)
  PROVE  ShadowOK'
<1>1. Names(passwd) \subseteq Names(passwd')
  BY NamesStay
<1>2. UNCHANGED <<shadow, temp, lock, procVars, readerVars>>
  <2>1. CASE AppendShadow(a)
    BY <2>1 DEF AppendShadow
  <2>2. CASE ~AppendShadow(a)
    BY <2>2, AdderElsewhere DEF vars, procVars, readerVars
  <2>. QED
    BY <2>1, <2>2
<1>3. content' \in [Inodes -> Seq(Entry)]
  <2>1. CASE AppendShadow(a)
    <3>1. PICK e \in Entry :
            /\ asrc[a] \in Inodes
            /\ \/ content' = content
               \/ content' = [content EXCEPT ![asrc[a]] = Append(content[asrc[a]], e)]
      BY <2>1, AppendShadowIs
    <3>2. content \in [Inodes -> Seq(Entry)] /\ content[asrc[a]] \in Seq(Entry)
      BY <3>1 DEF ShadowOK, TypeOK
    <3>3. Append(content[asrc[a]], e) \in Seq(Entry)
      BY <3>2
    <3>. QED
      BY <3>1, <3>2, <3>3
  <2>2. CASE ~AppendShadow(a)
    BY <2>2, AdderElsewhere DEF vars, ShadowOK, TypeOK
  <2>. QED
    BY <2>1, <2>2
<1>4. TypeOK'
  BY <1>2, <1>3 DEF ShadowOK, TypeOK, procVars, readerVars
<1>5. LockHeldInCritical' /\ temp' # shadow' /\ \A p \in Procs : WorkOK(p)'
  BY <1>1, <1>2 DEF ShadowOK, LockHeldInCritical, WorkOK, procVars, readerVars
<1>. QED
  BY <1>4, <1>5 DEF ShadowOK

\* An adder keeps its variables in their ranges.
LEMMA AdderTypes ==
  ASSUME ShadowOK, AdminTypeOK, NEW a \in Adders, AdderOK(a), AdderStep(a)
  PROVE  AdminTypeOK'
<1> USE GroupNumbers DEF AGoto
<1>0. passwd' \in Seq(Account)
  BY NamesStay
<1>1. ASSUME NEW u \in Users, CheckName(a, u) PROVE AdminTypeOK'
  BY <1>1, <1>0 DEF AdminTypeOK, APCs, CheckName
<1>2. ASSUME NEW h \in Hashes, ChooseUid(a, h) PROVE AdminTypeOK'
  <2>1. NextUid \in Nat
    BY NextUidIsNew DEF AdminTypeOK
  <2>2. PICK n \in Nat : auid' = [auid EXCEPT ![a] = n]
    BY <1>2, <2>1, FirstUidAssumption DEF ChooseUid
  <2>. QED
    BY <1>2, <1>0, <2>2 DEF AdminTypeOK, APCs, ChooseUid
<1>3. CASE AppendPasswd(a)
  BY <1>3, <1>0 DEF AdminTypeOK, APCs, AppendPasswd
<1>4. CASE OpenShadow(a)
  BY <1>4, <1>0 DEF AdminTypeOK, APCs, OpenShadow, ShadowOK, TypeOK
<1>5. CASE AppendShadow(a)
  BY <1>5, <1>0 DEF AdminTypeOK, APCs, AppendShadow, ShadowOK, TypeOK
<1>6. CASE OpenGroup(a)
  BY <1>6, <1>0 DEF AdminTypeOK, APCs, OpenGroup
<1>7. CASE OpenGroupCopy(a)
  BY <1>7, <1>0 DEF AdminTypeOK, APCs, OpenGroupCopy, FreeGroupFiles
<1>8. CASE WriteGroupCopy(a)
  <2> DEFINE G == {Groups[k] : k \in DOMAIN Groups}
             M == IF gsrc[a] = NoFile THEN {} ELSE gdata[gsrc[a]]
             W == WithMember(M, Groups[agrp[a]], auser[a])
  <2>1. gdst[a] \in GroupFiles /\ auser[a] \in Users /\ Groups[agrp[a]] \in G
        /\ M \subseteq G \X Users
    BY <1>8, ValidUsersAssumption DEF WriteGroupCopy, AdderOK, AdminTypeOK
  <2>2. W \subseteq G \X Users
    BY <2>1, WithMemberIs
  <2>3. gdata' = [gdata EXCEPT ![gdst[a]] = W]
    BY <1>8 DEF WriteGroupCopy
  <2>. HIDE DEF W, M
  <2>4. gdata' \in [GroupFiles -> SUBSET (G \X Users)]
    BY <2>1, <2>2, <2>3 DEF AdminTypeOK
  <2>. QED
    BY <1>8, <1>0, <2>4 DEF AdminTypeOK, APCs, WriteGroupCopy
<1>9. CASE RenameGroup(a)
  <2>1. group' \in GroupFiles /\ gtemp' = NoFile
    BY <1>9 DEF AdminTypeOK, RenameGroup
  <2>2. agrp' \in [Adders -> DOMAIN Groups] /\ apc' \in [Adders -> APCs]
    <3>1. /\ agrp \in [Adders -> DOMAIN Groups] /\ apc \in [Adders -> APCs]
          /\ {"open_group", "done"} \subseteq APCs
      BY DEF AdminTypeOK, APCs
    <3>2. CASE agrp[a] < Len(Groups)
      <4>1. agrp[a] + 1 \in DOMAIN Groups
        BY <3>1, <3>2
      <4>. QED
        BY <1>9, <3>1, <3>2, <4>1 DEF RenameGroup
    <3>3. CASE ~(agrp[a] < Len(Groups))
      BY <1>9, <3>1, <3>3 DEF RenameGroup
    <3>. QED
      BY <3>2, <3>3
  <2>3. gdata' \in [GroupFiles -> SUBSET ({Groups[k] : k \in DOMAIN Groups} \X Users)]
    BY <1>9 DEF AdminTypeOK, RenameGroup, ReclaimGroup
  <2>. QED
    BY <1>9, <1>0, <2>1, <2>2, <2>3 DEF AdminTypeOK, RenameGroup
<1>10. CASE ExitCreated(a)
  BY <1>10, <1>0 DEF AdminTypeOK, APCs, ExitCreated, AEnd, ReclaimGroup
<1>11. CASE Abandon(a)
  BY <1>11, <1>0 DEF AdminTypeOK, APCs, Abandon, AEnd, ReclaimGroup
<1>12. CASE GroupFails(a)
  BY <1>12, <1>0 DEF AdminTypeOK, APCs, GroupFails, AEnd, ReclaimGroup
<1>. QED
  BY <1>1, <1>2, <1>3, <1>4, <1>5, <1>6, <1>7, <1>8, <1>9, <1>10, <1>11, <1>12 DEF AdderStep

\* An adder takes what it got to its next point, and leaves the others theirs.
LEMMA AdderKeepsAdders ==
  ASSUME ShadowOK, AdminTypeOK, \A b \in Adders : AdderOK(b), NEW a \in Adders, AdderStep(a)
  PROVE  \A b \in Adders : AdderOK(b)'
<1> SUFFICES ASSUME NEW b \in Adders PROVE AdderOK(b)'
  OBVIOUS
<1> USE DEF AGoto
<1>0. Names(passwd) \subseteq Names(passwd') /\ AdderOK(a) /\ AdderOK(b)
      /\ (AppendPasswd(a) => auser[a] \in Names(passwd'))
  BY NamesStay
<1>1. ASSUME NEW u \in Users, CheckName(a, u) PROVE AdderOK(b)'
  BY <1>1, <1>0 DEF AdminTypeOK, AdderOK, CheckName
<1>2. ASSUME NEW h \in Hashes, ChooseUid(a, h) PROVE AdderOK(b)'
  BY <1>2, <1>0 DEF AdminTypeOK, AdderOK, ChooseUid
<1>3. CASE AppendPasswd(a)
  BY <1>3, <1>0 DEF AdminTypeOK, AdderOK, AppendPasswd
<1>4. CASE OpenShadow(a)
  BY <1>4, <1>0 DEF AdminTypeOK, AdderOK, OpenShadow, ShadowOK, TypeOK
<1>5. CASE AppendShadow(a)
  BY <1>5, <1>0 DEF AdminTypeOK, AdderOK, AppendShadow
<1>6. CASE OpenGroup(a)
  BY <1>6, <1>0 DEF AdminTypeOK, AdderOK, OpenGroup
<1>7. CASE OpenGroupCopy(a)
  BY <1>7, <1>0 DEF AdminTypeOK, AdderOK, OpenGroupCopy, FreeGroupFiles
<1>8. CASE WriteGroupCopy(a)
  BY <1>8, <1>0 DEF AdminTypeOK, AdderOK, WriteGroupCopy
<1>9. CASE RenameGroup(a)
  BY <1>9, <1>0 DEF AdminTypeOK, AdderOK, RenameGroup
<1>10. CASE ExitCreated(a)
  BY <1>10, <1>0 DEF AdminTypeOK, AdderOK, ExitCreated, AEnd
<1>11. CASE Abandon(a)
  BY <1>11, <1>0 DEF AdminTypeOK, AdderOK, Abandon, AEnd
<1>12. CASE GroupFails(a)
  BY <1>12, <1>0 DEF AdminTypeOK, AdderOK, GroupFails, AEnd
<1>. QED
  BY <1>1, <1>2, <1>3, <1>4, <1>5, <1>6, <1>7, <1>8, <1>9, <1>10, <1>11, <1>12 DEF AdderStep

\* An adder writes names that have an account.
LEMMA AdderNests ==
  ASSUME ShadowOK, AdminTypeOK, ShadowsNested, GroupsNested,
         NEW a \in Adders, AdderOK(a), AdderStep(a)
  PROVE  ShadowsNested' /\ GroupsNested'
<1>0. Names(passwd) \subseteq Names(passwd')
  BY NamesStay
<1>1. ShadowsNested'
  <2>1. CASE AppendShadow(a)
    <3>1. PICK e \in Entry :
            /\ e.name = auser[a] /\ auser[a] \in Names(passwd) /\ asrc[a] \in Inodes
            /\ \/ content' = content
               \/ content' = [content EXCEPT ![asrc[a]] = Append(content[asrc[a]], e)]
      BY <2>1, AppendShadowIs
    <3>2. content \in [Inodes -> Seq(Entry)] /\ content[asrc[a]] \in Seq(Entry)
      BY <3>1 DEF ShadowOK, TypeOK
    <3>3. Names(Append(content[asrc[a]], e)) = Names(content[asrc[a]]) \cup {e.name}
      BY <3>2, NamesAppend
    <3>. QED
      BY <1>0, <3>1, <3>2, <3>3 DEF ShadowsNested
  <2>2. CASE ~AppendShadow(a)
    BY <1>0, <2>2, AdderElsewhere DEF vars, ShadowsNested
  <2>. QED
    BY <2>1, <2>2
<1>2. GroupsNested'
  <2>1. CASE WriteGroupCopy(a)
    <3> DEFINE M == IF gsrc[a] = NoFile THEN {} ELSE gdata[gsrc[a]]
               W == WithMember(M, Groups[agrp[a]], auser[a])
    <3>1. /\ gdst[a] \in GroupFiles /\ auser[a] \in Names(passwd)
          /\ \A m \in M : m[2] \in Names(passwd)
      BY <2>1 DEF WriteGroupCopy, AGoto, AdderOK, AdminTypeOK, GroupsNested
    <3>2. W \subseteq M \cup {<<Groups[agrp[a]], auser[a]>>}
      BY WithMemberIs
    <3>3. /\ gdata' = [gdata EXCEPT ![gdst[a]] = W]
          /\ gdata \in [GroupFiles -> SUBSET ({Groups[k] : k \in DOMAIN Groups} \X Users)]
      BY <2>1 DEF WriteGroupCopy, AdminTypeOK
    <3>4. <<Groups[agrp[a]], auser[a]>>[2] = auser[a]
      OBVIOUS
    <3>. HIDE DEF M, W
    <3>5. \A m \in W : m[2] \in Names(passwd)
      BY <3>1, <3>2, <3>4
    <3>. QED
      BY <1>0, <3>3, <3>5 DEF GroupsNested
  <2>2. CASE OpenGroupCopy(a)
    BY <1>0, <2>2 DEF OpenGroupCopy, GroupsNested, AdminTypeOK
  <2>3. CASE RenameGroup(a) \/ ExitCreated(a) \/ Abandon(a) \/ GroupFails(a)
    <3>1. gdata' = [f \in GroupFiles |-> IF f \in UsedGroupFiles' THEN gdata[f] ELSE {}]
      BY <2>3 DEF RenameGroup, ExitCreated, Abandon, GroupFails, ReclaimGroup
    <3>. QED
      BY <1>0, <3>1 DEF GroupsNested
  <2>4. CASE gdata' = gdata
    BY <1>0, <2>4 DEF GroupsNested
  <2>5. CASE ~ (\/ WriteGroupCopy(a) \/ OpenGroupCopy(a) \/ RenameGroup(a)
                \/ ExitCreated(a) \/ Abandon(a) \/ GroupFails(a))
    BY <2>4, <2>5 DEF AdderStep, CheckName, ChooseUid, AppendPasswd, OpenShadow, AppendShadow, OpenGroup
  <2>. QED
    BY <2>1, <2>2, <2>3, <2>5
<1>. QED
  BY <1>1, <1>2

-----------------------------------------------------------------------------
(* The invariant is inductive                                              *)

\* The image satisfies it.
LEMMA AdminStarts == AdminInit => AdminInv
<1> SUFFICES ASSUME AdminInit PROVE AdminInv
  OBVIOUS
<1>1. ShadowOK
  <2>1. TypeOK /\ temp # shadow
    BY InitIndInv DEF AdminInit, IndInv, Inv
  <2>2. LockHeldInCritical /\ \A p \in Procs : WorkOK(p)
    BY NoProcAssumption DEF AdminInit, Init, LockHeldInCritical, Critical, WorkOK
  <2>. QED
    BY <2>1, <2>2 DEF ShadowOK
<1>2. AdminTypeOK /\ \A a \in Adders : AdderOK(a)
  BY InitPasswdAssumption, InitGroupAssumption, GroupNumbers
     DEF AdminInit, AdminTypeOK, APCs, AdderOK
<1>3. ShadowsNested
  <2>1. PICK s \in InitFiles : content = [i \in Inodes |-> IF i = shadow THEN s ELSE <<>>]
    BY DEF AdminInit, Init
  <2>2. Names(s) \subseteq Names(passwd) /\ Names(<<>>) = {}
    BY ImageNestedAssumption, NamesEmpty DEF AdminInit
  <2>. QED
    BY <2>1, <2>2 DEF ShadowsNested
<1>4. GroupsNested
  BY ImageNestedAssumption DEF AdminInit, GroupsNested
<1>. QED
  BY <1>1, <1>2, <1>3, <1>4 DEF AdminInv

\* A step of a passwd process keeps it: passwd does not touch the other files.
LEMMA PasswdKeeps ==
  ASSUME AdminInv, NEW p \in Procs, PasswdStep(p)
  PROVE  AdminInv'
<1>1. UNCHANGED adminVars /\ passwd' = passwd
  BY DEF PasswdStep, adminVars
<1>2. ShadowOK' /\ ShadowsNested'
  <2>1. ASSUME NEW u \in Users, NEW h \in Hashes, ChangePassword(p, u, h)
        PROVE  ShadowOK' /\ ShadowsNested'
    <3>1. ShadowOK' /\ content' = content
      BY <1>1, <2>1, ChangeKeeps DEF AdminInv
    <3>. QED
      BY <1>1, <3>1 DEF AdminInv, ShadowsNested
  <2>2. CASE Working(p)
    <3>1. ShadowOK /\ ShadowsNested
      BY DEF AdminInv
    <3>2. TypeOK'
      BY <2>2, <3>1, WorkingTypes
    <3>3. LockHeldInCritical' /\ temp' # shadow' /\ \A q \in Procs : WorkOK(q)'
      BY <1>1, <2>2, <3>1, WorkingKeeps
    <3>4. ShadowsNested'
      BY <1>1, <2>2, <3>1, WorkingNests
    <3>. QED
      BY <3>2, <3>3, <3>4 DEF ShadowOK
  <2>. QED
    BY <2>1, <2>2 DEF PasswdStep, Working
<1>3. AdminTypeOK' /\ (\A a \in Adders : AdderOK(a))' /\ GroupsNested'
  BY <1>1 DEF AdminInv, adminVars, AdminTypeOK, AdderOK, GroupsNested
<1>. QED
  BY <1>2, <1>3 DEF AdminInv

\* A step of an adder keeps it.
LEMMA AdderKeeps ==
  ASSUME AdminInv, NEW a \in Adders, AdderStep(a)
  PROVE  AdminInv'
<1>1. /\ ShadowOK /\ AdminTypeOK /\ \A b \in Adders : AdderOK(b)
      /\ ShadowsNested /\ GroupsNested
  BY DEF AdminInv
<1>2. ShadowOK'
  BY <1>1, AdderShadowOK
<1>3. AdminTypeOK'
  BY <1>1, AdderTypes
<1>4. \A b \in Adders : AdderOK(b)'
  BY <1>1, AdderKeepsAdders
<1>5. ShadowsNested' /\ GroupsNested'
  BY <1>1, AdderNests
<1>. QED
  BY <1>2, <1>3, <1>4, <1>5 DEF AdminInv

\* Nobody's step breaks it.
LEMMA AdminKeeps == AdminInv /\ [AdminNext]_allVars => AdminInv'
<1> SUFFICES ASSUME AdminInv, [AdminNext]_allVars PROVE AdminInv'
  OBVIOUS
<1>1. CASE UNCHANGED allVars
  BY <1>1 DEF allVars, vars, adminVars, AdminInv, ShadowOK, TypeOK, LockHeldInCritical, WorkOK,
              AdminTypeOK, AdderOK, ShadowsNested, GroupsNested
<1>. QED
  BY <1>1, PasswdKeeps, AdderKeeps DEF AdminNext

\* It holds throughout.
LEMMA AdminInvariant == AdminSpec => []AdminInv
<1>1. AdminInit => AdminInv
  BY AdminStarts
<1>2. AdminInv /\ [AdminNext]_allVars => AdminInv'
  BY AdminKeeps
<1>. QED
  BY <1>1, <1>2, PTL DEF AdminSpec

-----------------------------------------------------------------------------
(* The theorems                                                            *)

\* Every variable of adduser stays in its range: among others next_uid always
\* finds a number, and ensure_group_member stops after the last group.
THEOREM AdminTypeCorrect == AdminSpec => []AdminTypeOK
<1>1. AdminInv => AdminTypeOK
  BY DEF AdminInv
<1>. QED
  BY <1>1, AdminInvariant, PTL

\* Whatever fails or is killed, a name is in /etc/shadow or in a group only if
\* /etc/passwd has its account.
THEOREM NestingKept == AdminSpec => []NamesNested
<1>1. AdminInv => NamesNested
  BY DEF AdminInv, ShadowOK, TypeOK, AdminTypeOK, ShadowsNested, GroupsNested, NamesNested
<1>. QED
  BY <1>1, AdminInvariant, PTL

\* No account changes its uid or disappears, however many adders race to add
\* the same name.
THEOREM AccountsAreStable == AdminSpec => AccountIsStable
<1>1. AdminInv /\ [AdminNext]_allVars =>
        [\A u \in Names(passwd) : /\ u \in Names(passwd')
                                  /\ AccountOf(passwd', u) = AccountOf(passwd, u)]_allVars
  <2> SUFFICES ASSUME AdminInv, AdminNext, NEW u \in Names(passwd)
               PROVE  /\ u \in Names(passwd')
                      /\ AccountOf(passwd', u) = AccountOf(passwd, u)
    OBVIOUS
  <2>1. CASE passwd' = passwd
    BY <2>1
  <2>2. ASSUME NEW e \in Account, passwd' = Append(passwd, e)
        PROVE  u \in Names(passwd') /\ AccountOf(passwd', u) = AccountOf(passwd, u)
    <3>1. passwd \in Seq(Account)
      BY DEF AdminInv, AdminTypeOK
    <3>2. u \in Names(Append(passwd, e))
      BY <3>1, NamesAppend
    <3>3. /\ First(Lines(Append(passwd, e), u)) = First(Lines(passwd, u))
          /\ Append(passwd, e)[First(Lines(passwd, u))] = passwd[First(Lines(passwd, u))]
      BY <3>1, FirstAppend
    <3>. QED
      BY <2>2, <3>2, <3>3 DEF AccountOf
  <2>3. ASSUME NEW p \in Procs, PasswdStep(p) PROVE passwd' = passwd
    BY <2>3 DEF PasswdStep, adminVars
  <2>4. ASSUME NEW a \in Adders, AdderStep(a)
        PROVE  passwd' = passwd \/ \E e \in Account : passwd' = Append(passwd, e)
    BY <2>4, PasswdGrows DEF AdminInv
  <2>. QED
    BY <2>1, <2>2, <2>3, <2>4 DEF AdminNext
<1>. QED
  BY <1>1, AdminInvariant, PTL DEF AdminSpec, AccountIsStable

\* Only a passwd process that publishes its rewrite takes a user's hash: an
\* append, whatever it interleaves with, does not.
THEOREM AppendsKeepHashes == AdminSpec => HashKeptByAdders
<1> DEFINE Kept == \A u \in Users :
                     \/ Lookup(content[shadow], u) = NoHash
                     \/ Lookup(content'[shadow'], u) = Lookup(content[shadow], u)
                     \/ \E p \in Procs : pc[p] = "rename" /\ rc'[p] = "ok"
<1>1. AdminInv /\ [AdminNext]_allVars => [Kept]_allVars
  <2> SUFFICES ASSUME AdminInv, AdminNext, NEW u \in Users
               PROVE  \/ Lookup(content[shadow], u) = NoHash
                      \/ Lookup(content'[shadow'], u) = Lookup(content[shadow], u)
                      \/ \E p \in Procs : pc[p] = "rename" /\ rc'[p] = "ok"
    OBVIOUS
  <2>1. ASSUME NEW p \in Procs, PasswdStep(p)
        PROVE  content'[shadow'] = content[shadow] \/ (pc[p] = "rename" /\ rc'[p] = "ok")
    <3>1. passwd' = passwd /\ ShadowOK
      BY <2>1 DEF PasswdStep, adminVars, AdminInv
    <3>. QED
      BY <2>1, <3>1, ChangeKeeps, WorkingLive DEF PasswdStep, Working
  <2>2. ASSUME NEW a \in Adders, AdderStep(a), ~AppendShadow(a)
        PROVE  content'[shadow'] = content[shadow]
    BY <2>2, AdderElsewhere DEF vars
  <2>3. ASSUME NEW a \in Adders, AppendShadow(a), Lookup(content[shadow], u) # NoHash
        PROVE  Lookup(content'[shadow'], u) = Lookup(content[shadow], u)
    <3> DEFINE s == content[shadow]
    <3>1. PICK e \in Entry :
            /\ asrc[a] \in Inodes
            /\ \/ content' = content
               \/ content' = [content EXCEPT ![asrc[a]] = Append(content[asrc[a]], e)]
      BY <2>3, AppendShadowIs DEF AdminInv
    <3>2. shadow' = shadow /\ shadow \in Inodes /\ content \in [Inodes -> Seq(Entry)]
      BY <2>3 DEF AppendShadow, AdminInv, ShadowOK, TypeOK
    <3>3. s \in Seq(Entry) /\ (content'[shadow'] = s \/ content'[shadow'] = Append(s, e))
      BY <3>1, <3>2
    <3>4. u \in Names(s)
      BY <2>3, <3>3 DEF Lookup, Lines, Names
    <3>. HIDE DEF s
    <3>5. Lookup(Append(s, e), u) = Lookup(s, u)
      BY <3>3, <3>4, FirstAppend DEF Lookup
    <3>. QED
      BY <3>3, <3>5 DEF s
  <2>. QED
    BY <2>1, <2>2, <2>3 DEF AdminNext, AdderStep
<1>. QED
  BY <1>1, AdminInvariant, PTL DEF AdminSpec, HashKeptByAdders

-----------------------------------------------------------------------------
(***************************************************************************)
(* One adduser at a time, failing and killed anywhere and started again:   *)
(* the uids it gives out are unique, /etc/group loses nobody, and what     *)
(* "account created" says is true.                                         *)
(***************************************************************************)

(* Uids                                                                    *)

\* The uid an adder is about to write is above every uid of /etc/passwd.
UidFresh ==
  \A a \in Adders : apc[a] = "passwd" => \A i \in DOMAIN passwd : passwd[i].uid < auid[a]

\* An adder alone keeps the uids apart.
LEMMA UidsStayUnique ==
  ASSUME NEW b, Adders = {b}, "passwd" \notin Unreadable,
         AdminTypeOK, AdderOK(b), AdderStep(b), UidsUnique, UidFresh
  PROVE  UidsUnique' /\ UidFresh'
<1> USE DEF AGoto
<1>1. /\ passwd \in Seq(Account) /\ b \in Adders
      /\ auid \in [Adders -> Nat] /\ apc \in [Adders -> APCs]
  BY DEF AdminTypeOK
<1>2. CASE AppendPasswd(b)
  <2>1. PICK e : e = [name |-> auser[b], uid |-> auid[b]]
    OBVIOUS
  <2>2. e \in Account /\ e.uid = auid[b] /\ passwd' = Append(passwd, e)
    BY <1>1, <1>2, <2>1, ValidUsersAssumption DEF AdderOK, AppendPasswd, Account
  <2>3. /\ DOMAIN passwd' = DOMAIN passwd \cup {Len(passwd) + 1}
        /\ Len(passwd) + 1 \notin DOMAIN passwd
        /\ passwd'[Len(passwd) + 1] = e
        /\ \A i \in DOMAIN passwd : passwd'[i] = passwd[i] /\ passwd[i] \in Account
    BY <1>1, <2>2
  <2>4. \A i \in DOMAIN passwd : passwd[i].uid \in Nat /\ passwd[i].uid < e.uid
    BY <1>1, <1>2, <2>2, <2>3 DEF UidFresh, AppendPasswd, Account
  <2>5. UidsUnique'
    BY <1>1, <2>2, <2>3, <2>4 DEF UidsUnique
  <2>6. UidFresh'
    BY <1>1, <1>2 DEF UidFresh, AppendPasswd
  <2>. QED
    BY <2>5, <2>6
<1>3. ASSUME NEW h \in Hashes, ChooseUid(b, h) PROVE UidsUnique' /\ UidFresh'
  <2>1. auid'[b] = NextUid /\ passwd' = passwd
    BY <1>1, <1>3 DEF ChooseUid
  <2>2. \A i \in DOMAIN passwd : passwd[i].uid < auid'[b]
    BY <1>1, <2>1, NextUidIsNew
  <2>. QED
    BY <2>1, <2>2 DEF UidsUnique, UidFresh
<1>4. CASE ~AppendPasswd(b) /\ ~\E h \in Hashes : ChooseUid(b, h)
  <2>1. passwd' = passwd
    BY <1>1, <1>4, PasswdGrows
  <2>2. apc'[b] # "passwd"
    BY <1>1, <1>4 DEF AdderStep, CheckName, OpenShadow, AppendShadow, OpenGroup,
         OpenGroupCopy, WriteGroupCopy, RenameGroup, ExitCreated, Abandon, GroupFails, AEnd
  <2>. QED
    BY <2>1, <2>2 DEF UidsUnique, UidFresh
<1>. QED
  BY <1>2, <1>3, <1>4

\* Every run of adduser that finds the file readable gives its user a uid of its
\* own, whatever earlier runs were abandoned half way.
THEOREM UidsAreUnique ==
  ASSUME NEW b, Adders = {b}, "passwd" \notin Unreadable,
         \A i, j \in DOMAIN InitPasswd : InitPasswd[i].uid = InitPasswd[j].uid => i = j
  PROVE  AdminSpec => []UidsUnique
<1>1. AdminInit => UidsUnique /\ UidFresh
  BY DEF AdminInit, UidsUnique, UidFresh
<1>2. AdminInv /\ UidsUnique /\ UidFresh /\ [AdminNext]_allVars => UidsUnique' /\ UidFresh'
  <2> SUFFICES ASSUME AdminInv, UidsUnique, UidFresh, [AdminNext]_allVars
               PROVE  UidsUnique' /\ UidFresh'
    OBVIOUS
  <2>1. CASE UNCHANGED adminVars
    BY <2>1 DEF adminVars, UidsUnique, UidFresh
  <2>2. CASE AdderStep(b)
    BY <2>2, UidsStayUnique DEF AdminInv
  <2>. QED
    BY <2>1, <2>2 DEF AdminNext, PasswdStep, allVars
<1>. QED
  BY <1>1, <1>2, AdminInvariant, PTL DEF AdminSpec

-----------------------------------------------------------------------------
(* /etc/group                                                              *)

\* The copy is another file than the live one; an adder reads the live one, or
\* nothing, and writes the copy.
GroupCopyOK ==
  /\ gtemp # group
  /\ \A a \in Adders :
       /\ apc[a] \in {"open_copy", "write"} => gsrc[a] \in {group, NoFile}
       /\ apc[a] = "write" => gdst[a] = gtemp /\ gtemp # NoFile

\* What the copy holds when it is about to replace /etc/group.
GroupCopyFull ==
  \A a \in Adders : apc[a] = "rename" /\ gtemp # NoFile =>
    gdata[group] \subseteq gdata[gtemp] \/ gdata[gtemp] = OnlyLast(a, agrp[a])

\* What an adder alone writes into the copy.
LEMMA CopyWritten ==
  ASSUME NEW b, Adders = {b}, AdminTypeOK, AdderOK(b), GroupCopyOK, WriteGroupCopy(b)
  PROVE  LET g == Groups[agrp[b]]
         IN  /\ apc[b] = "write" /\ gtemp \in GroupFiles
             /\ gdata'[group] = gdata[group]
             /\ \/ gdata'[gtemp] = WithMember(gdata[group], g, auser[b])
                \/ gdata'[gtemp] = {<<g, auser[b]>>}
<1> DEFINE g == Groups[agrp[b]]
           M == IF gsrc[b] = NoFile THEN {} ELSE gdata[gsrc[b]]
<1>1. /\ apc[b] = "write" /\ gdst[b] = gtemp /\ gtemp # group
      /\ gtemp \in GroupFiles /\ group \in GroupFiles
      /\ gdata \in [GroupFiles -> SUBSET ({Groups[k] : k \in DOMAIN Groups} \X Users)]
      /\ M = {} \/ M = gdata[group]
  BY DEF WriteGroupCopy, AGoto, GroupCopyOK, AdminTypeOK
<1>2. gdata' = [gdata EXCEPT ![gdst[b]] = WithMember(M, g, auser[b])]
  BY DEF WriteGroupCopy
<1>3. WithMember({}, g, auser[b]) = {<<g, auser[b]>>}
  BY DEF WithMember
<1>. HIDE DEF M
<1>4. gdata'[group] = gdata[group] /\ gdata'[gtemp] = WithMember(M, g, auser[b])
  BY <1>1, <1>2
<1>. QED
  BY <1>1, <1>3, <1>4

\* An adder alone keeps the copy apart and fills it.
LEMMA GroupCopyKept ==
  ASSUME NEW b, Adders = {b}, AdminTypeOK, AdderOK(b), GroupCopyOK, GroupCopyFull, AdderStep(b)
  PROVE  GroupCopyOK' /\ GroupCopyFull'
<1> USE NoFileAssumption DEF AGoto
<1>0. /\ b \in Adders /\ group \in GroupFiles /\ apc \in [Adders -> APCs]
      /\ gsrc \in [Adders -> GroupFiles \cup {NoFile}] /\ gdst \in [Adders -> GroupFiles \cup {NoFile}]
      /\ gtemp \in GroupFiles \cup {NoFile}
  BY DEF AdminTypeOK
<1>1. CASE WriteGroupCopy(b)
  <2>1. GroupCopyOK'
    BY <1>0, <1>1 DEF WriteGroupCopy, GroupCopyOK
  <2>2. gdata[group] \subseteq gdata'[gtemp] \/ gdata'[gtemp] = {<<Groups[agrp[b]], auser[b]>>}
    BY <1>1, CopyWritten, WithMemberIs
  <2>3. GroupCopyFull'
    BY <1>1, <2>2, CopyWritten DEF WriteGroupCopy, GroupCopyFull, OnlyLast
  <2>. QED
    BY <2>1, <2>3
<1>2. CASE RenameGroup(b) \/ ExitCreated(b) \/ Abandon(b) \/ GroupFails(b)
  <2>1. apc'[b] \notin {"open_copy", "write", "rename"} /\ gtemp' # group'
    BY <1>0, <1>2 DEF RenameGroup, ExitCreated, Abandon, GroupFails, AEnd, GroupCopyOK
  <2>. QED
    BY <2>1 DEF GroupCopyOK, GroupCopyFull
<1>3. CASE OpenGroupCopy(b)
  <2>1. PICK f : /\ f \in IF gtemp # NoFile THEN {gtemp} ELSE FreeGroupFiles
                 /\ gtemp' = f /\ gdst' = [gdst EXCEPT ![b] = f]
    BY <1>3 DEF OpenGroupCopy
  <2>2. f # group /\ f # NoFile
    BY <2>1 DEF GroupCopyOK, FreeGroupFiles, UsedGroupFiles
  <2>. QED
    BY <1>0, <1>3, <2>1, <2>2 DEF OpenGroupCopy, GroupCopyOK, GroupCopyFull
<1>4. CASE OpenGroup(b)
  BY <1>0, <1>4 DEF OpenGroup, GroupCopyOK, GroupCopyFull
<1>5. CASE ~ (\/ OpenGroup(b) \/ OpenGroupCopy(b) \/ WriteGroupCopy(b) \/ RenameGroup(b)
              \/ ExitCreated(b) \/ Abandon(b) \/ GroupFails(b))
  <2>1. UNCHANGED <<group, gtemp>> /\ apc'[b] \notin {"open_copy", "write", "rename"}
    BY <1>0, <1>5 DEF AdderStep, CheckName, ChooseUid, AppendPasswd, OpenShadow, AppendShadow
  <2>. QED
    BY <2>1 DEF GroupCopyOK, GroupCopyFull
<1>. QED
  BY <1>1, <1>2, <1>3, <1>4, <1>5

\* A step of the adder takes nobody out of /etc/group, unless it could not be opened.
LEMMA NobodyLost ==
  ASSUME NEW b, Adders = {b}, AdminTypeOK, AdderOK(b), GroupCopyOK, GroupCopyFull, AdderStep(b)
  PROVE  gdata[group] \subseteq gdata'[group'] \/ gdata'[group'] = OnlyLast(b, agrp[b])
<1>0. b \in Adders /\ group \in GroupFiles /\ gtemp # group /\ gtemp \in GroupFiles \cup {NoFile}
  BY DEF AdminTypeOK, GroupCopyOK
<1>1. CASE RenameGroup(b)
  <2>1. group' = gtemp /\ gtemp \in GroupFiles /\ gdata'[gtemp] = gdata[gtemp]
    BY <1>0, <1>1 DEF RenameGroup, ReclaimGroup, UsedGroupFiles
  <2>. QED
    BY <1>0, <1>1, <2>1 DEF GroupCopyFull, RenameGroup
<1>2. CASE ExitCreated(b) \/ Abandon(b) \/ GroupFails(b)
  BY <1>0, <1>2 DEF ExitCreated, Abandon, GroupFails, AEnd, ReclaimGroup, UsedGroupFiles
<1>3. CASE WriteGroupCopy(b)
  BY <1>3, CopyWritten DEF WriteGroupCopy
<1>4. CASE OpenGroupCopy(b)
  BY <1>0, <1>4 DEF OpenGroupCopy, FreeGroupFiles, UsedGroupFiles, AdminTypeOK
<1>5. CASE ~ (\/ OpenGroupCopy(b) \/ WriteGroupCopy(b) \/ RenameGroup(b)
              \/ ExitCreated(b) \/ Abandon(b) \/ GroupFails(b))
  BY <1>5 DEF AdderStep, CheckName, ChooseUid, AppendPasswd, OpenShadow, AppendShadow, OpenGroup
<1>. QED
  BY <1>1, <1>2, <1>3, <1>4, <1>5

\* adduser rewrites /etc/group twice and loses no member, wherever it fails or is
\* killed, as long as the old file can be opened.
THEOREM MembersAreKept ==
  ASSUME NEW b, Adders = {b}
  PROVE  AdminSpec => MembersStay
<1>1. AdminInit => GroupCopyOK /\ GroupCopyFull
  BY NoFileAssumption DEF AdminInit, GroupCopyOK, GroupCopyFull
<1>2. AdminInv /\ GroupCopyOK /\ GroupCopyFull /\ [AdminNext]_allVars => GroupCopyOK' /\ GroupCopyFull'
  <2> SUFFICES ASSUME AdminInv, GroupCopyOK, GroupCopyFull, [AdminNext]_allVars
               PROVE  GroupCopyOK' /\ GroupCopyFull'
    OBVIOUS
  <2>1. CASE UNCHANGED adminVars
    BY <2>1 DEF adminVars, GroupCopyOK, GroupCopyFull, OnlyLast
  <2>2. CASE AdderStep(b)
    BY <2>2, GroupCopyKept DEF AdminInv
  <2>. QED
    BY <2>1, <2>2 DEF AdminNext, PasswdStep, allVars
<1>3. AdminInv /\ GroupCopyOK /\ GroupCopyFull /\ [AdminNext]_allVars =>
        [\/ gdata[group] \subseteq gdata'[group']
         \/ \E a \in Adders : gdata'[group'] = OnlyLast(a, agrp[a])]_allVars
  <2> SUFFICES ASSUME AdminInv, GroupCopyOK, GroupCopyFull, AdminNext
               PROVE  \/ gdata[group] \subseteq gdata'[group']
                      \/ \E a \in Adders : gdata'[group'] = OnlyLast(a, agrp[a])
    OBVIOUS
  <2>1. CASE UNCHANGED adminVars
    BY <2>1 DEF adminVars
  <2>2. CASE AdderStep(b)
    BY <2>2, NobodyLost DEF AdminInv
  <2>. QED
    BY <2>1, <2>2 DEF AdminNext, PasswdStep
<1>. QED
  BY <1>1, <1>2, <1>3, AdminInvariant, PTL DEF AdminSpec, MembersStay

-----------------------------------------------------------------------------
(* "account created"                                                       *)

AfterPasswd == {"open_shadow", "shadow", "open_group", "open_copy", "write", "rename", "done"}
InGroups    == {"open_group", "open_copy", "write", "rename", "done"}

\* The name stays free until the line is written; from then on the line an
\* adder wrote is the one that counts.
NameOK ==
  \A a \in Adders :
    /\ apc[a] \in {"prompt", "passwd"} => auser[a] \notin Names(passwd)
    /\ apc[a] \in AfterPasswd => AccountOf(passwd, auser[a]).uid = auid[a]

\* So it is with the line in /etc/shadow, which nobody replaces.
LineOK ==
  \A a \in Adders :
    /\ apc[a] \in {"prompt", "passwd", "open_shadow", "shadow"} => auser[a] \notin Names(content[shadow])
    /\ apc[a] = "shadow" => asrc[a] = shadow
    /\ apc[a] \in InGroups => Lookup(content[shadow], auser[a]) = ahash[a]

\* Group k of S lists the user of a, or somebody whose name contains the user's.
Listed(S, k, a) == \E v \in Users : Within(auser[a], v) /\ <<Groups[k], v>> \in S

\* /etc/group lists the user in the groups before the one a is at, its copy in
\* that one too, unless there was no /etc/group to copy.
MembersOK ==
  \A a \in Adders :
    /\ apc[a] \notin InGroups => agrp[a] = 1
    /\ apc[a] \in {"open_group", "open_copy", "write", "rename"} =>
         \A k \in 1..(agrp[a] - 1) : Listed(gdata[group], k, a)
    /\ apc[a] = "rename" /\ gtemp # NoFile =>
         \/ \A k \in 1..agrp[a] : Listed(gdata[gtemp], k, a)
         \/ gdata[gtemp] = OnlyLast(a, agrp[a])
    /\ apc[a] = "done" =>
         \/ \A k \in DOMAIN Groups : Listed(gdata[group], k, a)
         \/ gdata[group] = OnlyLast(a, Len(Groups))

\* The first line of a name that had none is the one appended.
LEMMA NewNameFirst ==
  ASSUME NEW T, NEW s \in Seq(T), NEW e \in T, e.name \notin Names(s)
  PROVE  Lines(Append(s, e), e.name) # {} /\ AccountOf(Append(s, e), e.name) = e
<1> DEFINE t == Append(s, e)
           n == Len(s) + 1
<1>1. /\ Len(t) = n /\ Len(s) \in Nat /\ t[n] = e
      /\ \A i \in 1..Len(s) : t[i] = s[i] /\ i \in DOMAIN s
  OBVIOUS
<1>2. Lines(t, e.name) = {n}
  BY <1>1 DEF Lines, Names
<1>3. First({n}) = n
  <2> DEFINE S == {n}
  <2>1. S \subseteq Nat /\ n \in S /\ \A j \in S : n <= j
    BY <1>1
  <2>. HIDE DEF n, S
  <2>2. First(S) = n
    BY <2>1, FirstIs
  <2>. QED
    BY <2>2 DEF S
<1>. QED
  BY <1>1, <1>2, <1>3 DEF AccountOf

\* ensure_group_member leaves the user listed, under this name or a longer one.
LEMMA WithMemberLists ==
  ASSUME NEW M, NEW g, NEW u \in Users
  PROVE  \E v \in Users : Within(u, v) /\ <<g, v>> \in WithMember(M, g, u)
BY WithinAssumption DEF WithMember

\* The line an adder alone writes is its user's first.
LEMMA NameKept ==
  ASSUME NEW b, Adders = {b}, "passwd" \notin Unreadable,
         AdminTypeOK, AdderOK(b), NameOK, AdderStep(b)
  PROVE  NameOK'
<1> USE DEF AGoto
<1>0. /\ passwd \in Seq(Account) /\ b \in Adders /\ apc \in [Adders -> APCs]
      /\ auid \in [Adders -> Nat] /\ auser \in [Adders -> ValidUsers \cup {NoUser}]
  BY DEF AdminTypeOK
<1>1. CASE AppendPasswd(b)
  <2>1. PICK e : e = [name |-> auser[b], uid |-> auid[b]]
    OBVIOUS
  <2>2. /\ e \in Account /\ e.uid = auid[b] /\ e.name = auser[b]
        /\ passwd' = Append(passwd, e) /\ auser[b] \notin Names(passwd)
    BY <1>0, <1>1, <2>1, ValidUsersAssumption DEF AdderOK, AppendPasswd, Account, NameOK
  <2>3. AccountOf(Append(passwd, e), auser[b]) = e
    BY <1>0, <2>2, NewNameFirst
  <2>. QED
    BY <1>0, <1>1, <2>2, <2>3 DEF AppendPasswd, NameOK, AfterPasswd
<1>2. ASSUME NEW u \in Users, CheckName(b, u) PROVE NameOK'
  BY <1>0, <1>2 DEF CheckName, NameOK, AfterPasswd
<1>3. ASSUME NEW h \in Hashes, ChooseUid(b, h) PROVE NameOK'
  BY <1>0, <1>3 DEF ChooseUid, NameOK, AfterPasswd
<1>4. CASE \/ OpenShadow(b) \/ AppendShadow(b) \/ OpenGroup(b) \/ OpenGroupCopy(b)
           \/ WriteGroupCopy(b) \/ RenameGroup(b)
  BY <1>0, <1>4 DEF OpenShadow, AppendShadow, OpenGroup, OpenGroupCopy, WriteGroupCopy, RenameGroup,
                    NameOK, AfterPasswd
<1>5. CASE ExitCreated(b) \/ Abandon(b) \/ GroupFails(b)
  BY <1>0, <1>5 DEF ExitCreated, Abandon, GroupFails, AEnd, NameOK, AfterPasswd
<1>. QED
  BY <1>1, <1>2, <1>3, <1>4, <1>5 DEF AdderStep

\* With no passwd process the line goes into the file logins read, after no
\* other line of the user.
LEMMA LineKept ==
  ASSUME NEW b, Adders = {b}, "passwd" \notin Unreadable,
         ShadowOK, AdminTypeOK, AdderOK(b), ShadowsNested, LineOK, AdderStep(b)
  PROVE  LineOK'
<1> USE DEF AGoto
<1>0. /\ b \in Adders /\ apc \in [Adders -> APCs] /\ shadow \in Inodes
      /\ content \in [Inodes -> Seq(Entry)]
      /\ ahash \in [Adders -> Hashes \cup {NoHash}] /\ auser \in [Adders -> ValidUsers \cup {NoUser}]
      /\ asrc \in [Adders -> Inodes \cup {NoInode}]
  BY DEF AdminTypeOK, ShadowOK, TypeOK
<1>1. CASE AppendShadow(b)
  <2>1. PICK e : e = NewLine(auser[b], ahash[b], DefaultTail)
    OBVIOUS
  <2>2. auser[b] \in Users /\ ahash[b] \in Hashes
    BY <1>0, <1>1, ValidUsersAssumption DEF AdderOK, AppendShadow
  <2>3. e \in Entry /\ e.name = auser[b] /\ e.hash = ahash[b]
    BY <2>1, <2>2, NewLineType DEF NewLine
  <2>4. asrc[b] = shadow /\ shadow \in Used /\ auser[b] \notin Names(content[shadow])
    BY <1>0, <1>1 DEF LineOK, AppendShadow, Used
  <2>5. content'[shadow'] = Append(content[shadow], e)
    BY <1>0, <1>1, <2>1, <2>4 DEF AppendShadow
  <2>6. Lookup(Append(content[shadow], e), auser[b]) = ahash[b]
    <3>1. content[shadow] \in Seq(Entry)
      BY <1>0
    <3>2. e.name \notin Names(content[shadow])
      BY <2>3, <2>4
    <3>3. /\ Lines(Append(content[shadow], e), e.name) # {}
          /\ AccountOf(Append(content[shadow], e), e.name) = e
      BY <2>3, <3>1, <3>2, NewNameFirst, Zenon
    <3>4. PICK t : t = Append(content[shadow], e)
      OBVIOUS
    <3>5. Lines(t, e.name) # {} /\ t[First(Lines(t, e.name))] = e
      BY <3>3, <3>4 DEF AccountOf
    <3>. QED
      BY <2>3, <3>4, <3>5 DEF Lookup
  <2>. QED
    BY <1>0, <1>1, <2>5, <2>6 DEF AppendShadow, LineOK, InGroups
<1>2. CASE ~AppendShadow(b)
  <2>0. shadow' = shadow /\ content'[shadow'] = content[shadow]
    BY <1>2, AdderElsewhere DEF vars
  <2>1. ASSUME NEW u \in Users, CheckName(b, u) PROVE LineOK'
    <3>1. u \notin Names(content[shadow])
      BY <1>0, <2>1 DEF CheckName, ShadowsNested
    <3>. QED
      BY <1>0, <2>0, <2>1, <3>1 DEF CheckName, LineOK, InGroups
  <2>2. ASSUME NEW h \in Hashes, ChooseUid(b, h) PROVE LineOK'
    BY <1>0, <2>0, <2>2 DEF ChooseUid, LineOK, InGroups
  <2>3. CASE AppendPasswd(b) \/ OpenShadow(b)
    BY <1>0, <2>0, <2>3 DEF AppendPasswd, OpenShadow, LineOK, InGroups
  <2>4. CASE OpenGroup(b) \/ OpenGroupCopy(b) \/ WriteGroupCopy(b) \/ RenameGroup(b)
    BY <1>0, <2>0, <2>4 DEF OpenGroup, OpenGroupCopy, WriteGroupCopy, RenameGroup, LineOK, InGroups
  <2>5. CASE ExitCreated(b) \/ Abandon(b) \/ GroupFails(b)
    BY <1>0, <2>0, <2>5 DEF ExitCreated, Abandon, GroupFails, AEnd, LineOK, InGroups
  <2>. QED
    BY <1>2, <2>1, <2>2, <2>3, <2>4, <2>5 DEF AdderStep
<1>. QED
  BY <1>1, <1>2

\* The user ends up in every group, or the last one is all there is.
LEMMA MembersKept ==
  ASSUME NEW b, Adders = {b}, Len(Groups) <= 2,
         AdminTypeOK, AdderOK(b), GroupCopyOK, MembersOK, AdderStep(b)
  PROVE  MembersOK'
<1> USE GroupNumbers DEF AGoto
<1>0. /\ b \in Adders /\ apc \in [Adders -> APCs] /\ group \in GroupFiles /\ gtemp # group
      /\ auser \in [Adders -> ValidUsers \cup {NoUser}] /\ agrp \in [Adders -> DOMAIN Groups]
      /\ gtemp \in GroupFiles \cup {NoFile} /\ DOMAIN Groups = 1..Len(Groups)
  BY GroupsAssumption DEF AdminTypeOK, GroupCopyOK
<1>1. CASE WriteGroupCopy(b)
  <2>1. PICK k : k = agrp[b]
    OBVIOUS
  <2>2. /\ apc'[b] = "rename" /\ agrp' = agrp /\ auser' = auser
        /\ gtemp' = gtemp /\ group' = group /\ gdata'[group] = gdata[group]
        /\ auser[b] \in Users /\ k \in 1..Len(Groups)
        /\ \A j \in 1..(k - 1) : Listed(gdata[group], j, b)
    BY <1>0, <1>1, <2>1, CopyWritten, ValidUsersAssumption DEF WriteGroupCopy, MembersOK, AdderOK
  <2>3. CASE gdata'[gtemp] = WithMember(gdata[group], Groups[k], auser[b])
    <3>1. gdata[group] \subseteq gdata'[gtemp]
      BY <2>3, WithMemberIs
    <3>2. Listed(gdata'[gtemp], k, b)
      BY <2>2, <2>3, WithMemberLists, Zenon DEF Listed
    <3>3. \A j \in 1..k : Listed(gdata'[gtemp], j, b)
      BY <2>2, <3>1, <3>2 DEF Listed
    <3>. QED
      BY <2>1, <2>2, <3>3 DEF MembersOK, Listed, InGroups
  <2>4. CASE gdata'[gtemp] = {<<Groups[k], auser[b]>>}
    BY <2>1, <2>2, <2>4 DEF MembersOK, Listed, InGroups, OnlyLast
  <2>. QED
    BY <1>1, <2>1, <2>3, <2>4, CopyWritten
<1>2. CASE RenameGroup(b)
  <2>1. /\ group' = gtemp /\ gtemp' = NoFile /\ gtemp # NoFile /\ gdata'[gtemp] = gdata[gtemp]
        /\ apc[b] = "rename" /\ auser' = auser
    BY <1>0, <1>2 DEF RenameGroup, ReclaimGroup, UsedGroupFiles
  <2>2. \/ \A k \in 1..agrp[b] : Listed(gdata[gtemp], k, b)
        \/ gdata[gtemp] = OnlyLast(b, agrp[b])
    BY <1>0, <2>1 DEF MembersOK
  <2>3. CASE agrp[b] < Len(Groups)
    <3>1. agrp[b] = 1 /\ agrp'[b] = 2 /\ apc'[b] = "open_group"
      BY <1>0, <1>2, <2>3 DEF RenameGroup
    <3>2. Listed(gdata[gtemp], 1, b)
      <4>1. auser[b] \in Users /\ Within(auser[b], auser[b])
        BY <1>0, <2>1, ValidUsersAssumption, WithinAssumption DEF AdderOK
      <4>2. CASE gdata[gtemp] = OnlyLast(b, agrp[b])
        BY <3>1, <4>1, <4>2 DEF OnlyLast, Listed
      <4>3. CASE \A k \in 1..agrp[b] : Listed(gdata[gtemp], k, b)
        BY <3>1, <4>3
      <4>. QED
        BY <2>2, <4>2, <4>3
    <3>3. \A k \in 1..(2 - 1) : k = 1
      OBVIOUS
    <3>. QED
      BY <2>1, <3>1, <3>2, <3>3 DEF MembersOK, Listed, InGroups
  <2>4. CASE ~(agrp[b] < Len(Groups))
    <3>1. agrp[b] = Len(Groups) /\ agrp'[b] = agrp[b] /\ apc'[b] = "done"
      BY <1>0, <1>2, <2>4 DEF RenameGroup
    <3>2. \/ \A k \in DOMAIN Groups : Listed(gdata[gtemp], k, b)
          \/ gdata[gtemp] = OnlyLast(b, Len(Groups))
      BY <1>0, <2>2, <3>1
    <3>. QED
      BY <2>1, <3>1, <3>2 DEF MembersOK, Listed, InGroups, OnlyLast
  <2>. QED
    BY <2>3, <2>4
<1>3. CASE ExitCreated(b) \/ Abandon(b) \/ GroupFails(b)
  <2>1. apc'[b] = "idle" /\ agrp'[b] = 1
    BY <1>0, <1>3 DEF ExitCreated, Abandon, GroupFails, AEnd
  <2>. QED
    BY <2>1 DEF MembersOK, InGroups
<1>4. CASE OpenGroupCopy(b)
  <2>1. gdata'[group] = gdata[group] /\ group' = group /\ agrp' = agrp /\ auser' = auser
        /\ apc[b] = "open_copy" /\ apc'[b] = "write"
    BY <1>0, <1>4 DEF OpenGroupCopy, FreeGroupFiles, UsedGroupFiles, AdminTypeOK
  <2>. QED
    BY <1>0, <2>1 DEF MembersOK, Listed, InGroups
<1>5. CASE AppendShadow(b) \/ OpenGroup(b)
  <2>1. UNCHANGED <<gdata, group, agrp, auser>>
    BY <1>5 DEF AppendShadow, OpenGroup
  <2>2. CASE AppendShadow(b)
    <3>1. apc'[b] = "open_group" /\ agrp[b] = 1 /\ \A k \in 1..(1 - 1) : FALSE
      BY <1>0, <2>2 DEF AppendShadow, MembersOK, InGroups
    <3>. QED
      BY <2>1, <3>1 DEF MembersOK, InGroups
  <2>3. CASE OpenGroup(b)
    <3>1. apc[b] = "open_group" /\ apc'[b] = "open_copy"
      BY <1>0, <2>3 DEF OpenGroup
    <3>. QED
      BY <2>1, <3>1 DEF MembersOK, InGroups, Listed
  <2>. QED
    BY <1>5, <2>2, <2>3
<1>6. CASE ~ (\/ AppendShadow(b) \/ OpenGroup(b) \/ OpenGroupCopy(b) \/ WriteGroupCopy(b)
              \/ RenameGroup(b) \/ ExitCreated(b) \/ Abandon(b) \/ GroupFails(b))
  <2>1. apc[b] \notin InGroups /\ apc'[b] \notin InGroups /\ agrp' = agrp
    BY <1>0, <1>6 DEF AdderStep, CheckName, ChooseUid, AppendPasswd, OpenShadow, InGroups
  <2>. QED
    BY <2>1 DEF MembersOK, InGroups
<1>. QED
  BY <1>1, <1>2, <1>3, <1>4, <1>5, <1>6

\* Without a passwd process, "account created" is true of the uid, the hash and
\* the groups: there are two of them in main.
THEOREM CreatedIsTrue ==
  ASSUME NEW b, Adders = {b}, Procs = {}, "passwd" \notin Unreadable, Len(Groups) <= 2
  PROVE  AdminSpec => []CreatedIsComplete
<1> DEFINE J == GroupCopyOK /\ GroupCopyFull /\ NameOK /\ LineOK /\ MembersOK
<1>1. AdminInit => J
  BY NoFileAssumption DEF AdminInit, GroupCopyOK, GroupCopyFull, NameOK, AfterPasswd,
     LineOK, MembersOK, InGroups
<1>2. AdminInv /\ J /\ [AdminNext]_allVars => J'
  <2> SUFFICES ASSUME AdminInv, J, [AdminNext]_allVars PROVE J'
    OBVIOUS
  <2>1. CASE UNCHANGED allVars
    BY <2>1 DEF allVars, vars, adminVars, GroupCopyOK, GroupCopyFull, OnlyLast, NameOK, LineOK,
                MembersOK, Listed
  <2>2. CASE AdderStep(b)
    BY <2>2, GroupCopyKept, NameKept, LineKept, MembersKept DEF AdminInv
  <2>. QED
    BY <2>1, <2>2 DEF AdminNext
<1>3. J => CreatedIsComplete
  BY DEF NameOK, AfterPasswd, LineOK, InGroups, MembersOK, Listed, CreatedIsComplete
<1>. QED
  BY <1>1, <1>2, <1>3, AdminInvariant, PTL DEF AdminSpec

=============================================================================
