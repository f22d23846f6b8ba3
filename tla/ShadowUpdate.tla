---------------------------- MODULE ShadowUpdate ----------------------------
(***************************************************************************)
(* ir0_shadow_set_hash and ir0_shadow_hash of lib/ir0_auth.c: the only     *)
(* code of the system that replaces /etc/shadow, and the lookup every      *)
(* login, su and passwd makes in it.                                       *)
(*                                                                         *)
(* An update takes an flock(2) with a bounded number of tries, copies      *)
(* /etc/shadow line by line into /etc/shadow.new with the user's hash      *)
(* replaced, and renames the copy over the original.  A process may fail   *)
(* at every open, write and rename and may be killed between any two       *)
(* calls; a read of an open file succeeds (fgets would report an error as  *)
(* the end of the file).                                                   *)
(*                                                                         *)
(* Files are inodes: a name (shadow, temp) refers to one, a process holds  *)
(* others open, and rename moves a name without touching what is open.     *)
(***************************************************************************)
EXTENDS Naturals, Sequences, FiniteSets

CONSTANTS Procs,         \* processes that may change a password
          Readers,       \* processes that look a password hash up
          Users,         \* account names
          Hashes,        \* password fields: hashes, "", "!"
          Tails,         \* the aging fields that follow the hash
          NoTail,        \* no aging fields at all: "name:hash\n"
          DefaultTail,   \* "0:0:99999:7:::"
          Inodes,        \* inodes of the file system that holds /etc
          NoInode,       \* a name that does not exist, a file not open
          NoProc,        \* nobody holds the lock
          NoHash,        \* a lookup that found nothing
          NoUser,        \* no call in progress
          MaxTries,      \* flock attempts, 20 in lock_accounts
          InitFiles      \* the /etc/shadow the image may have been built with

Entry == [name : Users, hash : Hashes, tail : Tails]

ASSUME TailsAssumption == {NoTail, DefaultTail} \subseteq Tails /\ NoTail # DefaultTail
ASSUME NoInodeAssumption == NoInode \notin Inodes
ASSUME NoProcAssumption == NoProc \notin Procs
ASSUME NoHashAssumption == NoHash \notin Hashes
ASSUME NoUserAssumption == NoUser \notin Users
ASSUME MaxTriesAssumption == MaxTries \in Nat
ASSUME InitFilesAssumption == InitFiles \subseteq Seq(Entry)

VARIABLES
  content,  \* [Inodes -> Seq(Entry)]: the bytes of each inode, as lines
  shadow,   \* the inode /etc/shadow names
  temp,     \* the inode /etc/shadow.new names, or NoInode
  lock,     \* who holds the flock on IR0_LOCK_FILE
  pc, tries, user, hash, src, dst, pos, found, rc, \* per updating process
  rpc, rfile, rpos, ruser, rval                         \* per reader

procVars   == <<pc, tries, user, hash, src, dst, pos, found, rc>>
readerVars == <<rpc, rfile, rpos, ruser, rval>>
fileVars   == <<content, shadow, temp>>
vars == <<content, shadow, temp, lock, pc, tries, user, hash, src, dst, pos,
          found, rc, rpc, rfile, rpos, ruser, rval>>

-----------------------------------------------------------------------------
(* The lines of a shadow file.                                             *)

\* The lines that carry the entry of u; only the first one counts for login.
Lines(s, u) == {i \in 1..Len(s) : s[i].name = u}

\* The least of a set of line numbers.
First(S) == CHOOSE i \in S : \A j \in S : i <= j

\* What ir0_shadow_hash returns for u when it reads the file s.
Lookup(s, u) == IF Lines(s, u) = {} THEN NoHash ELSE s[First(Lines(s, u))].hash

\* "user:hash:tail"
NewLine(u, h, t) == [name |-> u, hash |-> h, tail |-> t]

\* One turn of the copy loop: other users' lines pass through, the user's line
\* gets the new hash and keeps its aging fields.
CopyOf(e, u, h) ==
  IF e.name # u THEN e
  ELSE NewLine(u, h, IF e.tail = NoTail THEN DefaultTail ELSE e.tail)

\* The whole copy: every line of the user is replaced, and a user without a
\* line gets one at the end.
Rewrite(s, u, h) ==
  LET copied == [i \in 1..Len(s) |-> CopyOf(s[i], u, h)]
  IN  IF Lines(s, u) # {} THEN copied
      ELSE Append(copied, NewLine(u, h, DefaultTail))

-----------------------------------------------------------------------------
Init ==
  /\ shadow \in Inodes
  /\ \E s \in InitFiles : content = [i \in Inodes |-> IF i = shadow THEN s ELSE <<>>]
  /\ temp = NoInode
  /\ lock = NoProc
  /\ pc = [p \in Procs |-> "idle"]
  /\ tries = [p \in Procs |-> 0]
  /\ user = [p \in Procs |-> NoUser]
  /\ hash = [p \in Procs |-> NoHash]
  /\ src = [p \in Procs |-> NoInode]
  /\ dst = [p \in Procs |-> NoInode]
  /\ pos = [p \in Procs |-> 0]
  /\ found = [p \in Procs |-> FALSE]
  /\ rc = [p \in Procs |-> "fail"]
  /\ rpc = [r \in Readers |-> "idle"]
  /\ rfile = [r \in Readers |-> NoInode]
  /\ rpos = [r \in Readers |-> 0]
  /\ ruser = [r \in Readers |-> NoUser]
  /\ rval = [r \in Readers |-> NoHash]

-----------------------------------------------------------------------------
(* Inodes                                                                  *)

\* An inode lives as long as a name refers to it or a process has it open; the
\* file system hands out the others, empty.
Used == {shadow, temp} \cup {src[p] : p \in Procs} \cup {dst[p] : p \in Procs}
                       \cup {rfile[r] : r \in Readers}

\* Those a new file can get.
FreeInodes == Inodes \ Used

\* An inode nothing refers to any more loses its content.
Reclaim == content' = [i \in Inodes |-> IF i \in Used' THEN content[i] ELSE <<>>]

-----------------------------------------------------------------------------
(* ir0_shadow_set_hash(user, hash)                                         *)

\* p goes on from one point of the function to the next.
Goto(p, from, to) == pc[p] = from /\ pc' = [pc EXCEPT ![p] = to]

\* The call: rc starts at -1, found at 0, and so they are between calls.
Call(p, u, h) ==
  /\ Goto(p, "idle", "open_lock")
  /\ user' = [user EXCEPT ![p] = u]
  /\ hash' = [hash EXCEPT ![p] = h]
  /\ UNCHANGED <<content, shadow, temp, lock, tries, src, dst, pos, found, rc,
                 readerVars>>

\* The call ends, by return or with its process: its locals are gone.
DropFrame(p) ==
  /\ user' = [user EXCEPT ![p] = NoUser]
  /\ hash' = [hash EXCEPT ![p] = NoHash]
  /\ tries' = [tries EXCEPT ![p] = 0]
  /\ pos' = [pos EXCEPT ![p] = 0]
  /\ found' = [found EXCEPT ![p] = FALSE]
  /\ rc' = [rc EXCEPT ![p] = "fail"]

\* lock_accounts: open IR0_LOCK_FILE, or give up when that fails.
OpenLockFile(p) ==
  /\ Goto(p, "open_lock", "lock")
  /\ UNCHANGED <<content, shadow, temp, lock, tries, user, hash, src, dst, pos, found, rc,
                 readerVars>>

\* No lock: return -1.
Refuse(p, from) ==
  /\ Goto(p, from, "refused")
  /\ UNCHANGED <<content, shadow, temp, lock, tries, user, hash, src, dst, pos, found, rc,
                 readerVars>>

\* open(IR0_LOCK_FILE) fails.
OpenLockFileFails(p) == Refuse(p, "open_lock")

\* Bug: flock(LOCK_SH), which does not exclude other holders.
SharedLock(p) ==
  /\ tries[p] < MaxTries
  /\ Goto(p, "lock", "open_src")
  /\ lock' = p
  /\ UNCHANGED <<content, shadow, temp, tries, user, hash, src, dst, pos, found, rc,
                 readerVars>>

\* flock(LOCK_EX | LOCK_NB) succeeds ...
AcquireLock(p) ==
  /\ tries[p] < MaxTries
  /\ lock = NoProc
  /\ Goto(p, "lock", "open_src")
  /\ lock' = p
  /\ UNCHANGED <<content, shadow, temp, tries, user, hash, src, dst, pos, found, rc,
                 readerVars>>

\* Bug: the failed attempt is not counted.
LockBusyUncounted(p) ==
  /\ pc[p] = "lock"
  /\ tries[p] < MaxTries
  /\ lock # NoProc
  /\ UNCHANGED vars

\* Bug: the loop has no bound.
LockBusyUnbounded(p) ==
  /\ pc[p] = "lock"
  /\ lock # NoProc
  /\ tries' = [tries EXCEPT ![p] = @ + 1]
  /\ UNCHANGED <<content, shadow, temp, lock, pc, user, hash, src, dst, pos, found, rc,
                 readerVars>>

\* ... or finds it taken, and the process sleeps 50 ms before the next try ...
LockBusy(p) ==
  /\ pc[p] = "lock"
  /\ tries[p] < MaxTries
  /\ lock # NoProc
  /\ tries' = [tries EXCEPT ![p] = @ + 1]
  /\ UNCHANGED <<content, shadow, temp, lock, pc, user, hash, src, dst, pos, found, rc,
                 readerVars>>

\* ... until the tries are used up: close the lock file and return -1.
LockTimeout(p) == tries[p] >= MaxTries /\ Refuse(p, "lock")

\* fopen(IR0_SHADOW_FILE, "r")
OpenSource(p) ==
  /\ Goto(p, "open_src", "open_dst")
  /\ src' = [src EXCEPT ![p] = shadow]
  /\ UNCHANGED <<content, shadow, temp, lock, tries, user, hash, dst, pos, found, rc,
                 readerVars>>

\* fopen of the source or of the copy fails: close what is open, out_unlock.
OpenFails(p) ==
  /\ \/ Goto(p, "open_src", "unlock")
     \/ Goto(p, "open_dst", "unlock")
  /\ src' = [src EXCEPT ![p] = NoInode]
  /\ UNCHANGED <<content, shadow, temp, lock, tries, user, hash, dst, pos, found, rc,
                 readerVars>>

\* Bug: fopen(tmp_path, "a"), which keeps what a killed process left behind.
OpenTempToAppend(p) ==
  /\ Goto(p, "open_dst", "copy")
  /\ \E i \in IF temp # NoInode THEN {temp} ELSE FreeInodes :
       /\ temp' = i
       /\ dst' = [dst EXCEPT ![p] = i]
  /\ UNCHANGED <<content, shadow, lock, tries, user, hash, src, pos, found, rc,
                 readerVars>>

\* fopen(tmp_path, "w"): a left-over copy is truncated, otherwise a new file.
OpenTemp(p) ==
  /\ Goto(p, "open_dst", "copy")
  /\ \E i \in IF temp # NoInode THEN {temp} ELSE FreeInodes :
       /\ temp' = i
       /\ dst' = [dst EXCEPT ![p] = i]
       /\ content' = [content EXCEPT ![i] = <<>>]
  /\ UNCHANGED <<shadow, lock, tries, user, hash, src, pos, found, rc,
                 readerVars>>

\* One line from fgets to fputs or fprintf.
CopyLine(p) ==
  /\ pc[p] = "copy"
  /\ pos[p] < Len(content[src[p]])
  /\ LET e == content[src[p]][pos[p] + 1]
     IN  /\ content' = [content EXCEPT ![dst[p]] = Append(@, CopyOf(e, user[p], hash[p]))]
         /\ found' = [found EXCEPT ![p] = @ \/ e.name = user[p]]
  /\ pos' = [pos EXCEPT ![p] = @ + 1]
  /\ UNCHANGED <<shadow, temp, lock, pc, tries, user, hash, src, dst, rc,
                 readerVars>>

\* End of the source: append the line of a user who had none, fflush, close both.
FinishCopy(p) ==
  /\ Goto(p, "copy", "rename")
  /\ pos[p] >= Len(content[src[p]])
  /\ content' = [content EXCEPT ![dst[p]] =
                   IF found[p] THEN @ ELSE Append(@, NewLine(user[p], hash[p], DefaultTail))]
  /\ src' = [src EXCEPT ![p] = NoInode]
  /\ dst' = [dst EXCEPT ![p] = NoInode]
  /\ pos' = [pos EXCEPT ![p] = 0]
  /\ found' = [found EXCEPT ![p] = FALSE]
  /\ UNCHANGED <<shadow, temp, lock, tries, user, hash, rc,
                 readerVars>>

\* Bug: the error of fputs or fflush is ignored.
WriteErrorIgnored(p) ==
  /\ Goto(p, "copy", "rename")
  /\ src' = [src EXCEPT ![p] = NoInode]
  /\ dst' = [dst EXCEPT ![p] = NoInode]
  /\ pos' = [pos EXCEPT ![p] = 0]
  /\ found' = [found EXCEPT ![p] = FALSE]
  /\ UNCHANGED <<content, shadow, temp, lock, tries, user, hash, rc,
                 readerVars>>

\* A write or the flush fails: out_files closes both and unlinks the copy.
WriteFails(p) ==
  /\ Goto(p, "copy", "unlock")
  /\ temp' = NoInode
  /\ src' = [src EXCEPT ![p] = NoInode]
  /\ dst' = [dst EXCEPT ![p] = NoInode]
  /\ pos' = [pos EXCEPT ![p] = 0]
  /\ found' = [found EXCEPT ![p] = FALSE]
  /\ UNCHANGED <<shadow, lock, tries, user, hash, rc,
                 readerVars>>
  /\ Reclaim

\* rename(tmp_path, IR0_SHADOW_FILE) and rc = 0.
Rename(p) ==
  /\ Goto(p, "rename", "unlock")
  /\ temp # NoInode
  /\ shadow' = temp
  /\ temp' = NoInode
  /\ rc' = [rc EXCEPT ![p] = "ok"]
  /\ UNCHANGED <<lock, tries, user, hash, src, dst, pos, found,
                 readerVars>>
  /\ Reclaim

\* rename fails: unlink the copy.
RenameFails(p) ==
  /\ Goto(p, "rename", "unlock")
  /\ temp' = NoInode
  /\ UNCHANGED <<shadow, lock, tries, user, hash, src, dst, pos, found, rc,
                 readerVars>>
  /\ Reclaim

\* out_unlock: release the lock, return rc.
Unlock(p) ==
  /\ Goto(p, "unlock", "idle")
  /\ lock' = NoProc
  /\ DropFrame(p)
  /\ UNCHANGED <<content, shadow, temp, src, dst, readerVars>>

\* The process never got the lock: return -1.
ReturnRefused(p) ==
  /\ Goto(p, "refused", "idle")
  /\ DropFrame(p)
  /\ UNCHANGED <<content, shadow, temp, lock, src, dst, readerVars>>

\* The process is killed: the kernel closes its files, which drops its lock.
Crash(p) ==
  /\ pc[p] # "idle"
  /\ pc' = [pc EXCEPT ![p] = "idle"]
  /\ lock' = IF lock = p THEN NoProc ELSE lock
  /\ src' = [src EXCEPT ![p] = NoInode]
  /\ dst' = [dst EXCEPT ![p] = NoInode]
  /\ DropFrame(p)
  /\ UNCHANGED <<shadow, temp, readerVars>>
  /\ Reclaim

-----------------------------------------------------------------------------
(* ir0_shadow_hash(user)                                                   *)

\* fopen(IR0_SHADOW_FILE, "r"), whoever holds the lock.
OpenRead(r, u) ==
  /\ rpc[r] = "idle"
  /\ rpc' = [rpc EXCEPT ![r] = "scan"]
  /\ rfile' = [rfile EXCEPT ![r] = shadow]
  /\ ruser' = [ruser EXCEPT ![r] = u]
  /\ UNCHANGED <<content, shadow, temp, lock, rpos, rval, procVars>>

\* That fopen fails: the lookup is going to return -1, whoever the user is.
OpenReadFails(r, u) ==
  /\ rpc[r] = "idle"
  /\ rpc' = [rpc EXCEPT ![r] = "failed"]
  /\ ruser' = [ruser EXCEPT ![r] = u]
  /\ UNCHANGED <<content, shadow, temp, lock, rfile, rpos, rval, procVars>>

\* A line of somebody else: go on with the next one.
SkipLine(r) ==
  /\ rpc[r] = "scan"
  /\ rpos[r] < Len(content[rfile[r]])
  /\ content[rfile[r]][rpos[r] + 1].name # ruser[r]
  /\ rpos' = [rpos EXCEPT ![r] = @ + 1]
  /\ UNCHANGED <<content, shadow, temp, lock, procVars, rpc, rfile, ruser, rval>>

\* The user's first line, or the end of the file: close.
EndRead(r) ==
  /\ rpc[r] = "scan"
  /\ \/ /\ rpos[r] >= Len(content[rfile[r]])
        /\ rval' = rval
     \/ /\ rpos[r] < Len(content[rfile[r]])
        /\ content[rfile[r]][rpos[r] + 1].name = ruser[r]
        /\ rval' = [rval EXCEPT ![r] = content[rfile[r]][rpos[r] + 1].hash]
  /\ rpc' = [rpc EXCEPT ![r] = "done"]
  /\ rfile' = [rfile EXCEPT ![r] = NoInode]
  /\ rpos' = [rpos EXCEPT ![r] = 0]
  /\ UNCHANGED <<shadow, temp, lock, procVars, ruser>>
  /\ Reclaim

\* The lookup returns the hash, or -1 for NoHash.
ReturnHash(r) ==
  /\ rpc[r] \in {"done", "failed"}
  /\ rpc' = [rpc EXCEPT ![r] = "idle"]
  /\ ruser' = [ruser EXCEPT ![r] = NoUser]
  /\ rval' = [rval EXCEPT ![r] = NoHash]
  /\ UNCHANGED <<content, shadow, temp, lock, procVars, rfile, rpos>>

-----------------------------------------------------------------------------
\* What a running update does next; it is never blocked, it sleeps and retries.
Step(p) == \/ OpenLockFile(p) \/ OpenLockFileFails(p)
           \/ AcquireLock(p) \/ LockBusy(p) \/ LockTimeout(p)
           \/ OpenSource(p) \/ OpenFails(p) \/ OpenTemp(p)
           \/ CopyLine(p) \/ FinishCopy(p) \/ WriteFails(p)
           \/ Rename(p) \/ RenameFails(p) \/ Unlock(p) \/ ReturnRefused(p)

\* What a running lookup does next.
ReadStep(r) == SkipLine(r) \/ EndRead(r) \/ ReturnHash(r)

Next == \/ \E p \in Procs : \/ \E u \in Users, h \in Hashes : Call(p, u, h)
                            \/ Step(p)
                            \/ Crash(p)
        \/ \E r \in Readers : \/ \E u \in Users : OpenRead(r, u) \/ OpenReadFails(r, u)
                              \/ ReadStep(r)

Spec == Init /\ [][Next]_vars

\* The scheduler runs every process that can run.  Nothing forces anybody to
\* change a password, and nothing forces a crash.
Fairness == /\ \A p \in Procs : WF_vars(Step(p))
            /\ \A r \in Readers : WF_vars(ReadStep(r))

FairSpec == Spec /\ Fairness

-----------------------------------------------------------------------------
PCs == {"idle", "open_lock", "lock", "open_src", "open_dst", "copy", "rename", "unlock", "refused"}

\* The values the variables range over.
TypeOK ==
  /\ content \in [Inodes -> Seq(Entry)]
  /\ shadow \in Inodes
  /\ temp \in Inodes \cup {NoInode}
  /\ lock \in Procs \cup {NoProc}
  /\ pc \in [Procs -> PCs]
  /\ tries \in [Procs -> 0..MaxTries]
  /\ user \in [Procs -> Users \cup {NoUser}]
  /\ hash \in [Procs -> Hashes \cup {NoHash}]
  /\ src \in [Procs -> Inodes \cup {NoInode}]
  /\ dst \in [Procs -> Inodes \cup {NoInode}]
  /\ pos \in [Procs -> Nat]
  /\ found \in [Procs -> BOOLEAN]
  /\ rc \in [Procs -> {"ok", "fail"}]
  /\ rpc \in [Readers -> {"idle", "scan", "done", "failed"}]
  /\ rfile \in [Readers -> Inodes \cup {NoInode}]
  /\ rpos \in [Readers -> Nat]
  /\ ruser \in [Readers -> Users \cup {NoUser}]
  /\ rval \in [Readers -> Hashes \cup {NoHash}]

-----------------------------------------------------------------------------
(* Safety                                                                  *)

\* From a successful flock to its release.
Critical == {"open_src", "open_dst", "copy", "rename", "unlock"}

\* The flock is held by exactly the process between its two ends: nobody else
\* ever works on the copy, and a killed process leaves no lock behind.
LockHeldInCritical == \A p \in Procs : pc[p] \in Critical <=> lock = p

\* The file /etc/shadow names, and a file a login is in the middle of reading,
\* is never open for writing: nobody can see a partly copied password file.
LiveFileNotWritten ==
  \A p \in Procs : dst[p] # NoInode =>
    /\ dst[p] # shadow
    /\ \A r \in Readers : rfile[r] # dst[p]

\* /etc/shadow changes only when an update publishes its copy, and that copy is
\* the rewrite of what /etc/shadow holds at that instant: an update that
\* another process completed in between is never lost.
UpdateIsRewrite ==
  [][content'[shadow'] # content[shadow] =>
       \E p \in Procs : /\ pc[p] = "rename" /\ rc'[p] = "ok"
                        /\ content'[shadow'] = Rewrite(content[shadow], user[p], hash[p])]_vars

\* The invariant behind all of it.  While p works on its copy, the copy is the
\* rewrite of the first pos[p] lines of the file /etc/shadow still names.
CopyInProgress(p) ==
  /\ src[p] = shadow
  /\ dst[p] = temp
  /\ temp # NoInode
  /\ pos[p] <= Len(content[shadow])
  /\ content[temp] = [i \in 1..pos[p] |-> CopyOf(content[shadow][i], user[p], hash[p])]
  /\ found[p] <=> \E i \in 1..pos[p] : content[shadow][i].name = user[p]

\* The finished copy, closed and not yet renamed.
CopyComplete(p) ==
  /\ temp # NoInode
  /\ content[temp] = Rewrite(content[shadow], user[p], hash[p])

\* What holds of a process at each point of its update.
ProcInv(p) ==
  /\ pc[p] # "idle" => user[p] \in Users /\ hash[p] \in Hashes
  /\ pc[p] \in {"idle", "open_lock", "lock", "open_src", "open_dst"} => pos[p] = 0 /\ ~found[p]
  /\ pc[p] = "open_dst" => src[p] = shadow
  /\ pc[p] = "copy" => CopyInProgress(p)
  /\ pc[p] = "rename" => CopyComplete(p)
  /\ pc[p] # "unlock" => rc[p] = "fail"
  /\ pc[p] \notin {"open_dst", "copy"} => src[p] = NoInode
  /\ pc[p] # "copy" => dst[p] = NoInode

\* A lookup in progress reads a file that is not the copy, and has found no line
\* of its user so far.
ReaderInv(r) ==
  /\ rpc[r] = "scan" => /\ rfile[r] \in Inodes /\ ruser[r] \in Users
                        /\ rval[r] = NoHash
                        /\ rpos[r] <= Len(content[rfile[r]])
                        /\ \A i \in 1..rpos[r] : content[rfile[r]][i].name # ruser[r]
  /\ rpc[r] # "scan" => rfile[r] = NoInode /\ rpos[r] = 0
  /\ rpc[r] \in {"idle", "failed"} => rval[r] = NoHash
  /\ rfile[r] # NoInode => rfile[r] # temp

\* Of any number of processes at once, the lock among them, no copy is ever
\* other than the rewrite of the live file as far as it goes.
Inv == /\ LockHeldInCritical
       /\ temp # shadow
       /\ \A p \in Procs : ProcInv(p)
       /\ \A r \in Readers : ReaderInv(r)

-----------------------------------------------------------------------------
(* The promise                                                             *)

\* How far the call is, as its caller sees it.
status ==
  [p \in Procs |-> CASE pc[p] = "idle" -> "idle"
                     [] pc[p] = "unlock" /\ rc[p] = "ok" -> "applied"
                     [] pc[p] = "unlock" /\ rc[p] = "fail" -> "refused"
                     [] pc[p] = "refused" -> "refused"
                     [] OTHER -> "pending"]

\* The table the file stands for.
table == [u \in Users |-> Lookup(content[shadow], u)]

\* Whether a lookup is in progress, and whether it could open the file.
reading ==
  [r \in Readers |-> IF rpc[r] = "idle" THEN "no"
                     ELSE IF rpc[r] = "failed" THEN "failed" ELSE "yes"]

\* What the lookup in progress is going to return.
willSee == [r \in Readers |-> IF rpc[r] = "scan"
                              THEN Lookup(content[rfile[r]], ruser[r])
                              ELSE rval[r]]

Promise == INSTANCE AtomicShadow
             WITH db <- table, status <- status, reading <- reading, sees <- willSee

\* To its callers the file is a table: the whole copy-and-rename takes effect at
\* one instant, a call returns 0 exactly when it did, and a lookup that could open
\* the file returns what the table held at that moment.  One that could not
\* returns -1, for a user who has a hash too.
ImplementsAtomicShadow == Promise!Spec

-----------------------------------------------------------------------------
(* Liveness                                                                *)

\* The lock attempts are bounded, so a call returns whatever the others do.
CallReturns == \A p \in Procs : pc[p] # "idle" ~> pc[p] = "idle"

=============================================================================
