---------------------------- MODULE AtomicShadow ----------------------------
(***************************************************************************)
(* What the password database promises to its clients (passwd, adduser,    *)
(* login): one table from users to password hashes, in which an update     *)
(* replaces the hash of one user at one instant, a call reports success    *)
(* exactly when its update happened, and a lookup that can read the table  *)
(* returns the entry it held at one instant of the call.  A lookup that    *)
(* cannot says that there is no entry, and its caller cannot tell the two  *)
(* apart.  A caller may die at any time, before or after its update took   *)
(* effect.                                                                 *)
(***************************************************************************)

CONSTANTS Procs,    \* processes that may change a password
          Readers,  \* processes that look a password hash up
          Users,    \* account names
          Hashes,   \* password fields
          NoHash,   \* "no entry for this user"
          NoUser    \* no call in progress

VARIABLES db,       \* [Users -> Hashes \cup {NoHash}], the table
          status,   \* where the call of each process is
          user,     \* the account the call is about
          hash,     \* the hash the call stores
          reading,  \* where the lookup of this reader is: "no", "yes" or "failed"
          sees      \* what the lookup of this reader returns

vars == <<db, status, user, hash, reading, sees>>

Init == /\ db \in [Users -> Hashes \cup {NoHash}]
        /\ status = [p \in Procs |-> "idle"]
        /\ user = [p \in Procs |-> NoUser]
        /\ hash = [p \in Procs |-> NoHash]
        /\ reading = [r \in Readers |-> "no"]
        /\ sees = [r \in Readers |-> NoHash]

\* passwd asks for the update.
Begin(p, u, h) == /\ status[p] = "idle"
                  /\ status' = [status EXCEPT ![p] = "pending"]
                  /\ user' = [user EXCEPT ![p] = u]
                  /\ hash' = [hash EXCEPT ![p] = h]
                  /\ UNCHANGED <<db, reading, sees>>

\* The instant of the update.
Apply(p) == /\ status[p] = "pending"
            /\ status' = [status EXCEPT ![p] = "applied"]
            /\ db' = [db EXCEPT ![user[p]] = hash[p]]
            /\ UNCHANGED <<user, hash, reading, sees>>

\* The call gives up without a trace in the table.
Refuse(p) == /\ status[p] = "pending"
             /\ status' = [status EXCEPT ![p] = "refused"]
             /\ UNCHANGED <<db, user, hash, reading, sees>>

\* The call is over.
End(p) == /\ status' = [status EXCEPT ![p] = "idle"]
          /\ user' = [user EXCEPT ![p] = NoUser]
          /\ hash' = [hash EXCEPT ![p] = NoHash]
          /\ UNCHANGED <<db, reading, sees>>

\* "applied" returns 0, "refused" returns -1.
Return(p) == status[p] \in {"applied", "refused"} /\ End(p)

\* The caller is killed.
Die(p) == status[p] # "idle" /\ End(p)

\* A lookup is settled when it begins; how long it takes does not matter.
BeginRead(r, u) == /\ reading[r] = "no"
                   /\ reading' = [reading EXCEPT ![r] = "yes"]
                   /\ sees' = [sees EXCEPT ![r] = db[u]]
                   /\ UNCHANGED <<db, status, user, hash>>

\* A lookup that cannot read the table finds nothing.
BeginReadFails(r) == /\ reading[r] = "no"
                     /\ reading' = [reading EXCEPT ![r] = "failed"]
                     /\ sees' = [sees EXCEPT ![r] = NoHash]
                     /\ UNCHANGED <<db, status, user, hash>>

\* The lookup returns what it settled on.
EndRead(r) == /\ reading[r] \in {"yes", "failed"}
              /\ reading' = [reading EXCEPT ![r] = "no"]
              /\ sees' = [sees EXCEPT ![r] = NoHash]
              /\ UNCHANGED <<db, status, user, hash>>

Next == \/ \E p \in Procs : \/ \E u \in Users, h \in Hashes : Begin(p, u, h)
                            \/ Apply(p)
                            \/ Refuse(p)
                            \/ Return(p)
                            \/ Die(p)
        \/ \E r \in Readers : \/ \E u \in Users : BeginRead(r, u)
                              \/ BeginReadFails(r)
                              \/ EndRead(r)

Spec == Init /\ [][Next]_vars
=============================================================================
