---------------------------- MODULE AccountAdmin ----------------------------
(***************************************************************************)
(* adduser (services/ir0_adduser.c) beside passwd (ShadowUpdate): the two  *)
(* programs that change the account files of a running system.             *)
(*                                                                         *)
(* adduser checks that the name is free, asks for the password, picks the  *)
(* next uid, appends a line to /etc/passwd and one to /etc/shadow, and     *)
(* rewrites /etc/group twice through /etc/group.new.  It takes no lock, so *)
(* every step interleaves with the passwd processes and other adders, and  *)
(* an adder that fails or is killed leaves the files as they are.          *)
(*                                                                         *)
(* An append writes its whole line or nothing.  /etc/passwd is only ever   *)
(* appended to here; /etc/group and its copy are inodes, like /etc/shadow. *)
(* Where fopen for reading fails, adduser goes on as if the file had no    *)
(* lines: Unreadable says for which files that may happen.                 *)
(***************************************************************************)
EXTENDS ShadowUpdate, FiniteSetsExt

CONSTANTS Adders,      \* adduser processes
          ValidUsers,  \* the names valid_username accepts
          FirstUid,    \* 1000 in next_uid
          MaxAccounts, \* adduser is not started beyond so many lines of /etc/passwd
          Unreadable,  \* the files for which fopen(path, "r") may fail
          InitPasswd,  \* the /etc/passwd of the image
          Groups,      \* the groups adduser adds to, in order
          GroupFiles,  \* inodes for /etc/group and /etc/group.new
          NoFile,
          InitGroup,   \* the members of /etc/group in the image
          Within(_, _) \* Within(u, v): the text of u occurs in that of v

Account == [name : Users, uid : Nat]

ASSUME ValidUsersAssumption == ValidUsers \subseteq Users
ASSUME FirstUidAssumption == FirstUid \in Nat
ASSUME MaxAccountsAssumption == MaxAccounts \in Nat
ASSUME UnreadableAssumption == Unreadable \subseteq {"passwd", "group"}
ASSUME InitPasswdAssumption == InitPasswd \in Seq(Account)
ASSUME GroupsAssumption == Groups \in Seq(STRING) /\ Len(Groups) > 0
ASSUME InitGroupAssumption == InitGroup \subseteq {Groups[i] : i \in DOMAIN Groups} \X Users
ASSUME NoFileAssumption == NoFile \notin GroupFiles
ASSUME WithinAssumption == \A u \in Users : Within(u, u)

VARIABLES
  passwd,                  \* the lines of /etc/passwd
  gdata, group, gtemp,     \* group inodes, what /etc/group and /etc/group.new name
  apc, auser, ahash, auid, \* per adder
  asrc,                    \* the inode of /etc/shadow it has open to append
  agrp, gsrc, gdst         \* the group it is at, the group files it has open

adminVars == <<passwd, gdata, group, gtemp, apc, auser, ahash, auid, asrc, agrp, gsrc, gdst>>
allVars   == <<vars, adminVars>>

\* The accounts a passwd or shadow file has lines for.
Names(s) == {s[i].name : i \in DOMAIN s}

\* In the image every name with a hash or in a group has an account.
ASSUME ImageNestedAssumption ==
  /\ \A s \in InitFiles : Names(s) \subseteq Names(InitPasswd)
  /\ \A m \in InitGroup : m[2] \in Names(InitPasswd)

\* ir0_account_by_name: the first line of u.
AccountOf(s, u) == s[First(Lines(s, u))]

\* Bug: "u > next" instead of "u >= next".
NextUidExclusive ==
  Max({FirstUid} \cup {passwd[i].uid + 1 : i \in {j \in DOMAIN passwd : passwd[j].uid > FirstUid}})

\* next_uid: one above the largest uid of the file, and at least FirstUid.
NextUid == Max({FirstUid} \cup {passwd[i].uid + 1 : i \in DOMAIN passwd})

\* Bug: a list that is already there is replaced.
OnlyMember(members, g, u) == {m \in members : m[1] # g} \cup {<<g, u>>}

\* The members ensure_group_member writes when it adds u to g: strstr looks for
\* u in the text of the whole list.
WithMember(members, g, u) ==
  IF \E v \in Users : <<g, v>> \in members /\ Within(u, v) THEN members
  ELSE members \cup {<<g, u>>}

-----------------------------------------------------------------------------
\* The account files of the image, and nobody at work.
AdminInit ==
  /\ Init
  /\ passwd = InitPasswd
  /\ group \in GroupFiles
  /\ gdata = [f \in GroupFiles |-> IF f = group THEN InitGroup ELSE {}]
  /\ gtemp = NoFile
  /\ apc = [a \in Adders |-> "idle"]
  /\ auser = [a \in Adders |-> NoUser]
  /\ ahash = [a \in Adders |-> NoHash]
  /\ auid = [a \in Adders |-> 0]
  /\ asrc = [a \in Adders |-> NoInode]
  /\ agrp = [a \in Adders |-> 1]
  /\ gsrc = [a \in Adders |-> NoFile]
  /\ gdst = [a \in Adders |-> NoFile]

-----------------------------------------------------------------------------
(* passwd                                                                  *)

\* main of ir0_passwd changes the hash of an account it found in /etc/passwd.
ChangePassword(p, u, h) == u \in Names(passwd) /\ Call(p, u, h)

\* An inode an adder has open is not handed out again.
HeldInodes == {asrc[a] : a \in Adders}

\* A step of a passwd process beside adduser.
PasswdStep(p) ==
  /\ \/ \E u \in Users, h \in Hashes : ChangePassword(p, u, h)
     \/ Step(p)
     \/ Crash(p)
  /\ temp' # temp => temp' \notin HeldInodes
  /\ UNCHANGED adminVars

-----------------------------------------------------------------------------
(* adduser                                                                 *)

\* The adder goes on from one point of main to the next.
AGoto(a, from, to) == apc[a] = from /\ apc' = [apc EXCEPT ![a] = to]

\* The name is valid and free now, as far as ir0_account_by_name can tell; the
\* passwords are still to be typed.
CheckName(a, u) ==
  /\ AGoto(a, "idle", "prompt")
  /\ Len(passwd) < MaxAccounts
  /\ u \in ValidUsers
  /\ u \notin Names(passwd) \/ "passwd" \in Unreadable
  /\ auser' = [auser EXCEPT ![a] = u]
  /\ UNCHANGED <<vars, passwd, gdata, group, gtemp, ahash, auid, asrc, agrp, gsrc, gdst>>

\* Two equal, non-empty passwords, typed at leisure, the hash of the first, and
\* next_uid, which returns FirstUid when it cannot open the file.
ChooseUid(a, h) ==
  /\ AGoto(a, "prompt", "passwd")
  /\ ahash' = [ahash EXCEPT ![a] = h]
  /\ \E n \in {NextUid} \cup (IF "passwd" \in Unreadable THEN {FirstUid} ELSE {}) :
       auid' = [auid EXCEPT ![a] = n]
  /\ UNCHANGED <<vars, passwd, gdata, group, gtemp, auser, asrc, agrp, gsrc, gdst>>

\* Bug: the line is written before the others' lines.
PrependPasswd(a) ==
  /\ AGoto(a, "passwd", "open_shadow")
  /\ passwd' = <<[name |-> auser[a], uid |-> auid[a]]>> \o passwd
  /\ UNCHANGED <<vars, gdata, group, gtemp, auser, ahash, auid, asrc, agrp, gsrc, gdst>>

\* Bug: the result of append_line is not looked at.
AppendPasswdUnchecked(a) ==
  /\ AGoto(a, "passwd", "open_shadow")
  /\ passwd' \in {passwd, Append(passwd, [name |-> auser[a], uid |-> auid[a]])}
  /\ UNCHANGED <<vars, gdata, group, gtemp, auser, ahash, auid, asrc, agrp, gsrc, gdst>>

\* append_line(IR0_PASSWD_FILE): the account exists from here on.
AppendPasswd(a) ==
  /\ AGoto(a, "passwd", "open_shadow")
  /\ passwd' = Append(passwd, [name |-> auser[a], uid |-> auid[a]])
  /\ UNCHANGED <<vars, gdata, group, gtemp, auser, ahash, auid, asrc, agrp, gsrc, gdst>>

\* append_line(IR0_SHADOW_FILE): open, O_APPEND write, close.
OpenShadow(a) ==
  /\ AGoto(a, "open_shadow", "shadow")
  /\ asrc' = [asrc EXCEPT ![a] = shadow]
  /\ UNCHANGED <<vars, passwd, gdata, group, gtemp, auser, ahash, auid, agrp, gsrc, gdst>>

\* Bug: O_TRUNC instead of O_APPEND.
TruncateShadow(a) ==
  /\ AGoto(a, "shadow", "open_group")
  /\ content' = [content EXCEPT ![asrc[a]] = <<NewLine(auser[a], ahash[a], DefaultTail)>>]
  /\ asrc' = [asrc EXCEPT ![a] = NoInode]
  /\ UNCHANGED <<shadow, temp, lock, procVars, readerVars,
                 passwd, gdata, group, gtemp, auser, ahash, auid, agrp, gsrc, gdst>>

\* The line goes to the inode that was opened; when a rename has replaced it
\* since and nobody else has it open, it goes nowhere.
AppendShadow(a) ==
  /\ AGoto(a, "shadow", "open_group")
  /\ content' = [content EXCEPT ![asrc[a]] =
                   IF asrc[a] \in Used
                   THEN Append(@, NewLine(auser[a], ahash[a], DefaultTail)) ELSE @]
  /\ asrc' = [asrc EXCEPT ![a] = NoInode]
  /\ UNCHANGED <<shadow, temp, lock, procVars, readerVars,
                 passwd, gdata, group, gtemp, auser, ahash, auid, agrp, gsrc, gdst>>

\* ensure_group_member: open /etc/group, or do without ...
OpenGroup(a) ==
  /\ AGoto(a, "open_group", "open_copy")
  /\ \E f \in {group} \cup (IF "group" \in Unreadable THEN {NoFile} ELSE {}) :
       gsrc' = [gsrc EXCEPT ![a] = f]
  /\ UNCHANGED <<vars, passwd, gdata, group, gtemp, auser, ahash, auid, asrc, agrp, gdst>>

\* The inodes a new /etc/group.new can get, and what becomes of one nobody refers to.
UsedGroupFiles == {group, gtemp} \cup {gsrc[a] : a \in Adders} \cup {gdst[a] : a \in Adders}

FreeGroupFiles == GroupFiles \ UsedGroupFiles

ReclaimGroup ==
  gdata' = [f \in GroupFiles |-> IF f \in UsedGroupFiles' THEN gdata[f] ELSE {}]

\* ... fopen(tmp, "w"): truncate the copy, whoever is writing it ...
OpenGroupCopy(a) ==
  /\ AGoto(a, "open_copy", "write")
  /\ \E f \in IF gtemp # NoFile THEN {gtemp} ELSE FreeGroupFiles :
       /\ gtemp' = f
       /\ gdst' = [gdst EXCEPT ![a] = f]
       /\ gdata' = [gdata EXCEPT ![f] = {}]
  /\ UNCHANGED <<vars, passwd, group, auser, ahash, auid, asrc, agrp, gsrc>>

\* ... read all of one, write all of the other (both fit a stdio buffer), close ...
WriteGroupCopy(a) ==
  /\ AGoto(a, "write", "rename")
  /\ gdata' = [gdata EXCEPT ![gdst[a]] =
                 WithMember(IF gsrc[a] = NoFile THEN {} ELSE gdata[gsrc[a]],
                            Groups[agrp[a]], auser[a])]
  /\ gsrc' = [gsrc EXCEPT ![a] = NoFile]
  /\ gdst' = [gdst EXCEPT ![a] = NoFile]
  /\ UNCHANGED <<vars, passwd, group, gtemp, auser, ahash, auid, asrc, agrp>>

\* Bug: success after the first group.
RenameFirstGroup(a) ==
  /\ AGoto(a, "rename", "done")
  /\ gtemp # NoFile
  /\ group' = gtemp
  /\ gtemp' = NoFile
  /\ UNCHANGED <<vars, passwd, auser, ahash, auid, asrc, agrp, gsrc, gdst>>
  /\ ReclaimGroup

\* Bug: no end to the groups.
RenameGroupAgain(a) ==
  /\ AGoto(a, "rename", "open_group")
  /\ gtemp # NoFile
  /\ group' = gtemp
  /\ gtemp' = NoFile
  /\ agrp' = [agrp EXCEPT ![a] = @ + 1]
  /\ UNCHANGED <<vars, passwd, auser, ahash, auid, asrc, gsrc, gdst>>
  /\ ReclaimGroup

\* ... rename, and the next group, or success.
RenameGroup(a) ==
  /\ apc[a] = "rename"
  /\ gtemp # NoFile
  /\ group' = gtemp
  /\ gtemp' = NoFile
  /\ IF agrp[a] < Len(Groups)
     THEN /\ apc' = [apc EXCEPT ![a] = "open_group"]
          /\ agrp' = [agrp EXCEPT ![a] = @ + 1]
     ELSE /\ apc' = [apc EXCEPT ![a] = "done"]
          /\ agrp' = agrp
  /\ UNCHANGED <<vars, passwd, auser, ahash, auid, asrc, gsrc, gdst>>
  /\ ReclaimGroup

\* The adduser process ends, and with it its locals and open files.
AEnd(a) ==
  /\ apc' = [apc EXCEPT ![a] = "idle"]
  /\ auser' = [auser EXCEPT ![a] = NoUser]
  /\ ahash' = [ahash EXCEPT ![a] = NoHash]
  /\ auid' = [auid EXCEPT ![a] = 0]
  /\ asrc' = [asrc EXCEPT ![a] = NoInode]
  /\ agrp' = [agrp EXCEPT ![a] = 1]
  /\ gsrc' = [gsrc EXCEPT ![a] = NoFile]
  /\ gdst' = [gdst EXCEPT ![a] = NoFile]
  /\ UNCHANGED <<vars, passwd, group>>

\* "account created": exit 0.
ExitCreated(a) == apc[a] = "done" /\ AEnd(a) /\ gtemp' = gtemp /\ ReclaimGroup

\* A read error, unequal or empty passwords, a failed hash, mkdir, open or
\* write, or a kill at any point: what is written stays written.
Abandon(a) == apc[a] \notin {"idle", "done"} /\ AEnd(a) /\ gtemp' = gtemp /\ ReclaimGroup

\* A failed write or rename of the group copy unlinks it first.
GroupFails(a) == apc[a] \in {"write", "rename"} /\ AEnd(a) /\ gtemp' = NoFile /\ ReclaimGroup

\* adduser takes no lock: any of these may come between two steps of another.
AdderStep(a) ==
  \/ \E u \in Users : CheckName(a, u)
  \/ \E h \in Hashes : ChooseUid(a, h)
  \/ AppendPasswd(a) \/ OpenShadow(a) \/ AppendShadow(a)
  \/ OpenGroup(a) \/ OpenGroupCopy(a) \/ WriteGroupCopy(a) \/ RenameGroup(a)
  \/ ExitCreated(a) \/ Abandon(a) \/ GroupFails(a)

AdminNext == \/ \E p \in Procs : PasswdStep(p)
             \/ \E a \in Adders : AdderStep(a)

AdminSpec == AdminInit /\ [][AdminNext]_allVars

-----------------------------------------------------------------------------
APCs == {"idle", "prompt", "passwd", "open_shadow", "shadow", "open_group",
         "open_copy", "write", "rename", "done"}

\* The values the variables of adduser range over.
AdminTypeOK ==
  /\ passwd \in Seq(Account)
  /\ gdata \in [GroupFiles -> SUBSET ({Groups[i] : i \in DOMAIN Groups} \X Users)]
  /\ group \in GroupFiles
  /\ gtemp \in GroupFiles \cup {NoFile}
  /\ apc \in [Adders -> APCs]
  /\ auser \in [Adders -> ValidUsers \cup {NoUser}]
  /\ ahash \in [Adders -> Hashes \cup {NoHash}]
  /\ auid \in [Adders -> Nat]
  /\ asrc \in [Adders -> Inodes \cup {NoInode}]
  /\ agrp \in [Adders -> DOMAIN Groups]
  /\ gsrc \in [Adders -> GroupFiles \cup {NoFile}]
  /\ gdst \in [Adders -> GroupFiles \cup {NoFile}]

-----------------------------------------------------------------------------
(* With any number of adders and passwd processes                          *)

\* A name is in /etc/shadow or in a group only if /etc/passwd has its account:
\* whatever fails or dies in between, passwd is written first and nothing
\* takes a line out of it.
NamesNested ==
  /\ Names(content[shadow]) \subseteq Names(passwd)
  /\ \A m \in gdata[group] : m[2] \in Names(passwd)

\* Two adders that both found a name free add it twice, and the first line
\* wins: no account ever changes its uid or disappears.
AccountIsStable ==
  [][\A u \in Names(passwd) : /\ u \in Names(passwd')
                              /\ AccountOf(passwd', u) = AccountOf(passwd, u)]_allVars

\* A user who has a hash keeps it until a passwd process publishes its rewrite,
\* although adders write into the file logins read.
HashKeptByAdders ==
  [][\A u \in Users :
       \/ Lookup(content[shadow], u) = NoHash
       \/ Lookup(content'[shadow'], u) = Lookup(content[shadow], u)
       \/ \E p \in Procs : pc[p] = "rename" /\ rc'[p] = "ok"]_allVars

-----------------------------------------------------------------------------
(* With one adder, no passwd process, and /etc/passwd readable             *)

\* What is left of /etc/group when ensure_group_member cannot open it: the group
\* and the user it was called for.
OnlyLast(a, i) == {<<Groups[i], auser[a]>>}

\* "account created" is true: the account has the uid and the hash adduser
\* chose, and each group lists the user or somebody whose name contains the
\* user's, unless /etc/group could not be opened for the last of them.
CreatedIsComplete ==
  \A a \in Adders : apc[a] = "done" =>
    /\ AccountOf(passwd, auser[a]).uid = auid[a]
    /\ Lookup(content[shadow], auser[a]) = ahash[a]
    /\ \/ \A i \in DOMAIN Groups : \E v \in Users :
            Within(auser[a], v) /\ <<Groups[i], v>> \in gdata[group]
       \/ gdata[group] = OnlyLast(a, Len(Groups))

\* No two accounts share a uid, however many runs of adduser were abandoned.
UidsUnique ==
  \A i, j \in DOMAIN passwd : passwd[i].uid = passwd[j].uid => i = j

\* A member of a group stays one, as long as the old /etc/group can be opened.
MembersStay ==
  [][\/ gdata[group] \subseteq gdata'[group']
     \/ \E a \in Adders : gdata'[group'] = OnlyLast(a, agrp[a])]_allVars

-----------------------------------------------------------------------------
(* With one adder and one passwd process                                   *)

\* What the "Advisory lock around passwd/shadow updates" is for: an account that
\* adduser reports as created has its line in /etc/shadow.
CreatedHasHash ==
  \A a \in Adders : apc[a] = "done" => Lookup(content[shadow], auser[a]) # NoHash

=============================================================================
