--------------------------- MODULE ConsoleSession ---------------------------
(***************************************************************************)
(* The console service (services/runit_console_run.c) after firstboot:     *)
(* autologin, the login dialogue, and the shell it forks and waits for,    *)
(* with the line discipline of the terminal all of them share              *)
(* (ir0_read_line and the ir0_tty functions of lib/ir0_auth.c).            *)
(*                                                                         *)
(* Somebody types lines at any time; a line waits in the terminal's queue  *)
(* until the console or the shell reads it, or until it is flushed.  The   *)
(* ioctls of a console terminal succeed.  waitpid on a live child succeeds *)
(* too: the service installs no signal handlers.  The utmp file can be     *)
(* opened.                                                                 *)
(***************************************************************************)
EXTENDS Naturals, Sequences

CONSTANTS Users,      \* account names; others are typed as NoUser
          Words,      \* what is typed as a password, "" among it
          NoUser,
          RootUser,
          Autologin,  \* the user of /etc/ir0-autologin, or NoUser
          NoRoot,     \* is there /etc/ir0-noroot?
          MaxQueue    \* lines typed ahead

ASSUME NoUserAssumption == NoUser \notin Users
ASSUME AutologinAssumption == Autologin \in Users \cup {NoUser}
ASSUME WordsAssumption == "" \in Words
ASSUME NoRootAssumption == NoRoot \in BOOLEAN
ASSUME MaxQueueAssumption == MaxQueue \in Nat

VARIABLES
  cpc,    \* where the service is
  screen, \* what the person at the terminal sees: "user", "pass", "shell", "none"
  echo,   \* the ECHO flag of the terminal
  queue,  \* lines typed and not read: [name, word, at], at = the screen then
  name,   \* the line read as user name
  pass,   \* the line read as password
  acct,   \* the account of the session, NoUser before authentication
  shell,  \* the child: "none", "starts", "runs", and how it ended: "logout", "crash"
  got,    \* the last line the shell read
  utmp,   \* the user in the utmp record, or NoUser
  db      \* the password that verifies for each account, NoUser for none

vars == <<cpc, screen, echo, queue, name, pass, acct, shell, got, utmp, db>>

\* A typed line serves as name or as password; `at` is what it was meant for.
Line == [name : Users \cup {NoUser}, word : Words, at : {"user", "pass", "shell", "none"}]

NoLine == [name |-> NoUser, word |-> "", at |-> "none"]

Init ==
  /\ cpc = "start"
  /\ screen = "none"
  /\ echo \in BOOLEAN
  /\ queue = <<>>
  /\ name = NoLine /\ pass = NoLine /\ got = NoLine
  /\ acct = NoUser
  /\ shell = "none"
  /\ utmp = NoUser
  /\ db \in [Users -> Words]

-----------------------------------------------------------------------------
(* The terminal                                                            *)

\* Somebody finishes a line, meant for whatever the screen shows.
Type ==
  /\ Len(queue) < MaxQueue
  /\ \E u \in Users \cup {NoUser}, w \in Words :
       queue' = Append(queue, [name |-> u, word |-> w, at |-> screen])
  /\ UNCHANGED <<cpc, screen, echo, name, pass, acct, shell, got, utmp, db>>

\* Bug: the flush without the flags.
flush_only == queue' = <<>> /\ echo' = echo

\* ir0_tty_restore_cooked: flags and flush in one TCSETSF.
restore_cooked == echo' = TRUE /\ queue' = <<>>

\* passwd, adduser or root elsewhere change a password.
ChangePassword ==
  /\ \E u \in Users, w \in Words : db[u] # w /\ db' = [db EXCEPT ![u] = w]
  /\ UNCHANGED <<cpc, screen, echo, queue, name, pass, acct, shell, got, utmp>>

-----------------------------------------------------------------------------
(* Login                                                                   *)

\* auth_user
Authenticates(u, w) == u \in Users /\ db[u] = w /\ ~(u = RootUser /\ NoRoot)

\* main: autologin with the empty password, or the first prompt.
StartService ==
  /\ cpc = "start"
  /\ restore_cooked
  /\ IF Authenticates(Autologin, "") THEN cpc' = "spawn" /\ acct' = Autologin
     ELSE cpc' = "prompt" /\ UNCHANGED acct
  /\ UNCHANGED <<screen, name, pass, shell, got, utmp, db>>

\* Bug: no restore and no flush around the prompt.
PromptUnflushed ==
  /\ cpc = "prompt"
  /\ cpc' = "read_user"
  /\ screen' = "user"
  /\ UNCHANGED <<echo, queue, name, pass, acct, shell, got, utmp, db>>

\* Flush, print the issue and the prompt, flush again.
Prompt ==
  /\ cpc = "prompt"
  /\ restore_cooked
  /\ cpc' = "read_user"
  /\ screen' = "user"
  /\ UNCHANGED <<name, pass, acct, shell, got, utmp, db>>

\* An empty line prompts again.
ReadUser ==
  /\ cpc = "read_user"
  /\ queue # <<>>
  /\ name' = Head(queue)
  /\ queue' = Tail(queue)
  /\ \/ cpc' = "ask_pass" /\ screen' = "pass"
     \/ Head(queue).name = NoUser /\ cpc' = "prompt" /\ screen' = "none"
  /\ UNCHANGED <<echo, pass, acct, shell, got, utmp, db>>

\* ir0_read_line switches the echo off ...
EchoOff ==
  /\ cpc = "ask_pass"
  /\ cpc' = "read_pass"
  /\ echo' = FALSE
  /\ UNCHANGED <<screen, queue, name, pass, acct, shell, got, utmp, db>>

\* ... and on again; main restores the rest and drops what was typed ahead.
ReadPass ==
  /\ cpc = "read_pass"
  /\ queue # <<>>
  /\ pass' = Head(queue)
  /\ restore_cooked
  /\ cpc' = "auth"
  /\ screen' = "none"
  /\ UNCHANGED <<name, acct, shell, got, utmp, db>>

\* Granted, or "Login incorrect" and a second of delay.
Auth ==
  /\ cpc = "auth"
  /\ IF Authenticates(name.name, pass.word)
     THEN cpc' = "spawn" /\ acct' = name.name
     ELSE cpc' = "delay" /\ UNCHANGED acct
  /\ UNCHANGED <<screen, echo, queue, name, pass, shell, got, utmp, db>>

\* After sleep(1) the service drops what was typed during it.
DelayOver ==
  /\ cpc = "delay"
  /\ queue' = <<>>
  /\ cpc' = "prompt"
  /\ UNCHANGED <<screen, echo, name, pass, acct, shell, got, utmp, db>>

-----------------------------------------------------------------------------
(* The session                                                             *)

\* start_session: restore the terminal and fork.
Spawn ==
  /\ cpc = "spawn"
  /\ restore_cooked
  /\ shell' = "starts"
  /\ cpc' = "record"
  /\ UNCHANGED <<screen, name, pass, acct, got, utmp, db>>

\* Bug: the account outlives the session.
SpawnFailsKeepsUser ==
  /\ cpc = "spawn"
  /\ restore_cooked
  /\ cpc' = "prompt"
  /\ UNCHANGED <<screen, name, pass, acct, shell, got, utmp, db>>

\* fork fails: back to the prompt, where the session ends.
SpawnFails ==
  /\ cpc = "spawn"
  /\ restore_cooked
  /\ acct' = NoUser
  /\ cpc' = "prompt"
  /\ UNCHANGED <<screen, name, pass, shell, got, utmp, db>>

\* session_account(pid, acct, 1); the shell is running meanwhile.
Record ==
  /\ cpc = "record"
  /\ utmp' = acct
  /\ cpc' = "wait"
  /\ UNCHANGED <<screen, echo, queue, name, pass, acct, shell, got, db>>

\* Bug: the record of a crashed shell stays.
ReapKeepsRecord ==
  /\ cpc = "wait"
  /\ shell \in {"logout", "crash"}
  /\ utmp' = IF shell = "crash" THEN utmp ELSE NoUser
  /\ restore_cooked
  /\ shell' = "none"
  /\ screen' = "none"
  /\ IF shell = "logout" THEN cpc' = "prompt" /\ acct' = NoUser
     ELSE cpc' = "spawn" /\ UNCHANGED acct
  /\ UNCHANGED <<name, pass, got, db>>

\* Bug: every end of a shell resumes the session.
ReapResumes ==
  /\ cpc = "wait"
  /\ shell \in {"logout", "crash"}
  /\ utmp' = NoUser
  /\ restore_cooked
  /\ shell' = "none"
  /\ screen' = "none"
  /\ cpc' = "spawn"
  /\ UNCHANGED <<acct, name, pass, got, db>>

\* Bug: a crash starts over with the autologin user.
ReapAutologin ==
  /\ cpc = "wait"
  /\ shell \in {"logout", "crash"}
  /\ utmp' = NoUser
  /\ restore_cooked
  /\ shell' = "none"
  /\ screen' = "none"
  /\ IF shell = "logout" THEN cpc' = "prompt" /\ acct' = NoUser
     ELSE cpc' = "spawn" /\ acct' = Autologin
  /\ UNCHANGED <<name, pass, got, db>>

\* waitpid returns: exit status 0 ends the session, anything else resumes it.
Reap ==
  /\ cpc = "wait"
  /\ shell \in {"logout", "crash"}
  /\ utmp' = NoUser
  /\ restore_cooked
  /\ shell' = "none"
  /\ screen' = "none"
  /\ IF shell = "logout" THEN cpc' = "prompt" /\ acct' = NoUser
     ELSE cpc' = "spawn" /\ UNCHANGED acct
  /\ UNCHANGED <<name, pass, got, db>>

\* session_child: drop privileges, restore the terminal once more, exec ...
ShellStarts ==
  /\ shell = "starts"
  /\ shell' = "runs"
  /\ restore_cooked
  /\ screen' = "shell"
  /\ UNCHANGED <<cpc, name, pass, acct, got, utmp, db>>

\* ... or _exit(111) or (127).
ShellStartFails ==
  /\ shell = "starts"
  /\ shell' = "crash"
  /\ UNCHANGED <<cpc, screen, echo, queue, name, pass, acct, got, utmp, db>>

\* The shell and what it runs read lines, set the terminal as they like, and end.
ShellReads ==
  /\ shell = "runs" /\ queue # <<>>
  /\ got' = Head(queue)
  /\ queue' = Tail(queue)
  /\ UNCHANGED <<cpc, screen, echo, name, pass, acct, shell, utmp, db>>

\* stty, an editor, a game
ShellSetsEcho ==
  /\ shell = "runs"
  /\ echo' = ~echo
  /\ UNCHANGED <<cpc, screen, queue, name, pass, acct, shell, got, utmp, db>>

\* Exit status 0, or any other end.
ShellEnds ==
  /\ shell = "runs"
  /\ shell' \in {"logout", "crash"}
  /\ UNCHANGED <<cpc, screen, echo, queue, name, pass, acct, got, utmp, db>>

-----------------------------------------------------------------------------
\* What the service does by itself.
Service == \/ StartService \/ Prompt \/ ReadUser \/ EchoOff \/ ReadPass \/ Auth
           \/ DelayOver \/ Spawn \/ SpawnFails \/ Record \/ Reap

Next == \/ Service \/ Type \/ ChangePassword
        \/ ShellStarts \/ ShellStartFails \/ ShellReads \/ ShellSetsEcho \/ ShellEnds

Spec == Init /\ [][Next]_vars

\* runsv keeps the service running; nobody has to type, no shell has to end.
FairSpec == Spec /\ WF_vars(Service)

-----------------------------------------------------------------------------
CPCs == {"start", "prompt", "read_user", "ask_pass", "read_pass", "auth", "delay",
         "spawn", "record", "wait"}

\* The values the variables range over; there is an account exactly during its
\* session, and a child exactly from fork to waitpid.
TypeOK ==
  /\ cpc \in CPCs /\ screen \in {"user", "pass", "shell", "none"} /\ echo \in BOOLEAN
  /\ queue \in Seq(Line) /\ Len(queue) <= MaxQueue
  /\ name \in Line /\ pass \in Line /\ got \in Line
  /\ acct \in Users \cup {NoUser} /\ utmp \in Users \cup {NoUser}
  /\ shell \in {"none", "starts", "runs", "logout", "crash"}
  /\ acct # NoUser <=> cpc \in {"spawn", "record", "wait"}
  /\ shell # "none" <=> cpc \in {"record", "wait"}
  /\ db \in [Users -> Words]

\* "Typing during the delay must not become the next username": the line taken
\* as name was typed at the name prompt, the one taken as password no earlier, and
\* nothing of the login, a password least of all, is left for the shell to read.
LinesReachTheirReader ==
  /\ cpc \in {"ask_pass", "read_pass", "auth"} => name.at = "user"
  /\ cpc = "auth" => pass.at \in {"user", "pass"}
  /\ got.at \in {"shell", "none"}

\* Names are echoed and passwords are not, whatever the last shell did to the
\* terminal.
EchoFitsPrompt ==
  /\ cpc = "read_user" => echo
  /\ cpc = "read_pass" => ~echo

\* utmp names a user exactly while the service waits for that user's shell.
UtmpTracksSession == utmp = (IF cpc = "wait" THEN acct ELSE NoUser)

\* A crash of the shell, however often, never brings up somebody else's session,
\* and a logout ends it: the account changes only through the login dialogue.
SessionKeepsUser ==
  [][acct # NoUser /\ acct' # acct => acct' = NoUser /\ (cpc = "spawn" \/ shell = "logout")]_vars

\* After a logout the name prompt comes back.
LogoutReprompts == shell = "logout" ~> cpc = "read_user"

=============================================================================
