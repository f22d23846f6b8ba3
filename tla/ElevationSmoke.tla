--------------------------- MODULE ElevationSmoke ---------------------------
(***************************************************************************)
(* The smokes of sudo and doas (smoke/sudo_smoke.c, smoke/doas_smoke.c):   *)
(* the smoke stores a password for the test user, runs the program on a    *)
(* pseudo terminal with the user's groups (ir0_group_list), polls what it  *)
(* prints, answers its prompts and judges its exit status.  sudo and doas  *)
(* are external: before each prompt they discard what was typed ahead      *)
(* (TCSAFLUSH), they let members of wheel in, and a hangup ends them.      *)
(*                                                                         *)
(* They are programs in front of a terminal like passwd, whose lines,      *)
(* accounts and passwords of module PasswdDialog they share: each behavior *)
(* is a run of one of the three.                                           *)
(***************************************************************************)
EXTENDS PasswdDialog, SequencesExt

CONSTANTS Programs,    \* some of "passwd", "sudo", "doas"
          tester,      \* TEST_USER
          good, bad,   \* TEST_PW, BAD_PW
          TesterGid,   \* TEST_GID
          GroupFiles,  \* contents of /etc/group, sequences of [name, gid, members]
          GroupsMax,   \* IR0_AUTH_GROUPS_MAX
          MaxSpins,    \* polls until the deadline
          CaptureMax   \* what the buffer holds of the program's output

ASSUME TesterAssumption == tester \in Users \ {root} /\ {good, bad} \subseteq Words /\ good # bad
ASSUME LimitsAssumption == {GroupsMax, MaxSpins, CaptureMax} \subseteq Nat \ {0}

VARIABLES
  program,
  groups,     \* /etc/group
  smoke,      \* where run_sudo or run_doas is
  prog,       \* where the child is
  gids,       \* its groups
  out,        \* what it has printed and nobody has read: "prompt", "text"
  capture,
  answered,   \* prompts_answered; script_sent as 0 or 1
  spins,
  got,        \* the last read returned something
  reaped,
  status,     \* of the child: 0, 1, or HungUp
  ec,         \* what run_sudo or run_doas returns; not 0 for -1
  tries,      \* answers the program has refused
  discarded,  \* an answer was thrown away unread
  excused     \* a call failed, or the child was too slow or printed too much

childVars == <<prog, gids, out, status, tries, discarded>>
driverVars == <<smoke, capture, answered, spins, got, reaped, ec>>
dialog == <<script, queue, db>>  \* what the programs share with passwd
smokeVars == <<program, groups, childVars, driverVars, excused>>
dialogVars == <<asked, pc, stored, new, confirm, result, others>>  \* but for the lines and db

HungUp == 129
Running == 2   \* no status yet

\* One answer for the right password; wrong ones for all the tries sudo allows.
Tries == IF program = "sudo" THEN 3 ELSE 1
SmokeScripts == {<<good>>, [i \in 1..Tries |-> bad]}

SmokeInit ==
  /\ program \in Programs
  /\ groups \in GroupFiles
  /\ smoke = "seed" /\ prog = "none" /\ gids = <<>> /\ out = <<>> /\ capture = <<>>
  /\ answered = 0 /\ spins = 0 /\ got = FALSE /\ reaped = FALSE
  /\ status = Running /\ ec = Running /\ tries = 0 /\ discarded = FALSE /\ excused = FALSE
  /\ IF program = "passwd" THEN Init /\ groups = CHOOSE f \in GroupFiles : TRUE
     ELSE /\ input = "tty" /\ caller = tester /\ target = tester
          /\ given \in SmokeScripts
          /\ script = given /\ queue = <<>> /\ pc = "smoke"
          /\ stored = <<>> /\ new = <<>> /\ confirm = <<>>
          /\ db = InitDb /\ result = "none" /\ others = 0

-----------------------------------------------------------------------------
(* The account library's group lookups                                     *)

ir0_user_in_group(u, g) ==
  \E i \in DOMAIN groups : groups[i].name = g /\ u \in groups[i].members

\* The user's own group and those that list the user, each once, until the array is full.
ir0_group_list(file, u, gid) ==
  FoldLeft(LAMBDA list, line :
             IF Len(list) < GroupsMax /\ u \in line.members /\ ~Contains(list, line.gid)
             THEN Append(list, line.gid) ELSE list,
           <<gid>>, file)

-----------------------------------------------------------------------------
(* The smoke                                                               *)

\* seed_accounts: the test user gets the password and has to be in wheel.
seed_accounts ==
  /\ smoke = "seed"
  /\ db' = [db EXCEPT ![tester] = <<good>>]
  /\ smoke' = IF ir0_user_in_group(tester, "wheel") THEN "fork" ELSE "failed"
  /\ UNCHANGED <<program, groups, childVars, capture, answered, spins, got, reaped, ec, excused>>
  /\ UNCHANGED <<script, queue>>

\* The test user has no account, or the hash cannot be stored.
SeedFails ==
  /\ smoke = "seed" /\ smoke' = "failed"
  /\ UNCHANGED <<program, groups, childVars, capture, answered, spins, got, reaped, ec, excused, dialog>>

\* forkpty, and in the child setgroups, setgid, setuid and execve.
Fork ==
  /\ smoke = "fork" /\ smoke' = "poll"
  /\ gids' = ir0_group_list(groups, tester, TesterGid)
  /\ \/ prog' = "begin" /\ UNCHANGED <<status, excused>>
     \/ prog' = "ended" /\ status' = 1 /\ excused' = TRUE
  /\ UNCHANGED <<program, groups, out, tries, discarded, capture, answered, spins, got, reaped, ec, dialog>>

\* forkpty fails: the smoke fails with "return -1".
ForkFails ==
  /\ smoke = "fork" /\ smoke' = "done"
  /\ ec' = 1 /\ excused' = TRUE
  /\ UNCHANGED <<program, groups, childVars, capture, answered, spins, got, reaped, dialog>>

Room == CaptureMax - Len(capture)

\* The loop goes on, with a read that does not block, until the deadline or until
\* the buffer is full.
Poll ==
  /\ smoke = "poll"
  /\ IF spins = MaxSpins \/ Room = 0
     THEN /\ smoke' = "close" /\ excused' = TRUE
          /\ UNCHANGED <<capture, out, got, spins>>
     ELSE /\ \E n \in 0..Len(out) :
               /\ n <= Room /\ (out # <<>> => n > 0)
               /\ capture' = capture \o SubSeq(out, 1, n)
               /\ out' = SubSeq(out, n + 1, Len(out))
               /\ got' = (n > 0)
               /\ smoke' = IF n > 0 /\ script # <<>> THEN "answer" ELSE "reap"
          /\ spins' = spins + 1
          /\ UNCHANGED excused
  /\ UNCHANGED <<program, groups, prog, gids, status, tries, discarded, answered, reaped, ec, dialog>>

PromptsIn(text) == Cardinality({i \in DOMAIN text : text[i] = "prompt"})

\* Write a line, if there is a prompt to answer.
AnswerIf(due) ==
  /\ smoke = "answer" /\ smoke' = "reap"
  /\ IF due
     THEN \/ /\ queue' = Append(queue, Head(script)) /\ script' = Tail(script)
             /\ answered' = answered + 1
             /\ UNCHANGED excused
          \/ excused' = TRUE /\ UNCHANGED <<queue, script, answered>>
     ELSE UNCHANGED <<queue, script, answered, excused>>
  /\ UNCHANGED <<program, groups, childVars, capture, spins, got, reaped, ec, db>>

\* Bug: any output after the first prompt is taken for the next one.
AnswerOutput == AnswerIf(PromptsIn(capture) > 0)

\* sudo: one line for each prompt; doas, whose script is one line: at its prompt.
Answer == AnswerIf(PromptsIn(capture) > answered)

\* waitpid(WNOHANG), the end of the loop, or usleep.
Reap ==
  /\ smoke = "reap"
  /\ reaped' = (prog = "ended")
  /\ smoke' = IF reaped' /\ ~got THEN "close" ELSE "poll"
  /\ UNCHANGED <<program, groups, childVars, capture, answered, spins, got, ec, excused, dialog>>

\* close(master) hangs up.
Close ==
  /\ smoke = "close" /\ smoke' = "wait"
  /\ UNCHANGED <<program, groups, childVars, capture, answered, spins, got, reaped, ec, excused, dialog>>

\* waitpid, if it is still to be done, and the exit status.
WaitChild ==
  /\ smoke = "wait" /\ (reaped \/ prog = "ended")
  /\ smoke' = "done" /\ reaped' = TRUE /\ ec' = status
  /\ UNCHANGED <<program, groups, childVars, capture, answered, spins, got, excused, dialog>>

SmokeStep ==
  (seed_accounts \/ SeedFails \/ Fork \/ ForkFails \/ Poll \/ Answer \/ Reap \/ Close \/ WaitChild)
    /\ UNCHANGED dialogVars

-----------------------------------------------------------------------------
(* sudo and doas                                                           *)

HasWheel == \E i \in DOMAIN groups : groups[i].name = "wheel" /\ Contains(gids, groups[i].gid)

Exit(code) == prog' = "ended" /\ status' = code

\* doas asks only those it may let in.
Begin ==
  /\ prog = "begin"
  /\ IF program = "doas" /\ ~HasWheel THEN Exit(1) ELSE prog' = "flush" /\ UNCHANGED status
  /\ UNCHANGED <<gids, out, tries, discarded, queue>>

\* TCSAFLUSH, and the prompt.
Prompt ==
  /\ prog = "flush" /\ prog' = "read"
  /\ discarded' = (discarded \/ queue # <<>>)
  /\ queue' = <<>>
  /\ out' = Append(out, "prompt")
  /\ UNCHANGED <<gids, status, tries>>

\* It takes a line and judges it.
Judge ==
  /\ prog = "read" /\ queue # <<>>
  /\ queue' = Tail(queue)
  /\ out' = Append(out, "text")
  /\ IF <<Head(queue)>> = db[tester] /\ HasWheel THEN prog' = "command" /\ UNCHANGED <<status, tries>>
     ELSE /\ tries' = tries + 1
          /\ IF tries' = Tries \/ <<Head(queue)>> = db[tester] THEN Exit(1)
             ELSE prog' = "flush" /\ UNCHANGED status
  /\ UNCHANGED <<gids, discarded>>

\* The command, as root.
Command ==
  /\ prog = "command" /\ Exit(0)
  /\ UNCHANGED <<gids, out, tries, discarded, queue>>

\* SIGHUP
HangUp ==
  /\ smoke \in {"wait", "done"} /\ prog \notin {"none", "ended"}
  /\ Exit(HungUp)
  /\ UNCHANGED <<gids, out, tries, discarded, queue>>

ChildStep ==
  (Begin \/ Prompt \/ Judge \/ Command \/ HangUp)
    /\ UNCHANGED <<program, groups, driverVars, excused, script, db, dialogVars>>

-----------------------------------------------------------------------------
SmokeNext == \/ program = "passwd" /\ Next /\ UNCHANGED smokeVars
             \/ program # "passwd" /\ (SmokeStep \/ ChildStep)

\* The smoke and its child are two processes.
SmokeSpec == SmokeInit /\ [][SmokeNext]_<<vars, smokeVars>>
             /\ WF_<<vars, smokeVars>>(program # "passwd" /\ SmokeStep)
             /\ WF_<<vars, smokeVars>>(program # "passwd" /\ ChildStep)

-----------------------------------------------------------------------------
\* "Feed credentials only after the upstream prompt appears": no answer is thrown
\* away by the program; and who passed the check of the seed and answers with the
\* right password is let in, but with a wrong one never, unless a call failed, the
\* deadline came or the buffer was full.
JudgedRightly ==
  /\ smoke = "done"
  /\ ~discarded
  /\ ec = 0 => given = <<good>>
  /\ given = <<good>> => ec = 0 \/ excused

\* Every run of a smoke comes to an end, even if its program asks and is never
\* answered, and judges rightly.
SmokeReturns == smoke = "fork" ~> JudgedRightly

=============================================================================
