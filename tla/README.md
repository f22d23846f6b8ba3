# Verification of ISD, the IR0 Software Distribution

TLA+ models of the programs of ISD that boot the machine, keep its accounts and
sessions, and test it, TLC runs over small instances of them, and TLAPS proofs of every
invariant and action property the passing runs check: of the protocol by which `/etc/shadow`
is replaced, adduser beside it, the dialogue of passwd, firstboot, the console, the machine
with its keyboard layout, and the judgement of a test case. Paths are relative to the
repository.

## The system

ISD is the userland of the IR0 kernel: C services and account tools
(`services/`, `lib/`), a build system that fetches, patches, builds and stages
packages into a root file system (`Makefile`, `scripts/`), product profiles and
on-target smoke tests (`smoke/`). Every program is sequential. What makes it hard
is that several of them share files in `/etc` and a terminal, that any of them
may be killed or the machine switched off between two system calls, and that
they tell one another only through those files.

| Component | State | Operations | Talks to | Hard parts | What makes it correct |
| --- | --- | --- | --- | --- | --- |
| Account library, `lib/ir0_auth.c` | `/etc/passwd`, `/etc/shadow`, `/etc/shadow.new`, the lock file | look an account or hash up, replace a hash | everything that authenticates | concurrent updates, readers without a lock, failures of each call, death while holding the lock | an update takes effect at one instant, is never lost, and readers see one instant, or that they cannot read |
| `adduser`, `services/ir0_adduser.c` | the same, `/etc/group`, `/etc/group.new` | create an account | passwd and other adders, through the files | no lock, five writes to three files, abandoned half way | names nested over the files, accounts stable, uids unique, a reported account complete |
| `passwd`, `services/ir0_passwd.c` | none of its own | verify, ask twice, replace the hash | the account library, a terminal or a pipe | one `read` per prompt | only a permitted, confirmed change; batch mode works |
| Firstboot, `services/ir0_firstboot.c` | account files, flags, seed file, done markers | early run of stage1, wizard of the console | boot stages, console, image staging | power cuts between truncation and write, two runs per boot | marker never ahead of the accounts, never run again, somebody can log in in the end, unless the seed shuts everybody out |
| Console, `services/runit_console_run.c` | terminal flags and queue, session, utmp | autologin, login dialogue, spawn and supervise the shell | firstboot, account library, shell | typing ahead at any moment, crash against logout, echo | lines reach the prompt they were typed at, sessions keep their user, utmp agrees |
| Boot stages, `services/runit_stage{1,2,3}.c`, `sysvinit_boot.c`, `fsck.ir0.c`, `ir0_force_power.c` | mounts, process image, what is on the disks | fsck, mounts, early firstboot, hand-over, shutdown | firstboot, recovery, console | helpers whose result is ignored, the home disk mounted before firstboot, power cuts | every boot gets to a prompt, an orderly shutdown loses nothing, the home directory is where every boot has `/home` |
| Recovery, `services/ir0_recovery.c`, `mount_root_rw.c` | mount mode | remount, root shell | boot stages, keymap | goes on when a remount fails | keymap changes nothing on the root disk while the screen says read-only |
| Keymap, `lib/ir0_keymap.c`, `services/ir0_keymap.c` | layout in the kernel, `/etc/keymap`, `/etc/keymap.tmp` | get, set, store, apply at boot | console, firstboot | set before stored or the other way round, one temporary file for everybody, short writes | a reported success is stored, the prompt has the stored layout |
| Elevation smokes, `smoke/sudo_smoke.c`, `doas_smoke.c` | capture, pseudo terminal, child | seed, fork, poll, answer, reap | sudo, doas, group lookups | prompts that discard what was typed before them, waits without a limit | every run ends and judges rightly |
| Applet matrix, `smoke/matrix_capture.c`, `busybox_matrix_smoke.c` | capture buffer, matcher, children | run a case, drain, classify | BusyBox applets through pipes | end of file against deadline, partial matches | output that arrived is found, a case ends but for two named hazards |
| Package build, `Makefile`, `scripts/{fetch-package,apply-isd-patches,stamp-run,resolve-packages}.sh` | source trees, prefixes, stamps | fetch, patch, build, stage | one another, through stamps | interrupted steps | a stamp means its step was completed with the present inputs |
| Configuration, `scripts/isdconfig.py`, `admin-elevation.sh` | `.config` | set, validate, derive the plan | package build | dependencies and exclusions | at most one elevation tool, a plan closed under dependencies |
| Staging and packing, `scripts/{stage-rootfs,pack-minix,pack-ext2-root,fs-image}.sh` | the root tree, images | install, account policy, setuid list, pack | firstboot (initial files) | stale trees | the policy of the profile holds in the image |
| Machine update, `scripts/update-machine.sh` | root and home images | replace the root image | packing | interruption | home is kept |

`PROJECT.json` has the same list with the status of each part, and the hazards,
each at its line.

## Modules

| Module | Models |
| --- | --- |
| `AtomicShadow` | the promise: a table from users to hashes, updated at one instant |
| `ShadowUpdate` | `ir0_shadow_set_hash`, `lock_accounts`, `ir0_shadow_hash`; refines `AtomicShadow` |
| `ShadowUpdateProofs` | its invariants proved |
| `ShadowRefinementProofs` | its refinement of `AtomicShadow` proved |
| `AccountAdmin` | extends `ShadowUpdate` by `adduser`; composes any number of both |
| `AccountAdminProofs` | what holds beside any number of others, and of one adder at a time, proved |
| `PasswdDialog` | the dialogue of one `passwd`, on a terminal or a pipe |
| `FirstBoot` | `ir0-firstboot`, the stage1 and console code that runs it, the image's first account files |
| `FirstBootProofs` | its invariants proved |
| `ConsoleSession` | the console service after firstboot, the terminal, and the shell |
| `ConsoleSessionProofs` | its invariants proved |
| `MatrixCase` | one case of the BusyBox matrix: `run_case`, `classify_full`, the capture library |
| `MatrixCaseProofs` | its invariants proved |
| `Keymap` | the keymap tool and the parts of the wizard and the console that set or store the layout |
| `BootStages` | extends `Keymap` by the machine around it: boots, recovery, shutdown, power cuts |
| `BootStagesProofs` | the invariants and action properties of both proved |
| `ElevationSmoke` | extends `PasswdDialog` by `sudo_smoke`, `doas_smoke` and the group lookups |
| `ElevationSmokeProofs` | the dialogue of passwd, and what the smokes judge, proved |
| `MCShadowUpdate`, `MCAccountAdmin`, `MCFirstBoot`, `MCPasswdDialog`, `MCMatrixCase`, `MCBootStages`, `MCElevationSmoke` | constants of the runs |

A definition marked `Bug:` is a way in which the code could be wrong. None of
them is part of a next-state relation; each stands before the definition it
is a variant of, and putting it in that definition's place must break a property.

### ShadowUpdate

One process per caller of `ir0_shadow_set_hash`; `pc` follows the function from
one system call to the next: `open_lock`, `lock`, `open_src`, `open_dst`, `copy`,
`rename`, `unlock`, and `refused` for a call that never got the lock. The local
variables have the names of the code (`src`, `dst`, `found`, `rc`, `tries`). Files
are inodes: `shadow` and `temp` are the names `/etc/shadow` and `/etc/shadow.new`,
`src` and `dst` what a process has open, so that a rename does not disturb whoever
reads the old file. `content` is a sequence of lines; a line is a name, a hash and
the aging fields, which the code keeps or supplies. `fgets` into a buffer of 512
bytes is one line: longer ones are not considered. `Crash` ends a process anywhere;
the kernel then closes its files, which gives the lock back.

A lookup takes no lock: it opens the file, passes over lines, and returns the
hash of the first line of its user. If it cannot open the file (`OpenReadFails`), it
returns -1, as for a user who has no entry, and so it is in `AtomicShadow`: a lookup
that fails says that there is no entry, and its caller cannot tell.

Opens, those of a lookup among them, writes, the flush and the rename may fail. A read
of an open file may not.

### AccountAdmin

The passwd processes take the steps of `ShadowUpdate`; the adders those of `main` of
`ir0_adduser.c`: check the name, ask and choose the uid, append to `/etc/passwd`,
open `/etc/shadow`, append, and for each group open `/etc/group`, truncate
`/etc/group.new`, write it, rename it. A line is appended whole or not at all.
Members of a group are a set; `strstr` over the list is the operator constant
`Within`, since a user whose name is part of a member's is taken for a member.
`Unreadable` names the files whose `fopen` for reading may fail; adduser then goes on
as if they had no lines. Passwords that are refused, and every other early return,
are `Abandon`. Home directories are left out.

### PasswdDialog

The prompts of `main` with `ir0_read_line` behind each. A read answers with one line on
a terminal and with everything written so far on a pipe. `ir0_shadow_set_hash` is one
step, as `AtomicShadow` promises. Other runs may replace hashes at any moment
(`OtherChange`), while `stored` keeps what `main` read before its first prompt.

### FirstBoot

A boot goes from `off` to `early` (stage1, or rcS under sysvinit) and on to `console`
and `login`, or to `services` on an appliance, which has no console. When
`ir0-firstboot` has something to go by it gets a *plan*, the sequence of files it
writes and removes, in the order of the code. A write is two steps, the truncation
and the rest, with a possible power cut or failure before, between or after them.
`must` tells the writes whose failure ends the run from those whose result the code
ignores. `Init` is what `stage-rootfs.sh` installs for the profile, with or without
a seed file. `apply_seed_file` accepts any hash that is not empty, so the hash of a seed
is one of `Hashes`, which some password verifies, or of `Unusable`, which none does: `!`,
`*`, plain text. A hash that holds a colon, and would be cut there, is left out.

### ConsoleSession

`cpc` follows `main`, `start_session` and `run_user_sessions`. The terminal is the
ECHO flag and a queue of typed lines, each with the screen it was typed at (`at`),
which is how the properties say what a line was meant for. `screen` is what the
service or the shell last put on the terminal. Between fork and exec the child is
`starts`; the parent's utmp record and the child's own steps interleave. The shell
reads lines, changes the echo, and ends with status 0 or otherwise. Passwords may be
changed by others at any time. The ioctls of the console, `waitpid` and the opening of
utmp succeed. The death of the service itself is left out.

### MatrixCase

`pc` and `phase` follow `run_case` through its three loops (live, after the kill, drain)
to `classify_full`. The worker, a process it may leave behind (`wr` says who holds the
write end of the pipe), the kernel that finishes an exit, and the clock are actions of
their own. Deadlines count down to 0, which keeps the states finite without a bound on
time. `read(2)` gives one byte at a time, as it may, and `matrix_needle_feed` follows byte
by byte. `waitpid` may deny that there is a worker, `poll` and `read` may fail. `MaxOut` bounds
the bytes that are told apart and not what a worker may write: the fairness allows it to
refill the pipe for ever. Left out:
the loop over the cases, the recovery from a fault of the parent itself, the
log, and the store's hash. The header of a case, its needle and wanted status, is
chosen in `Init`.

### Keymap

`run` has the state of each process that changes the layout: the tool's runs and the
console service (with the wizard it waits for), which is one process. `pc` names the
next call of `ir0_keymap_set`, `ir0_keymap_write_file` or `ir0_keymap_apply_file`; the
tool sets and then stores, the wizard stores and then sets. `/etc/keymap` and
`/etc/keymap.tmp` are names of inodes, since two runs open, truncate, rename and
remove the same temporary name, and texts are sequences of characters, since a write
may end after any of them. Every call may fail. `met` says that another process was
at work at some time during the run, which the properties need: there is no lock,
and with two runs at once the loser's text may win.

### BootStages

`stage` goes through the steps of `main` of `runit_stage1.c` or `sysvinit_boot.c`, the
hand-over, and the console service to `login`, where `ConsoleSession` begins, or
through `recovery` to the recovery `shell` and back. What is written is in the memory
of the machine (`keymap`, `data`, `done`, `homes`) until something syncs it to `disk`;
a power cut leaves what was on `disk` or what was in memory, of each file system by itself,
and possibly a renamed `/etc/keymap` without its text, because the tool does not fsync.
`home` is the file system `/home` is on now, `homes` where the directory was made.
`screen` is what the recovery console has said of root. Every step may fail, as
often as `MaxFaults` allows; `calm` and `homeless` remember what the properties
except. Of firstboot there are the layout, the home directory and the marker;
what it writes to the account files is `FirstBoot`.

### ElevationSmoke

`smoke` follows `seed_accounts` and `run_sudo` or `run_doas` by its calls, `prog` the
child: the lines of the smoke before `execve`, and then a model of sudo and doas made
from what the smokes rely on: they discard what was typed before each prompt, let in
members of wheel with the right password, ask three times or once, and end at a
hangup. The terminal, the password table and the words are those of `PasswdDialog`:
`program` says which of the three programs a behaviour is about. A deadline, a full
buffer and a failed call are `excused`.

## Runs

| Run | Instance | Shows |
| --- | --- | --- |
| `shadow_update` | 2 processes, 2 users, 2 hashes, 2 inodes, 1 try, a file with a duplicated user, one line without aging fields, and a missing user; fair | `Inv`, the inductive invariant of the proofs; `UpdateIsRewrite`: no completed update is lost; `CallReturns`: every call ends and has given the lock back |
| `shadow_lookup` | 2 processes and 1 lookup, 3 inodes, a usual file | `LiveFileNotWritten`; `ImplementsAtomicShadow`: refinement |
| `adduser_passwd` | 2 adders of one name, 1 passwd, 2 hashes, one group; next_uid may fail to read | what holds without a common lock: `NamesNested`, `AccountIsStable`, `HashKeptByAdders` |
| `adduser_alone` | 1 adder of three names, one a part of another, both groups; it stops when all names are taken | `CreatedIsComplete`, `UidsUnique`, `MembersStay` |
| `adduser_lost_shadow` | 1 adder, 1 passwd | **violation** of `CreatedHasHash` |
| `firstboot` | all profiles, 6 seeds (usual, root open, no hash, root's name, a hash that nothing verifies, the same for root), 3 faults; fair | `DoneMeansComplete`, `PolicyHolds`: root locked and no empty password once the marker is there, `DoneIsFinal`, `EventuallyUsable` |
| `passwd_batch` | every script of two or three lines, on a pipe, as root or not | **violation** of `BatchModeWorks` |
| `dialogues` | for passwd, the same scripts on a terminal, typed in any portions, two changes of hashes by other runs meanwhile; for sudo and doas, the right password or wrong ones, three contents of `/etc/group`, an array that just holds the user's groups, 7 polls and 7 pieces of output | `TypedAheadWorks`, `ChangeIsEntered`; `SmokeReturns`: no run of a smoke hangs, loses an answer or judges wrongly |
| `boot` | one image for each init system (with a home disk, a seed, an appliance), 1 run of keymap at a time beside the console, 3 inodes, 2 boots, 1 fault and any number of power cuts; fair | `SuccessIsStored`, `LoginHasStoredLayout`, `HomeIsReachable`, `ShutdownKeepsFiles`, `RecoveryKeepsDisk`, `BootEnds` |
| `console` | root and a user, two passwords, two lines typed ahead, autologin; fair | `LinesReachTheirReader`, `EchoFitsPrompt`, `UtmpTracksSession`, `SessionKeepsUser`, `LogoutReprompts` |
| `matrix_case` | no needle, a plain one and one that begins again within itself, up to three bytes of output, two exit statuses, deadlines of one and two ticks; fair | `FoundIsThere`, `OutputVerdictIsFinal`, `StatusVerdictIsEarned`, `GraceIsKept`, `CaseReturns` |
| `matrix_stuck` | no needle, one byte of output; the kernel kills and need not finish the exit | **violation** of `StuckZombieCannotHang` |

**Why the bounds are enough.** Two updaters contend for the lock, and a third would
meet nothing new: the lock is the only thing they share while both run, and a left-over
copy is as good from one dead process as from many. One try reaches both outcomes of
the lock loop and its end; more tries repeat the first. Two inodes are the live file
and the copy, a third is needed once a reader holds an old file. The proofs do not
depend on any of these. Two adders show each race of adduser with itself. Three faults
let a boot fail, its repair fail, and the next repair fail after that. Two lines typed
ahead are a name and a password. Two boots are the one that goes wrong and the one
that has to live with it; one fault in them is one more than the code looks for in
most places, and a power cut is not counted as one. Three inodes are the file, its copy,
and the one an earlier run left or still has open. Seven polls and pieces of output hold
the three prompts and refusals of sudo. Three bytes hold a needle of two behind a false start
of it; the grace is longer than the deadline, so that it matters.

**Fairness.** Weak fairness of each process or service: the kernel schedules what can
run, and no program waits for ever, since the lock is polled. Nobody is obliged to
call, to type, to crash, or to end a shell. `FirstBoot` also assumes that a machine
whose login prompt accepts nobody is switched off and on again, without which nothing
could follow. `EventuallyUsable` excepts seeds that shut everybody out (`SeedShutsOut`): one
that `apply_seed_file` refuses, which every boot refuses again, and one whose hash no
password verifies, which is accepted and marked done. `adduser_alone` may stop (every name taken), and
`passwd_batch` and `dialogues` do (the programs exit), and `matrix_case` and `matrix_stuck`
(the case is over); the other
runs are checked for deadlock, `boot` with the exception its configuration states: after
the last boot nothing switches the machine on.

`BootStages` assumes that its programs run and end, and that the user answers the wizard:
`run_helper` waits for fsck and firstboot without a limit, so a helper that hangs is
beyond what `BootEnds` can promise. Nobody is obliged to leave the recovery shell, to run
keymap or to shut down. `ElevationSmoke` assumes that the smoke and its child run, each
by itself; the child that reads is not obliged to anything until a line comes.

`MatrixCase` assumes that the parent runs and time passes, and nothing else. Nothing is
asked of the worker and of what it leaves behind: it may run for ever, hold the pipe open,
or refill it each time before the parent finds it empty. Nor of the kernel: a killed worker
may never become waitable. `CaseReturns` therefore names two ways in which a case may
fail to end, and says that there is no third: the loop of `matrix_capture_read_nb`
(`smoke/matrix_capture.c:179`), which looks at no deadline, with a writer that never
pauses, and the `waitpid` without a limit (`smoke/busybox_matrix_smoke.c:934`) for a worker
that was killed. `matrix_stuck` has stronger fairness, of a kernel that carries out
a SIGKILL and a pipe that is found empty now and then, and still the second happens.

**Findings.**

- `adduser_lost_shadow`: `lib/ir0_auth.c:357` speaks of an advisory lock around updates
  of passwd and shadow; adduser appends to `/etc/shadow` without it, and a concurrent
  passwd that has copied the old file renames its copy over the new line.
- `passwd_batch`: the comment of `services/ir0_passwd.c` and `smoke/passwd_smoke.c` feed
  all answers through a pipe at once; `ir0_read_line` takes them for one answer. On a
  terminal such a script works (`TypedAheadWorks`, run `dialogues`).
- `matrix_stuck`: "Cap the wait so a stuck zombie cannot hang us"
  (`smoke/busybox_matrix_smoke.c:896`); the wait it speaks of gives up, the drain ends, and then
  the `waitpid` at line 934 waits for the same worker without a cap.

Exceptions the properties name, each a weakness of the code about which no text of
the repository says otherwise:

- `SuccessIsStored`: a first write that stops after one character returns 1, which
  `lib/ir0_keymap.c:135` takes for the newline; keymap then reports a success and has
  stored `u` or `l`.
- `HomeIsReachable`: the home directory is made once, before the marker, on whatever is
  mounted at `/home` (`services/ir0_firstboot.c:184`). If the home disk fails to mount in
  that boot or in a later one, or a power cut takes the directory and not the marker, no
  boot makes it again.
- `DoneMeansComplete`, `EventuallyUsable`: a seed with the hash `!`, `*` or plain text passes
  `services/ir0_firstboot.c:316` and is marked done, and `ir0_password_verify` accepts no
  password for it, now or on any later boot.
- `TypedAheadWorks`, `ChangeIsEntered`: passwd compares with the hash it read before the
  first prompt (`services/ir0_passwd.c:98`), so that a reset of the account meanwhile is
  overwritten by whoever knows the old password. No property says which of the two is right.
- `LoginHasStoredLayout`: a power cut after the rename may leave `/etc/keymap` empty;
  the console then keeps the kernel's layout.

Seen in `FirstBoot` and named in no property: `seed_development` truncates `/etc/shadow` once
more after the done marker (`services/ir0_firstboot.c:251`), and a power cut there leaves a
development image that is done and lets nobody in. No text promises otherwise.

Met on the way and not a behaviour of the model: `Documentation/FIRSTBOOT.md` names the
marker `/etc/ir0-firstboot-done`, which the code only accepts as a legacy name;
it writes `/etc/firstboot.done`.

## Proofs

Every theorem holds for all values of the constants that satisfy the named assumptions
of the module: any number of processes, users, hashes, seeds and faults, any file,
script, queue, output or deadline. The induction is always the same: a strengthening
(`IndInv`, of adduser `AdminInv`, of the dialogues `DialogInv` and `SmokeInv`) that `Init` implies and every step keeps (one lemma or one case per
action), and the property from it.

| Module | Theorems |
| --- | --- |
| `ShadowUpdateProofs` | `TypeCorrect`, `UpdateInvariant` (`Inv`), `LiveFileSafe` (`LiveFileNotWritten`), `NoLostUpdate` (`UpdateIsRewrite`) |
| `ShadowRefinementProofs` | `Refinement` (`ImplementsAtomicShadow`) |
| `AccountAdminProofs` | `AdminTypeCorrect` (`AdminTypeOK`), `NestingKept` (`NamesNested`), `AccountsAreStable` (`AccountIsStable`), `AppendsKeepHashes` (`HashKeptByAdders`); of one adder at a time `UidsAreUnique` (`UidsUnique`), `MembersAreKept` (`MembersStay`), `CreatedIsTrue` (`CreatedIsComplete`) |
| `FirstBootProofs` | `FirstBootTypeCorrect`, `MarkerComesLast` (`DoneMeansComplete`), `PolicyIsKept` (`PolicyHolds`), `DoneStaysDone` (`DoneIsFinal`) |
| `ConsoleSessionProofs` | `ConsoleTypeCorrect`, `LinesAreTaken` (`LinesReachTheirReader`), `EchoIsRight` (`EchoFitsPrompt`), `UtmpIsRight` (`UtmpTracksSession`), `SessionIsKept` (`SessionKeepsUser`) |
| `MatrixCaseProofs` | `CaseTypeCorrect`, `MatcherCorrect` (`FoundIsThere`), `OutputJudgedWhole` (`OutputVerdictIsFinal`), `StatusJudgedFairly` (`StatusVerdictIsEarned`), `GraceGiven` (`GraceIsKept`) |
| `BootStagesProofs` | `BootTypeCorrect` (`BootTypeOK`), `KeymapSuccessIsTrue` (`SuccessIsStored`), `LoginHasItsLayout` (`LoginHasStoredLayout`), `HomeStaysReachable` (`HomeIsReachable`), `ShutdownKeepsAll` (`ShutdownKeepsFiles`), `RecoveryLeavesDisk` (`RecoveryKeepsDisk`) |
| `ElevationSmokeProofs` | `ChangesAreEntered` (`ChangeIsEntered`), `TypedAheadIsTaken` (`TypedAheadWorks`); `AnswersAreRead`, `WrongIsRefused`, `EndsAreJudgedRightly` (the safety half of `SmokeReturns`) |

*The password file.* That the live file is never open for writing, or that a rename
publishes the right text, does not follow from itself: one has to know what is in
the copy at every moment. `IndInv` is `TypeOK /\ Inv`, and `Inv` says that the lock is
held by exactly the process between its two ends (so there is one copier), that
`/etc/shadow.new` is never the live inode, that while copying the source *is still*
the live file and the copy is the rewrite of its first `pos` lines (`CopyInProgress`),
that a finished copy is the rewrite of the whole live file (`CopyComplete`), and
that no lookup reads the copy (`ReaderInv`). There is one lemma per action
(`CallKeeps` ... `ReturnHashKeeps`), over lemmas about lines (`CopyExtends`,
`RewriteType`, ...). `NoLostUpdate` adds that only a rename changes what `/etc/shadow`
names (`OnlyRenamePublishes`).

*The refinement.* The table of `AtomicShadow` is what a lookup of the live file finds, and
`LookupRewrite` says that rewriting a file for one user changes this for that user and
for nobody else, duplicated lines included. So the rename is the instant of an update,
and every other step of an update a stutter, because the invariant tells that the renamed
copy is the rewrite of the file it replaces. A lookup's instant is its open: what it
has read and what is still ahead of it is the file it opened, which nobody writes
(`ReaderInv` again). A lookup that cannot open the file is not an instant of the
table: it maps to a lookup that failed, which returns no entry.

*adduser.* Beside adders the invariant of `ShadowUpdate` is false: an adder may append to the
file a copy is being made from, so a copy is no longer the rewrite of the live file. What
remains is `ShadowOK`: the lock, and that every process works on inodes it has open. On
it `AdminInv` puts that every inode of a shadow file, the live one, the copy and the
replaced ones, names accounts only (`ShadowsNested`), likewise the group files, and what an
adder has got at each point (`AdderOK`). It assumes that the image's files are nested
already (`ImageNestedAssumption`). `GreatestExists` shows that `next_uid` finds a
largest uid in a file of any length.

*One adder at a time.* These theorems have hypotheses, because without them they are
false: one adder (`Adders = {b}`), for the uids and the whole account a readable
`/etc/passwd`, for the account no passwd process (`adduser_lost_shadow` shows why) and at
most two groups, as in `main`: with a third, an `/etc/group` that could not be opened for the
second would be complete for neither. `UidFresh` keeps the chosen uid above all
others until it is written; `GroupCopyOK` and `GroupCopyFull` say that the copy is not the
live file and what it holds before the rename; `NameOK`, `LineOK` and `MembersOK` carry what
"account created" promises from the step that does it to the end.

*Firstboot.* That a marker has complete accounts behind it is a statement about
the past of several boots. `IndInv` turns it into one about the future: `InProgress` says
that the rest of the plan *pursues* a target, some texts of the account files that let one
user log in (or nobody, as the seed said) and keep the policy, and that each account file either has its target text
or is still to be written, with all of that before the first marker (`Pursues`).
`AccountPlanPursues` shows it of the plan of `write_accounts` for any valid name and any hash
that some password verifies, or the seed's, if none does,
`HeadIsDone` that each operation keeps it. The writes that may fail unnoticed are not of
account files, so the induction passes every fault. It holds for the canonical profiles
(`minimal`, `desktop`), of which the properties speak.

*The console.* Each property needs the screen: `ScreenFits` ties it to the service's
state, and `QueueFits` says that whatever waits in the terminal's queue was typed at a
screen whose reader may have it, which the flushes around the
prompts (`ir0_tty_restore_cooked`) establish and every keystroke keeps.

*A case of the matrix.* `MatcherOK` says that the state of `matrix_needle_feed` is a
prefix of the needle that ends where the reading is, and for a plain needle (whose first
byte does not come again) the longest such prefix, so none is missed. `EofOK`,
`StatusOK` and `GraceOK` tell what the end of the pipe, a status and the running grace are
evidence of, and `VerdictOK` what each verdict was given for.

*The machine.* `IndInv` of `BootStagesProofs` starts from types and from who may be at
work when (`JobsOK`): the console service does its jobs in its own stages, and everybody
else is a run of the tool. `MeetOK` makes `met`
mean what it says, that two at work have both met somebody, and this is what carries
`ToolOK`, the state of a run that met nobody after each of its calls: the layout is set, its
temporary file is empty, holds the name, holds the line, is `/etc/keymap`. Somebody
else's step falls under `met`, one's own is followed call by call
(`ToolGoesOn`). A write may fall short or fail unseen, so `Wrote` is about a run
that was not `nicked`, the case in which the code takes a write for the newline it is not.
That an open finds a free inode is a pigeonhole argument (`FreeInode`): it is what
`InodesAssumption` (more inodes than processes) is for. `LoginOK` says what the console
service has applied, from the read of the file to the prompt, and that nobody has met anybody
since; it needs that a line names one layout (`ParseLine`, `LinesDiffer`).
`SyncedOK`: after an undisturbed sync nobody is at work and the disk has every
file. `HomeOK` and `ApplianceOK`: behind every marker, in memory *or* on disk, there is the
directory, where a boot without a failed mount has `/home`; memory alone would not be
inductive, since a power cut brings back what the disk has. `RecoveryOK`: in a shell that
says read-only no run of keymap has a file open. `StepKinds` sorts the steps by what they
may touch, so that each part is proved over a few kinds instead of every action,
and `Entries` says how a stage is come to.

*The dialogue.* `DialogInv` says that the answers passwd has taken and what it has not read
yet, entered or not (`pending`), make up what was `given` (`AnswersRead`), and who can have got
to which prompt (`PromptOK`). `RefusalInv` adds that every refusal had a reason. The
theorems have two hypotheses, without which they are false: a terminal (`Inputs =
{"tty"}`; on a pipe one read may take several lines for one password, of which
`passwd_batch` is the finding), and for `TypedAheadIsTaken` that the passwords
of the image are single lines. Of what other runs change meanwhile `TypedAheadIsTaken` asks
only that the old password is right again, or still, when passwd ends.

*The smokes of sudo and doas.* That no answer is thrown away is a matter of counting:
`PromptsMatch` says that the child has prompted once for each line it took, and once more
while it waits, and that a line is entered only for a prompt already *read*. So when
the child discards its input before the next prompt, nothing is there. `SeedOK` and
`StatusOK` carry the password, wheel and the reasons of an exit status to the end of the
run. `EndsAreJudgedRightly` holds if `ir0_group_list` gets to wheel before its array is
full (`WheelListed`); the run has an `/etc/group` for which it is full just after that.

*Only model-checked.* Every liveness property (`CallReturns`, `EventuallyUsable`,
`LogoutReprompts`, `CaseReturns`, `BootEnds`, and of `SmokeReturns` that the end comes):
fairness and ENABLED are beyond the prover. So is induction over data, which is why what
`ir0_group_list` returns for every `/etc/group` is a hypothesis. Of firstboot on the profiles
that are not canonical only the types are proved. No module declares a RECURSIVE operator.

## Plan

1. Proofs: what firstboot promises on the profiles that are not canonical, and that
   `AtomicShadow` is all that `PasswdDialog` relies on.
2. `PackageBuild`: stamps, fetch, patch and build with interrupted steps; abstract
   specification: a stamp means a completed step.
3. Operators: dependency closure and exclusions of `isdconfig.py` against their
   definition as a least fixed point.

## Not modelled

`crypt(3)` and salts (values), splitting of lines into fields (records), the contents of home directories,
messages and logging, the order in which the kernel writes the account files and their
names to disk (there a rename is durable when it returns; `BootStages` has what a power cut
leaves of `/etc/keymap`), the sessions of a console service that dies, the straight-line smoke services,
the build scripts, audits of
finished trees, third-party recipes. `PROJECT.json` gives the reason for each part.
