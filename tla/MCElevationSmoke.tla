-------------------------- MODULE MCElevationSmoke --------------------------
(***************************************************************************)
(* Small instances of ElevationSmoke: every script of passwd from          *)
(* MCPasswdDialog, and /etc/group files for sudo and doas.                 *)
(***************************************************************************)
EXTENDS MCPasswdDialog, ElevationSmoke

Group(n, g, m) == [name |-> n, gid |-> g, members |-> m]

\* The user is in wheel; as well in the own group, listed once more, and in one
\* with the same number; is not in wheel.
MCGroupFiles ==
  { << Group("root", 0, {root}), Group("wheel", 10, {root, lab}), Group("users", 100, {lab}) >>,
    << Group("audio", 63, {lab}), Group("users", 100, {lab}), Group("sound", 63, {lab}),
       Group("wheel", 10, {lab}) >>,
    << Group("wheel", 10, {root}), Group("users", 100, {lab}) >> }
=============================================================================
