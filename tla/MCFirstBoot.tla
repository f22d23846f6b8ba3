----------------------------- MODULE MCFirstBoot -----------------------------
(***************************************************************************)
(* Small instances of FirstBoot.                                           *)
(***************************************************************************)
EXTENDS FirstBoot

MCUsers == {"root", "labuser", "ana"}
MCValidUsers == {"labuser", "ana"}

\* A seed as documented, with the defaults of apply_seed_file.
Seed(u, h) == [user |-> u, hash |-> h, wheel |-> TRUE, lock_root |-> TRUE, recovery |-> TRUE]

\* A good seed, one that opens root, one without a hash, one for root, one whose
\* hash verifies no password, and one that gives root such a hash.
MCSeeds == { Seed("ana", "h1"),
             [Seed("ana", "h1") EXCEPT !.lock_root = FALSE, !.wheel = FALSE, !.recovery = FALSE],
             Seed("ana", ""),
             [Seed("root", "h1") EXCEPT !.lock_root = FALSE],
             Seed("ana", "*"),
             [Seed("labuser", "!") EXCEPT !.lock_root = FALSE] }
=============================================================================
