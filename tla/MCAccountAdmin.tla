--------------------------- MODULE MCAccountAdmin ---------------------------
(***************************************************************************)
(* Small instances of AccountAdmin: root and two or three users to add.    *)
(***************************************************************************)
EXTENDS AccountAdmin, TLC

CONSTANTS root, la, lab, bo, h1, h2, tail0, tail1

\* /etc/passwd of the image: root.
MCPasswd == << [name |-> root, uid |-> 0] >>

\* /etc/shadow of the image: root's line.
MCShadow == { << NewLine(root, h1, tail1) >> }

\* "la" is a substring of "lab".
MCWithin(u, v) == u = v \/ (u = la /\ v = lab)

MCOneGroup  == <<"wheel">>
MCGroups    == <<"users", "wheel">>
MCNobody    == {}

\* Used where only safety is checked.
Symmetry == Permutations(Adders) \cup Permutations(GroupFiles) \cup Permutations(Inodes)
=============================================================================
