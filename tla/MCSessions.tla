---------------------------- MODULE MCSessions -----------------------------
(* Instances of Sessions for TLC, on the networks of MCUserNet. *)
EXTENDS Sessions, MCUserNet

CONSTANTS f1, f2, f3

\* a user that logs in anywhere and a moderator that stays at s2
MCRoamer == [n \in Nick |-> IF n = mod THEN {s2} ELSE Server]

\* the names of files are alike
MCSymmetry == Permutations(File)
=============================================================================
