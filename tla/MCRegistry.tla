---------------------------- MODULE MCRegistry ----------------------------
(* Instances of Registry for TLC. *)
EXTENDS Registry

CONSTANTS s1, s2, s3, p1, p2

MCPair == [s \in Server |-> Server \ {s}]
MCLine == [s \in Server |-> IF s = s2 THEN Server \ {s2} ELSE {s2} \cap Server]

\* the account is registered nowhere, or everywhere
MCNew == [s \in Server |-> None]
Old(level) == [pass |-> CHOOSE p \in Pass : TRUE, level |-> level, ts |-> 0,
               seen |-> 0, muzzled |-> FALSE, cloaked |-> FALSE]
MCUser == [s \in Server |-> Old(LEVEL_USER)]
MCMod  == [s \in Server |-> Old(LEVEL_MODERATOR)]
=============================================================================
