--------------------------- MODULE MCServerLink ---------------------------
(* Instances of ServerLink for TLC. *)
EXTENDS ServerLink

CONSTANTS s1, s2, s3

\* everybody has everybody else in the servers file, with the right password
MCOpen == [s \in Server |-> Server \ {s}]

\* s3 expects another password of s1, and s2 has no entry for s3
MCEntries == [s \in Server |-> Server \ (IF s = s2 THEN {s2, s3} ELSE {s})]
MCAccepts == [s \in Server |-> MCEntries[s] \ (IF s = s3 THEN {s1} ELSE {})]
=============================================================================
