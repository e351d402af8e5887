----------------------------- MODULE MCUserNet -----------------------------
(* Instances of UserNet for TLC: networks of two and three servers. *)
EXTENDS UserNet, TLC

CONSTANTS s1, s2, s3, mod, usr

\* a line s1 - s2 - s3, and a pair s1 - s2
MCLine == (s1 :> {s2}) @@ (s2 :> {s1, s3}) @@ (s3 :> {s2})
MCPair == (s1 :> {s2}) @@ (s2 :> {s1})

\* a moderator and a plain user
MCLevel == [n \in Nick |-> IF n = mod THEN MODERATOR ELSE 1]

\* anybody logs in anywhere; each nick at one server
MCAnywhere == [n \in Nick |-> Server]
MCTogether == [n \in Nick |-> {s1}]
=============================================================================
