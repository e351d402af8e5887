---------------------------- MODULE MCChannels ----------------------------
(* Instances of Channels for TLC. *)
EXTENDS Channels, TLC

CONSTANTS s1, s2, usr, usr2, mod, lobby, lobby1, room

MCAlone == s1 :> {}
MCPair  == (s1 :> {s2}) @@ (s2 :> {s1})

\* everybody at s1; the plain users apart, a moderator with the second
MCHere  == [n \in Nick |-> s1]
MCApart == [n \in Nick |-> IF n = usr THEN s1 ELSE s2]

MCLevel == [n \in Nick |-> IF n = mod THEN MODERATOR ELSE USER]

\* lobby, when full, rolls over to lobby1
MCRollover == [c \in Chan |-> IF c = lobby /\ lobby1 \in Chan THEN lobby1 ELSE None]
=============================================================================
