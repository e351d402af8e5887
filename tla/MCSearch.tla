----------------------------- MODULE MCSearch -----------------------------
(* Instances of Search for TLC. *)
EXTENDS Search, TLC

CONSTANTS s1, s2, s3, c1, c2

\* s2 in the middle of s1 and s3
MCLine == (s1 :> {s2}) @@ (s2 :> {s1, s3}) @@ (s3 :> {s2})

\* clients at an end of the line; at its middle; and at each of these
MCEnd    == [c \in Client |-> s1]
MCMiddle == [c \in Client |-> s2]
MCBoth   == [c \in Client |-> IF c = c1 THEN s1 ELSE s2]

\* one matching file at each server; none at s2
MCOne    == [s \in Server |-> 1]
MCApart  == [s \in Server |-> IF s = s2 THEN 0 ELSE 1]
=============================================================================
