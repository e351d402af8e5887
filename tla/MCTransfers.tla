---------------------------- MODULE MCTransfers ----------------------------
(* An instance of Transfers for TLC: three servers in a line, four users. *)
EXTENDS Transfers, TLC

CONSTANTS s1, s2, s3, ann, bob, cat, dan

MCEdge == (s1 :> {s2}) @@ (s2 :> {s1, s3}) @@ (s3 :> {s2})
MCHome == (ann :> s1) @@ (bob :> s2) @@ (cat :> s3) @@ (dan :> s3)
MCToward == [s \in Server |-> [n \in Nick |->
               IF Home[n] = s THEN None ELSE IF s = s2 THEN Home[n] ELSE s2]]

\* dan ignores cat, beside him, and ann, two links away
MCIgnores == {<<dan, cat>>, <<dan, ann>>}

Req(tag, from, to, file) == [tag |-> tag, from |-> from, to |-> to, file |-> file]

\* bob and cat are behind firewalls
MCRequests == {Req(203, ann, cat, "f"), Req(500, ann, cat, "f"), Req(203, bob, ann, "f"),
               Req(500, bob, cat, "f"), Req(203, cat, dan, "f"), Req(203, bob, dan, "f"),
               Req(500, ann, dan, "f"), Req(500, ann, bob, "f"), Req(203, bob, cat, "f")}
MCFar == {Req(203, ann, dan, "f")}
=============================================================================
