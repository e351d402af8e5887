--------------------------- MODULE SearchService ---------------------------
(***************************************************************************)
(* What a client may expect of a search: after it has asked, hits arrive   *)
(* until one end-of-search message closes the search, after which nothing  *)
(* more is heard of it.  An open search is closed in the end, unless the   *)
(* client's connection is dropped.                                         *)
(***************************************************************************)
EXTENDS Integers

CONSTANT Id  \* searches

VARIABLE state   \* state[i]: status of search i and what the client has heard

\* ends counts the end-of-search messages
States == [status : {"new", "open", "done", "dropped"}, hits : Nat, ends : 0 .. 1]

New == [status |-> "new", hits |-> 0, ends |-> 0]

\* May search i go from a to b?
Moves(a, b) ==
  /\ b.hits >= a.hits
  /\ \/ a.status \in {"new", "open"} /\ b.status = "open" /\ b.ends = 0
     \/ a.status \in {"new", "open"} /\ b.status = "done" /\ b.ends = 1
     \/ a.status = "open" /\ b.status = "dropped" /\ b.hits = a.hits /\ b.ends = 0

Init == state = [i \in Id |-> New]

\* one step of the network may concern several searches
Next == /\ state' \in [Id -> States]
        /\ \A i \in Id : state'[i] = state[i] \/ Moves(state[i], state'[i])

\* every open search is closed in the end
Closes == \A i \in Id : state[i].status = "open" ~> state[i].status # "open"

Safety == Init /\ [][Next]_state

Spec == Safety /\ Closes
=============================================================================
