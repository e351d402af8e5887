------------------------------ MODULE Search ------------------------------
(***************************************************************************)
(* Searches over a network of servers.  A server looks through its own     *)
(* files and, unless that gave as many hits as were asked for, passes the  *)
(* request to its other links and keeps an entry of the list               *)
(* Remote_Search.  Hits find their way back along these entries.  An entry *)
(* is closed when each of those links has sent an END, when a removed link *)
(* leaves no END to wait for, or, once it has timed out, when a look-up    *)
(* passes over it.                                                         *)
(*                                                                         *)
(* The network has no cycles.  Handlers only mark a connection; until the  *)
(* main loop removes it, further messages may be handled.  A disconnected  *)
(* link leaves the list Servers at once, though Remote_Search counts on it *)
(* until it is removed.                                                    *)
(***************************************************************************)
EXTENDS Integers, Sequences, FiniteSets

CONSTANTS
  Server,   \* server names
  Edge,     \* Edge[s]: the servers s may be linked with
  Client,   \* connections of logged-in clients
  At,       \* At[c]: the server of client c
  Id,       \* search ids, never generated twice
  Hits,     \* Hits[s]: number of matching files of the users at s
  Max_Search_Results, \* hits a search may ask for; 0 is no limit
  Wanted,   \* the numbers of hits that clients ask for
  Scopes,   \* whether clients limit a search to their server
  Views,    \* whether a server knows the user a message names
  Leaver,   \* the clients whose connection may end
  Search_Timeout, \* seconds until an entry may be dropped
  MaxTime,  \* bound on the clock
  MaxSplits,\* bound on the number of links that fail or are disconnected
  None      \* no client

ASSUME Setting ==
  /\ Edge \in [Server -> SUBSET Server] /\ At \in [Client -> Server]
  /\ Hits \in [Server -> Nat] /\ Wanted \subseteq Nat /\ Leaver \subseteq Client
  /\ Scopes \subseteq BOOLEAN /\ Views \subseteq BOOLEAN
  /\ {Max_Search_Results, Search_Timeout, MaxTime, MaxSplits} \subseteq Nat
  /\ Client \cap Server = {} /\ None \notin Client
  /\ \A s \in Server : s \notin Edge[s] /\ \A t \in Edge[s] : s \in Edge[t]
ASSUME FiniteNet == IsFiniteSet(Server)

\* next leads to r: each edge is passed in one direction, and none at r.  In a
\* network without cycles there is a way to every server.
LeadsTo(next, r) ==
  /\ next[r] \notin Edge[r]
  /\ \A s \in Server : \A t \in Edge[s] : (next[s] = t) # (next[t] = s)
ASSUME NoCycles == \A r \in Server : \E next \in [Server -> Server] : LeadsTo(next, r)

VARIABLES
  client,  \* client[c]: the state of connection c
  end,     \* end[s][t]: s's connection to t: down, pending, up, or marked (see LinkStates)
  chan,    \* chan[s][t]: messages from s that t has not read
  pend,    \* pend[s]: Remote_Search of server s
  asker,   \* asker[i]: the client that issued search i
  want,    \* want[i]: the hits it asked for
  heard,   \* heard[i]: number of hits and ENDs sent to that client
  now,     \* the clock
  splits   \* number of links that have failed or were disconnected

vars == <<client, end, chan, pend, asker, want, heard, now, splits>>

-----------------------------------------------------------------------------
(* Data *)

\* A DSEARCH: con is the connection the request came from; count of the num
\* expected ENDs have come.
Entry == [id : Id, con : Client \cup Server, count : Nat, num : Int, ts : Nat]

Message == [type : {"SEARCH"}, id : Id, max : Nat]
             \cup [type : {"RESULT", "END"}, id : Id]
             \cup [type : {"ACK", "EOF"}]

Request(i, max) == [type |-> "SEARCH", id |-> i, max |-> max]
Results(i, n)   == [k \in 1 .. n |-> [type |-> "RESULT", id |-> i]]
End(i)          == [type |-> "END", id |-> i]
Ack             == [type |-> "ACK"]
Eof             == [type |-> "EOF"]

\* A marked link is dying while it is in Servers; taken out of there it is delisted,
\* or reading if the rest of its buffer is still handled.
LinkStates == {"down", "pending", "up", "dying", "delisted", "reading"}

\* the list `Servers' of s, and the links of s that have not been removed
Servers(s) == {t \in Server : end[s][t] \in {"up", "dying"}}
Links(s)   == {t \in Server : end[s][t] \notin {"down", "pending"}}

\* the links a request of con is passed to
AllPeers(s, con) == Servers(s)
Peers(s, con) == Servers(s) \ {con}

IsUser(c) == client[c] \in {"on", "marked"}

\* queue msgs on the links of s to the servers in S; what is sent to a peer
\* that has closed its end is lost
Send(ch, s, S, msgs) ==
  [ch EXCEPT ![s] = [t \in Server |->
     IF t \in S \cap Links(s) /\ end[t][s] # "down" THEN ch[s][t] \o msgs ELSE ch[s][t]]]

Received(t, s) == [chan EXCEPT ![t][s] = Tail(@)]

\* The subsequence of q at the places in K.  (SelectSeq is recursive, and nothing can
\* be proved of it.)
Sift(q, K) ==
  LET Rank(k) == Cardinality({j \in K : j <= k})
  IN  IF K = DOMAIN q THEN q ELSE [n \in 1 .. Cardinality(K) |-> q[CHOOSE k \in K : Rank(k) = n]]

\* The ENDs for the entries in the sequence q, as s sends them: on links, and
\* to clients.
EndsOn(ch, s, q) ==
  [ch EXCEPT ![s] = [t \in Server |->
     IF t \in Links(s) /\ end[t][s] # "down"
     THEN LET mine == Sift(q, {k \in DOMAIN q : q[k].con = t})
          IN  ch[s][t] \o [k \in DOMAIN mine |-> End(mine[k].id)]
     ELSE ch[s][t]]]
EndsHeard(h, q) ==
  [i \in Id |-> [h[i] EXCEPT !.ends = @ + Cardinality({k \in DOMAIN q :
                   q[k].id = i /\ q[k].con \in Client /\ IsUser(q[k].con)})]]

(* find_search(): entries on the way to the one for id i are dropped if timed out *)

Place(q, i)   == CHOOSE k \in 1 .. Len(q) + 1 :
                   /\ k <= Len(q) => q[k].id = i
                   /\ \A j \in 1 .. k - 1 : q[j].id # i
Expired(e)    == e.ts + Search_Timeout < now
Passed(s, i)  == {k \in 1 .. Place(pend[s], i) - 1 : Expired(pend[s][k])}
Dropped(s, i) == Sift(pend[s], Passed(s, i))
Kept(s, i)    == Sift(pend[s], DOMAIN pend[s] \ Passed(s, i))

\* what the look-up sends and leaves
LookUp(s, t, i) == EndsOn(Received(t, s), s, Dropped(s, i))
Found(q, i)     == Place(q, i) <= Len(q)

-----------------------------------------------------------------------------
Init ==
  /\ client = [c \in Client |-> "on"]
  /\ end = [s \in Server |-> [t \in Server |-> IF t \in Edge[s] THEN "up" ELSE "down"]]
  /\ chan = [s \in Server |-> [t \in Server |-> <<>>]]
  /\ pend = [s \in Server |-> <<>>]
  /\ asker = [i \in Id |-> None] /\ want = [i \in Id |-> 0]
  /\ heard = [i \in Id |-> [hits |-> 0, ends |-> 0]]
  /\ now = 0 /\ splits = 0

Tick == /\ now < MaxTime /\ now' = now + 1
        /\ UNCHANGED <<client, end, chan, pend, asker, want, heard, splits>>

Min(a, b)  == IF a < b THEN a ELSE b
Capped(max) == IF Max_Search_Results > 0 THEN Min(max, Max_Search_Results) ELSE max

\* fdb_search() at s for at most max hits, 0 for all of them
LocalHits(s, max) == IF max = 0 THEN Hits[s] ELSE Min(Hits[s], max)

\* the ENDs s expects for a request of con: one of each link but that it came over
Expected(s, con) == Cardinality(Servers(s)) - (IF con \in Server THEN 1 ELSE 0)

\* search_internal() at s for a request of con; ch is what is in flight
SearchInternal(s, con, i, max, local, ch) ==
  LET n     == LocalHits(s, max)
      peers == Peers(s, con)
      fwd   == n < max /\ ~local /\ Expected(s, con) > 0
      e     == [id |-> i, con |-> con, count |-> 0, num |-> Expected(s, con), ts |-> now]
      last  == IF fwd THEN 0 ELSE 1
      back  == IF con \in Client THEN ch
               ELSE Send(ch, s, {con}, Results(i, n) \o (IF fwd THEN <<>> ELSE <<End(i)>>))
  IN  /\ pend' = IF fwd THEN [pend EXCEPT ![s] = Append(@, e)] ELSE pend
      /\ chan' = IF fwd THEN Send(back, s, peers, <<Request(i, max - n)>>) ELSE back
      /\ heard' = IF con \in Client THEN [heard EXCEPT ![i] = [hits |-> n, ends |-> last]]
                                    ELSE heard

\* search() from client c
StartSearch(c, i, max, local) ==
  /\ client[c] = "on" /\ asker[i] = None
  /\ asker' = [asker EXCEPT ![i] = c]
  /\ want' = [want EXCEPT ![i] = Capped(max)]
  /\ SearchInternal(At[c], c, i, Capped(max), local, chan)
  /\ UNCHANGED <<client, end, now, splits>>

Deliver(s, t, type) == /\ end[s][t] \in {"up", "reading"} /\ chan[t][s] # <<>>
                       /\ Head(chan[t][s]).type = type

\* remote_search(), which ends at once when it does not know the user
RecvSearch(s, t) ==
  LET m == Head(chan[t][s])
  IN  /\ Deliver(s, t, "SEARCH")
      /\ \E known \in Views :
           IF known THEN SearchInternal(s, t, m.id, Capped(m.max), FALSE, Received(t, s))
           ELSE /\ chan' = Send(Received(t, s), s, {t}, <<End(m.id)>>)
                /\ UNCHANGED <<pend, heard>>
      /\ UNCHANGED <<client, end, asker, want, now, splits>>

\* remote_search_result(); a client hears of a file only if its owner is known
RecvResult(s, t) ==
  LET i    == Head(chan[t][s]).id
      q    == Kept(s, i)
      con  == q[Place(q, i)].con
      told == EndsHeard(heard, Dropped(s, i))
  IN  /\ Deliver(s, t, "RESULT")
      /\ pend' = [pend EXCEPT ![s] = q]
      /\ chan' = IF Found(q, i) /\ con \in Server
                 THEN Send(LookUp(s, t, i), s, {con}, Results(i, 1)) ELSE LookUp(s, t, i)
      /\ \E known \in Views :
           heard' = IF Found(q, i) /\ con \in Client /\ IsUser(con) /\ known
                    THEN [told EXCEPT ![i].hits = @ + 1] ELSE told
      /\ UNCHANGED <<client, end, asker, want, now, splits>>

\* has the last END come for entry e?
AnyEnd(e)  == e.count > 0
LastEnd(e) == e.count = e.num

\* remote_search_end()
RecvEnd(s, t) ==
  LET i    == Head(chan[t][s]).id
      q    == Kept(s, i)
      p    == Place(q, i)
      e    == [q[p] EXCEPT !.count = @ + 1]
      last == Found(q, i) /\ LastEnd(e)
      over == Dropped(s, i) \o (IF last THEN <<e>> ELSE <<>>)
  IN  /\ Deliver(s, t, "END")
      /\ pend' = [pend EXCEPT ![s] =
                    IF last THEN Sift(q, DOMAIN q \ {p})
                    ELSE IF Found(q, i) THEN [q EXCEPT ![p] = e] ELSE q]
      /\ chan' = EndsOn(Received(t, s), s, over)
      /\ heard' = EndsHeard(heard, over)
      /\ UNCHANGED <<client, end, asker, want, now, splits>>

(* Connections *)

\* the end of a client's stream
Disconnect(c) ==
  /\ client[c] = "on" /\ c \in Leaver
  /\ client' = [client EXCEPT ![c] = "marked"]
  /\ UNCHANGED <<end, chan, pend, asker, want, heard, now, splits>>

\* zap_local_user(): a new login takes over the session
Zap(c) ==
  /\ IsUser(c) /\ c \in Leaver
  /\ client' = [client EXCEPT ![c] = "zapped"]
  /\ UNCHANGED <<end, chan, pend, asker, want, heard, now, splits>>

\* server_login_ack() at the side of a link that gets there first, and at the other
Link(s, t) ==
  /\ t \in Edge[s] /\ end[s][t] = "down" /\ end[t][s] = "down"
  /\ end' = [end EXCEPT ![s][t] = "up", ![t][s] = "pending"]
  /\ chan' = [chan EXCEPT ![s][t] = <<Ack>>]
  /\ UNCHANGED <<client, pend, asker, want, heard, now, splits>>

RecvAck(s, t) ==
  /\ end[s][t] = "pending" /\ chan[t][s] # <<>> /\ Head(chan[t][s]) = Ack
  /\ end' = [end EXCEPT ![s][t] = "up"]
  /\ chan' = Received(t, s)
  /\ UNCHANGED <<client, pend, asker, want, heard, now, splits>>

\* a read or write on the link fails
LinkFails(s, t) ==
  /\ end[s][t] = "up" /\ splits < MaxSplits /\ splits' = splits + 1
  /\ end' = [end EXCEPT ![s][t] = "dying"]
  /\ UNCHANGED <<client, chan, pend, asker, want, heard, now>>

\* server_disconnect(); reading: the command came over this link, with more behind it
ServerDisconnect(s, t) ==
  /\ end[s][t] \in {"up", "dying"} /\ splits < MaxSplits /\ splits' = splits + 1
  /\ \E marked \in {"delisted"} \cup (IF end[s][t] = "up" THEN {"reading"} ELSE {}) :
       end' = [end EXCEPT ![s][t] = marked]
  /\ UNCHANGED <<client, chan, pend, asker, want, heard, now>>

RecvEof(s, t) ==
  /\ end[s][t] = "up" /\ Deliver(s, t, "EOF")
  /\ end' = [end EXCEPT ![s][t] = "dying"]
  /\ chan' = Received(t, s)
  /\ UNCHANGED <<client, pend, asker, want, heard, now, splits>>

(* cancel_search(), called by remove_connection() *)

CancelNothing(s, c) == pend
CancelClient(s, c) ==
  [pend EXCEPT ![s] = Sift(pend[s], {k \in DOMAIN pend[s] : pend[s][k].con # c})]

\* of a client
ReapClient(c) ==
  /\ client[c] \in {"marked", "zapped"}
  /\ client' = [client EXCEPT ![c] = "gone"]
  /\ pend' = CancelClient(At[c], c)
  /\ UNCHANGED <<end, chan, asker, want, heard, now, splits>>

\* the entries of s when link t is removed: one END less to wait for
ForgetLink(s, t) == pend[s]
LessLink(s, t) == [k \in DOMAIN pend[s] |-> [pend[s][k] EXCEPT !.num = @ - 1]]

\* of a server
ReapLink(s, t) ==
  LET q    == LessLink(s, t)
      stay == {k \in DOMAIN q : q[k].con # t /\ q[k].count < q[k].num}
      over == Sift(q, {k \in DOMAIN q \ stay : q[k].con # t})
      eof  == IF end[t][s] = "down" THEN <<>> ELSE <<Eof>>
  IN  /\ end[s][t] \in {"dying", "delisted", "reading"}
      /\ end' = [end EXCEPT ![s][t] = "down"]
      /\ pend' = [pend EXCEPT ![s] = Sift(q, stay)]
      /\ chan' = [EndsOn(chan, s, over) EXCEPT ![s][t] = @ \o eof, ![t][s] = <<>>]
      /\ heard' = EndsHeard(heard, over)
      /\ UNCHANGED <<client, asker, want, now, splits>>

-----------------------------------------------------------------------------
Ask(c)        == \E i \in Id, max \in Wanted, local \in Scopes : StartSearch(c, i, max, local)
Receive(s, t) == \/ RecvSearch(s, t) \/ RecvResult(s, t) \/ RecvEnd(s, t)
                 \/ RecvAck(s, t) \/ RecvEof(s, t)

Next ==
  \/ Tick
  \/ \E c \in Client : Ask(c) \/ Disconnect(c) \/ Zap(c) \/ ReapClient(c)
  \/ \E s, t \in Server : Receive(s, t) \/ Link(s, t) \/ LinkFails(s, t)
                            \/ ServerDisconnect(s, t) \/ ReapLink(s, t)

Spec == Init /\ [][Next]_vars

\* The main loop never stops: while something has arrived or is marked, it reads some
\* of it or removes one.  (No connection needs a promise of its own here: only finitely
\* many messages can come of a search.)
Work == \/ \E c \in Client : ReapClient(c)
        \/ \E s, t \in Server : Receive(s, t) \/ ReapLink(s, t)

Fairness == WF_vars(Work)

FairSpec == Spec /\ Fairness

-----------------------------------------------------------------------------
(* Properties *)

\* Every variable has its type.
TypeOK ==
  /\ client \in [Client -> {"on", "marked", "zapped", "gone"}]
  /\ end \in [Server -> [Server -> LinkStates]]
  /\ chan \in [Server -> [Server -> Seq(Message)]]
  /\ pend \in [Server -> Seq(Entry)]
  /\ asker \in [Id -> Client \cup {None}] /\ want \in [Id -> Nat]
  /\ heard \in [Id -> [hits : Nat, ends : Nat]]
  /\ now \in Nat /\ splits \in Nat

\* No entry outlives the connection its answers go to: send_cmd() never follows a
\* freed CONNECTION, whatever was removed while the search was on its way.
NoDanglingSearch ==
  \A s \in Server : \A k \in DOMAIN pend[s] :
    LET con == pend[s][k].con
    IN  IF con \in Client THEN client[con] # "gone" /\ At[con] = s ELSE con \in Links(s)

\* Each entry waits for an END, and for no more of them than there are other links,
\* those counted that are out of Servers and not yet removed: cancel_search() lowers
\* numServers with the removal, so no removal leaves an entry nothing could close.
WaitsForLinks ==
  \A s \in Server : \A k \in DOMAIN pend[s] :
    LET e == pend[s][k]
    IN  e.count < e.num /\ e.num <= Cardinality(Links(s) \ {e.con})

\* The assertion of remote_search_end() (search.c 836): an END comes for an entry that
\* waits for no more of them than there are links in Servers.
AssertedServers ==
  \A s, t \in Server : Deliver(s, t, "END") =>
    LET i == Head(chan[t][s]).id
        q == Kept(s, i)
    IN  Found(q, i) => q[Place(q, i)].num <= Cardinality(Servers(s))

\* No answer comes from the link it is to be passed to (the second assertion of
\* remote_search_result()).
NoEcho ==
  \A s, t \in Server : \A m \in {chan[t][s][k] : k \in DOMAIN chan[t][s]} :
    m.type \in {"RESULT", "END"} =>
      \A k \in DOMAIN pend[s] : pend[s][k].id = m.id => pend[s][k].con # t

\* t has not answered the search i that s passed to it
Unanswered(s, t, i) ==
  /\ end[s][t] = "up" /\ end[t][s] = "up"
  /\ \/ \E k \in DOMAIN chan[s][t] : chan[s][t][k].type = "SEARCH" /\ chan[s][t][k].id = i
     \/ \E k \in DOMAIN chan[t][s] : chan[t][s][k] = End(i)
     \/ \E k \in DOMAIN pend[t] : pend[t][k].id = i /\ pend[t][k].con = s

\* The comment in remote_search_end(): a client is told that its search has ended
\* when the ends of the matches have come from all peers.  (Here nothing times out.)
AllAnswered ==
  \A i \in Id : heard[i].ends > 0 =>
    \A t \in Server : ~Unanswered(At[asker[i]], t, i)

\* all the matching files there are
Files == LET sum[S \in SUBSET Server] ==
               IF S = {} THEN 0 ELSE LET s == CHOOSE s \in S : TRUE IN Hits[s] + sum[S \ {s}]
         IN  sum[Server]

\* In a network that stays whole, a client whose search has ended has got as many
\* hits as it asked for, or all there are.
FoundEnough ==
  \A i \in Id : heard[i].ends > 0 =>
    heard[i].hits >= (IF want[i] = 0 THEN Files ELSE Min(want[i], Files))

\* sample.conf 37: max_results is the maximum number of results returned for a search.
MaxResultsHeld == \A i \in Id : Max_Search_Results > 0 => heard[i].hits <= Max_Search_Results

\* remote_search_end() asserts that the end of a search goes to a client or to a
\* server; here, when the last END comes for a client that zap_local_user() has cut off.
EndsReachSomebody ==
  [][\A s, t \in Server :
       RecvEnd(s, t) =>
         \A k \in DOMAIN pend[s] :
           LET e == pend[s][k]
           IN  e.id = Head(chan[t][s]).id /\ e.con \in Client /\ LastEnd([e EXCEPT !.count = @ + 1])
                 => IsUser(e.con)]_vars

\* What the clients see of their searches.
Status(i) ==
  IF asker[i] = None THEN "new"
  ELSE IF heard[i].ends > 0 THEN "done"
  ELSE IF IsUser(asker[i]) THEN "open" ELSE "dropped"

Service == INSTANCE SearchService WITH
  state <- [i \in Id |-> [status |-> Status(i), hits |-> heard[i].hits, ends |-> heard[i].ends]]

\* A search keeps the promises of SearchService: one END, after all its hits; and in
\* the end there is one, through splits, new links and time-outs.
Serves == Service!Spec

\* Those promises of a search that are safety: nothing is heard before it is asked or
\* after it has ended, and it ends once.
ServesSafely == Service!Safety
=============================================================================
