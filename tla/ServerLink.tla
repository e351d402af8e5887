---------------------------- MODULE ServerLink ----------------------------
(***************************************************************************)
(* How servers link.  An administrator has a server connect to another;    *)
(* each end challenges the other (LOGIN), answers (LOGIN_ACK) and, when it *)
(* accepts the answer, lists the connection in Servers, tells its other    *)
(* peers (LINK_INFO) and sends the new one all the links it knows of.      *)
(* Server_Links holds the links of the others; is_linked() looks a name up *)
(* in both lists, so that the links of the network never form a cycle.     *)
(*                                                                         *)
(* As in UserNet a server is one loop with a read phase, in which handlers *)
(* mark connections, and a write phase that removes what is marked.        *)
(***************************************************************************)
EXTENDS Integers, Sequences, FiniteSets

CONSTANTS
  Server,      \* server names
  Entries,     \* Entries[s]: the servers that s's servers file has an entry for
  Accepts,     \* Accepts[s]: those of them whose password is what s expects
  Admins,      \* the servers at which administrators give commands
  None,        \* no link
  Careful,     \* TRUE if administrators wait for one link before the next, and
               \* ask for links with servers other than their own
  MaxConnects, \* bound on the requests to connect
  MaxCuts,     \* bound on the requests to disconnect
  MaxFaults    \* bound on the failures of connections and the crashes of servers

ASSUME Setting ==
  /\ Entries \in [Server -> SUBSET Server]
  /\ Accepts \in [Server -> SUBSET Server]
  /\ \A s \in Server : Accepts[s] \subseteq Entries[s]
  /\ Admins \subseteq Server /\ Careful \in BOOLEAN
  /\ {MaxConnects, MaxCuts, MaxFaults} \subseteq Nat
ASSUME FiniteNet == IsFiniteSet(Server)

VARIABLES
  con,     \* con[s][l]: s's CONNECTION of link l
  net,     \* net[s][l]: what s has sent on l and its peer has not read
  links,   \* links[s]: the list Server_Links of s
  phase,   \* phase[s]: the part of the main loop s is in
  served,  \* served[s]: the peers logging in that s has read from since it
           \* marked a connection: each is read from once before the removal
  connects, cuts, faults   \* how much of the bounds has been used

used == <<connects, cuts, faults>>
vars == <<con, net, links, phase, served, used>>

-----------------------------------------------------------------------------
(* Data *)

\* A link is named by the server that opens it and the one that accepts.
Link       == {l \in Server \X Server : l[1] # l[2]}
LinksOf(s) == {l \in Link : s \in {l[1], l[2]}}
Peer(s, l) == IF s = l[1] THEN l[2] ELSE l[1]

\* The class of a CONNECTION: CLASS_UNKNOWN is "connecting" until the connect()
\* is complete, "fresh" when accepted and "login" with the flag server_login.
\* listed: it is in Servers.  destroy is "reading" where the handler that marked
\* the connection ran for a command from it: what else had been read into the
\* buffer is still carried out.
Connection ==
  [class : {"free", "connecting", "fresh", "login", "server"},
   listed : BOOLEAN, destroy : {"no", "reading", "marked"}]
Con(class) == [class |-> class, listed |-> class = "server", destroy |-> "no"]
Free       == Con("free")
Pending    == {"connecting", "fresh", "login"}

LinkRec == [server : Server, peer : Server, hops : Nat]
Message == [type : {"LOGIN", "ACK", "EOF"}]
             \cup [type : {"LINK_INFO"}, rec : LinkRec]
             \cup [type : {"SERVER_QUIT"}, server : Server, peer : Server]
             \cup [type : {"CONNECT"}, at : Server, host : Server]
             \cup [type : {"DISCONNECT"}, host : Server]

LinkInfo(x, y, h) == [type |-> "LINK_INFO", rec |-> [server |-> x, peer |-> y, hops |-> h]]
ServerQuit(x, y)  == [type |-> "SERVER_QUIT", server |-> x, peer |-> y]
Farther(m)        == [m EXCEPT !.rec.hops = @ + 1]
Login == [type |-> "LOGIN"]
Ack   == [type |-> "ACK"]
Eof   == [type |-> "EOF"]

Servers(s) == {l \in LinksOf(s) : con[s][l].listed}

\* is_linked()
LocallyLinked(s, host) == \E l \in Servers(s) : Peer(s, l) = host
IsLinked(s, host) ==
  \/ \E l \in Servers(s) : Peer(s, l) = host
  \/ \E i \in DOMAIN links[s] : host \in {links[s][i].server, links[s][i].peer}

\* send_cmd() of msgs on each link of L.  What is sent to a peer that has closed or
\* marked its end is never read.
Hears(s, l) == con[s][l].class # "free" /\ con[s][l].destroy = "no"
Send(q, s, L, msgs) ==
  [q EXCEPT ![s] = [l \in Link |->
     IF l \in L /\ Hears(Peer(s, l), l) THEN q[s][l] \o msgs ELSE q[s][l]]]
PassOn(q, s, l, m) == Send(q, s, Servers(s) \ {l}, <<m>>)      \* pass_message()
Received(s, l)     == [net EXCEPT ![Peer(s, l)][l] = Tail(@)]
Unread(q, s, l)    == [q EXCEPT ![Peer(s, l)][l] = <<>>]

\* mark_links(): the servers that the records of list lead to from host
Beyond(list, host) ==
  {t \in Server : \A S \in SUBSET Server :
     (host \in S /\ \A i \in DOMAIN list : list[i].server \in S => list[i].peer \in S)
       => t \in S}

\* The subsequence of q at the places in K, without recursion.
Sift(q, K) ==
  LET Rank(k) == Cardinality({j \in K : j <= k})
  IN  IF K = DOMAIN q THEN q ELSE [n \in 1 .. Cardinality(K) |-> q[CHOOSE k \in K : Rank(k) = n]]

\* remove_links()
Unlink(list, host) ==
  Sift(list, {i \in DOMAIN list : list[i].server \notin Beyond(list, host)})

\* server_quit(): the first record of the link x - y, and all beyond y
Quit(list, x, y) ==
  LET hits == {i \in DOMAIN list : list[i].server = x /\ list[i].peer = y}
      i    == CHOOSE k \in hits : \A j \in hits : k <= j
      rest == SubSeq(list, 1, i - 1) \o SubSeq(list, i + 1, Len(list))
  IN  IF hits = {} THEN list ELSE Unlink(rest, y)

Doomed(s) == \E l \in LinksOf(s) : con[s][l].destroy # "no"

-----------------------------------------------------------------------------
Init ==
  /\ con   = [s \in Server |-> [l \in Link |-> Free]]
  /\ net   = [s \in Server |-> [l \in Link |-> <<>>]]
  /\ links = [s \in Server |-> <<>>]
  /\ phase = [s \in Server |-> "read"]
  /\ served = [s \in Server |-> {}]
  /\ connects = 0 /\ cuts = 0 /\ faults = 0

(* Commands of administrators *)

\* no handshake, and no news of a link or request for one, is under way
Settled ==
  \A s \in Server, l \in Link :
    /\ con[s][l].class \notin Pending
    /\ \A i \in DOMAIN net[s][l] : net[s][l][i].type \notin {"LINK_INFO", "CONNECT"}

\* try_connect(); a server has one attempt on another under way at a time
TryConnect(s, host, cs) ==
  IF cs[s][<<s, host>>] = Free /\ cs[host][<<s, host>>] = Free
  THEN [cs EXCEPT ![s][<<s, host>>] = Con("connecting")] ELSE cs

\* server_connect() from a local user, for a link from server at
Connect(s, at, host) ==
  /\ phase[s] = "read" /\ at # host
  /\ connects < MaxConnects /\ connects' = connects + 1
  /\ Careful => Settled /\ host # s
  /\ ~IsLinked(s, host)
  /\ IF at = s
     THEN con' = TryConnect(s, host, con) /\ UNCHANGED net
     ELSE /\ net' = Send(net, s, Servers(s), <<[type |-> "CONNECT", at |-> at, host |-> host]>>)
          /\ UNCHANGED con
  /\ UNCHANGED <<links, phase, served, cuts, faults>>

Doom(c, how)     == [c EXCEPT !.destroy = how]
Delisted(c, how) == [c EXCEPT !.destroy = how, !.listed = FALSE]

\* the connection that server_disconnect() takes out of Servers and marks
Cut(s, host) == LET L == {l \in Servers(s) : Peer(s, l) = host}
                IN  IF L = {} THEN {None} ELSE L
Delist(s, l) ==
  IF l = None THEN con
  ELSE [con EXCEPT ![s][l] = Delisted(@, IF @.destroy = "no" THEN "marked" ELSE @.destroy)]
Deaf(q, s, l) == IF l = None \/ con[s][l].destroy = "reading" THEN q ELSE Unread(q, s, l)

\* server_disconnect() from a local user
Disconnect(s, host) ==
  /\ phase[s] = "read" /\ cuts < MaxCuts /\ cuts' = cuts + 1
  /\ \E k \in Cut(s, host) :
       /\ con' = Delist(s, k)
       /\ net' = Deaf(Send(net, s, Servers(s) \ {k}, <<[type |-> "DISCONNECT", host |-> host]>>),
                      s, k)
  /\ UNCHANGED <<links, phase, served, connects, faults>>

(* The handshake *)

\* complete_connect() at s, and accept_connection() at its peer, which main()
\* calls when what was marked has been removed
Connected(s, l) ==
  /\ s = l[1] /\ ~Doomed(s) /\ ~Doomed(l[2])
  /\ con[s][l] = Con("connecting")
  /\ con' = [con EXCEPT ![s][l] = Con("login"), ![l[2]][l] = Con("fresh")]
  /\ net' = [net EXCEPT ![s][l] = <<Login>>]
  /\ UNCHANGED <<links, phase, served, used>>

\* handle_connection() reads a command of this type on l
Read(s, l, type) ==
  /\ phase[s] = "read" /\ l \in LinksOf(s)
  /\ con[s][l].class \notin {"free", "connecting"} /\ con[s][l].destroy # "marked"
  /\ net[Peer(s, l)][l] # <<>> /\ Head(net[Peer(s, l)][l]).type = type

\* a handler marks the connection l of s; of a server link the next n commands
\* are in the buffer
Mark(s, l)      == [con EXCEPT ![s][l] = Doom(@, "marked")]
Buffered(s, l)  == IF con[s][l].destroy = "reading" THEN {Len(net[Peer(s, l)][l]) - 1}
                   ELSE 0 .. Len(net[Peer(s, l)][l]) - 1
Kept(q, s, l, n) == [q EXCEPT ![Peer(s, l)][l] = SubSeq(@, 1, n)]

\* server_login()
MayLogin(s, l) == /\ con[s][l].class # "server"
                  /\ ~IsLinked(s, Peer(s, l)) /\ Peer(s, l) \in Entries[s]
RecvLogin(s, l) ==
  /\ Read(s, l, "LOGIN")
  /\ IF MayLogin(s, l)
     THEN /\ con' = [con EXCEPT ![s][l] = Con("login")]
          /\ net' = Send(Received(s, l), s, {l},
                         IF con[s][l].class = "fresh" THEN <<Login, Ack>> ELSE <<Ack>>)
     ELSE con' = Mark(s, l) /\ net' = Unread(net, s, l)
  /\ served' = IF Doomed(s) THEN [served EXCEPT ![s] = @ \cup {l}] ELSE served
  /\ UNCHANGED <<links, phase, used>>

\* sync_server_list()
SyncLinks(s, l) == [i \in DOMAIN links[s] |->
                      Farther([type |-> "LINK_INFO", rec |-> links[s][i]])]
Orders(S) == {q \in [1 .. Cardinality(S) -> S] :
                \A x \in S : \E i \in 1 .. Cardinality(S) : q[i] = x}

\* server_login_ack(); Servers is kept in the order in which links came up,
\* which is left open
RecvAck(s, l) ==
  LET p == Peer(s, l)
  IN  /\ Read(s, l, "ACK") /\ l \notin served[s]
      /\ IF con[s][l].class = "login" /\ p \in Accepts[s]
         THEN \E q \in Orders(Servers(s)) :
                LET near == [i \in DOMAIN q |-> LinkInfo(s, Peer(s, q[i]), 1)]
                IN  /\ con' = [con EXCEPT ![s][l] = Con("server")]
                    /\ net' = Send(PassOn(Received(s, l), s, l, LinkInfo(s, p, 1)),
                                   s, {l}, near \o SyncLinks(s, l))
         ELSE IF con[s][l].class = "server" THEN net' = Received(s, l) /\ UNCHANGED con
         ELSE con' = Mark(s, l) /\ net' = Unread(net, s, l)
      /\ UNCHANGED <<links, phase, served, used>>

(* Commands on a link *)

\* handle_connection() takes other commands from an acknowledged peer only.  A peer
\* sends its ACK before any of them, so none is ever refused: were one to arrive
\* early it would stay in net for ever, against EventuallySettled.

\* link_info()
RecvLinkInfo(s, l) ==
  LET m == Head(net[Peer(s, l)][l])
  IN  /\ Read(s, l, "LINK_INFO") /\ con[s][l].class = "server"
      /\ links' = [links EXCEPT ![s] = Append(@, m.rec)]
      /\ net' = PassOn(Received(s, l), s, l, Farther(m))
      /\ UNCHANGED <<con, phase, served, used>>

\* server_quit()
EchoServerQuit(s, l) ==
  LET m == Head(net[Peer(s, l)][l])
  IN  /\ Read(s, l, "SERVER_QUIT") /\ con[s][l].class = "server"
      /\ links' = [links EXCEPT ![s] = Quit(@, m.server, m.peer)]
      /\ net' = Send(Received(s, l), s, Servers(s), <<m>>)
      /\ UNCHANGED <<con, phase, served, used>>
RecvServerQuit(s, l) ==
  LET m == Head(net[Peer(s, l)][l])
  IN  /\ Read(s, l, "SERVER_QUIT") /\ con[s][l].class = "server"
      /\ links' = [links EXCEPT ![s] = Quit(@, m.server, m.peer)]
      /\ net' = PassOn(Received(s, l), s, l, m)
      /\ UNCHANGED <<con, phase, served, used>>

\* server_connect() from a server; a name that is linked ends the link that the
\* request came by
RecvConnect(s, l) ==
  LET m == Head(net[Peer(s, l)][l])
  IN  /\ Read(s, l, "CONNECT") /\ con[s][l].class = "server"
      /\ IF IsLinked(s, m.host)
         THEN /\ con' = [con EXCEPT ![s][l] = Doom(@, "reading")]
              /\ \E n \in Buffered(s, l) : net' = Kept(Received(s, l), s, l, n)
         ELSE IF m.at = s
         THEN con' = TryConnect(s, m.host, con) /\ net' = Received(s, l)
         ELSE net' = PassOn(Received(s, l), s, l, m) /\ UNCHANGED con
      /\ UNCHANGED <<links, phase, served, used>>

\* server_disconnect() from a server
RecvDisconnect(s, l) ==
  LET m    == Head(net[Peer(s, l)][l])
      rest == Received(s, l)
  IN  /\ Read(s, l, "DISCONNECT") /\ con[s][l].class = "server"
      /\ \E k \in Cut(s, m.host) :
           LET passed == Send(rest, s, Servers(s) \ {k, l}, <<m>>)
           IN  IF k = l
               THEN /\ con' = [con EXCEPT ![s][l] = Delisted(@, "reading")]
                    /\ \E n \in Buffered(s, l) : net' = Kept(passed, s, l, n)
               ELSE con' = Delist(s, k) /\ net' = Deaf(passed, s, k)
      /\ UNCHANGED <<links, phase, served, used>>

\* handle_connection() reads the end of the peer's stream
RecvEof(s, l) ==
  /\ Read(s, l, "EOF")
  /\ con' = Mark(s, l) /\ net' = Unread(net, s, l)
  /\ UNCHANGED <<links, phase, served, used>>

(* Failures and the write phase *)

\* the connect() or a read or write fails, or the login takes too long
Fails(s, l) ==
  /\ phase[s] = "read" /\ con[s][l].class # "free" /\ con[s][l].destroy = "no"
  /\ faults < MaxFaults /\ faults' = faults + 1
  /\ con' = Mark(s, l) /\ net' = Unread(net, s, l)
  /\ UNCHANGED <<links, phase, served, connects, cuts>>

EndRead(s) ==
  /\ phase[s] = "read" /\ Doomed(s)
  /\ phase' = [phase EXCEPT ![s] = "reap"]
  /\ UNCHANGED <<con, net, links, served, used>>

\* the connection of s on l is closed: the peer will read the rest and the end
SilentClose(q, s, l) == Unread(q, s, l)
Close(q, s, l) ==
  [Send(Unread(q, s, l), s, {l}, <<Eof>>) EXCEPT ![s][l] =
     IF con[Peer(s, l)][l].class = "free" THEN <<>> ELSE @]

\* remove_connection()
QuietRemoval(s, l) == FALSE
TellsQuit(s, l) == con[s][l].class = "server"
RemoveConnection(s, l) ==
  LET p    == Peer(s, l)
      more == \E k \in LinksOf(s) \ {l} : con[s][k].destroy # "no"
  IN  /\ phase[s] = "reap" /\ con[s][l].destroy # "no"
      /\ con' = [con EXCEPT ![s][l] = Free]
      /\ net' = Close(IF TellsQuit(s, l) THEN PassOn(net, s, l, ServerQuit(s, p)) ELSE net, s, l)
      /\ links' = IF con[s][l].class = "server"
                  THEN [links EXCEPT ![s] = Unlink(@, p)] ELSE links
      /\ phase' = [phase EXCEPT ![s] = IF more THEN "reap" ELSE "read"]
      /\ served' = IF more THEN served ELSE [served EXCEPT ![s] = {}]
      /\ UNCHANGED used

\* s crashes, or is shut down by kill_server(), and starts again: of what it had
\* queued a part may have been sent
Crash(s) ==
  /\ faults < MaxFaults /\ faults' = faults + 1
  /\ con' = [con EXCEPT ![s] = [l \in Link |-> Free]]
  /\ links' = [links EXCEPT ![s] = <<>>]
  /\ phase' = [phase EXCEPT ![s] = "read"]
  /\ served' = [served EXCEPT ![s] = {}]
  /\ \E sent \in BOOLEAN :
       net' = [t \in Server |-> [l \in Link |->
         IF l \notin LinksOf(s) \/ con[s][l].class = "free" THEN net[t][l]
         ELSE IF t # s \/ con[Peer(s, l)][l].class = "free" THEN <<>>
         ELSE IF ~Hears(Peer(s, l), l) THEN net[s][l]
         ELSE IF sent THEN Append(net[s][l], Eof) ELSE <<Eof>>]]
  /\ UNCHANGED <<connects, cuts>>

-----------------------------------------------------------------------------
Admin(s) == \/ \E at, host \in Server : Connect(s, at, host)
            \/ \E host \in Server : Disconnect(s, host)

Receive(s, l) ==
  \/ RecvLogin(s, l) \/ RecvAck(s, l)
  \/ RecvLinkInfo(s, l) \/ RecvServerQuit(s, l)
  \/ RecvConnect(s, l) \/ RecvDisconnect(s, l) \/ RecvEof(s, l)

Reap(s) == EndRead(s) \/ \E l \in LinksOf(s) : RemoveConnection(s, l)

Next == \/ \E s \in Admins : Admin(s)
        \/ \E s \in Server : Reap(s) \/ Crash(s)
        \/ \E s \in Server : \E l \in LinksOf(s) :
             Connected(s, l) \/ Receive(s, l) \/ Fails(s, l)

Spec == Init /\ [][Next]_vars

\* The main loop never stops: it reads what has arrived, completes what has
\* connected and removes what is marked.  Nothing is owed by administrators.
Serve(s) == \E l \in LinksOf(s) : Connected(s, l) \/ Receive(s, l)
Fairness == \A s \in Server : WF_vars(Reap(s)) /\ WF_vars(Serve(s))

FairSpec == Spec /\ Fairness

-----------------------------------------------------------------------------
(* Properties *)

\* Every variable has its type.
TypeOK ==
  /\ con \in [Server -> [Link -> Connection]]
  /\ net \in [Server -> [Link -> Seq(Message)]]
  /\ links \in [Server -> Seq(LinkRec)]
  /\ phase \in [Server -> {"read", "reap"}]
  /\ served \in [Server -> SUBSET Link]
  /\ {connects, cuts, faults} \subseteq Nat

Up(s, l) == con[s][l] = Con("server")

\* the links both ends use
Live == {l \in Link : Up(l[1], l) /\ Up(l[2], l)}

\* the servers that the links of L connect with s
Connects(L, s) ==
  {t \in Server : \A S \in SUBSET Server :
     (s \in S /\ \A l \in L : l[1] \in S <=> l[2] \in S) => t \in S}

\* is_linked() does what it is for: no link joins two servers that are linked
\* another way, so that nothing passed on can circle.
NoLoop == \A l \in Live : l[2] \notin Connects(Live \ {l}, l[1])

\* nothing is in flight, marked or not yet connected
Quiet == /\ \A s \in Server, l \in Link : /\ net[s][l] = <<>>
                                          /\ con[s][l].class # "connecting"
                                          /\ con[s][l].destroy = "no"
         /\ \A s \in Server : phase[s] = "read"

\* A handshake does not stick half way, whatever fails and whoever refuses: when
\* the network is quiet both ends of a link are servers or neither exists.
NoHalfLink ==
  Quiet => \A l \in Link : \/ Up(l[1], l) /\ Up(l[2], l)
                           \/ con[l[1]][l] = Free /\ con[l[2]][l] = Free

\* the number of links from s to t
Far(s) ==
  LET near[k \in 0 .. Cardinality(Server)] ==
        IF k = 0 THEN {s}
        ELSE near[k - 1] \cup {t \in Server : \E u \in near[k - 1] : {<<t, u>>, <<u, t>>} \cap Live # {}}
  IN  [t \in Server |-> CHOOSE k \in DOMAIN near :
         t \in near[k] /\ (k > 0 => t \notin near[k - 1])]

\* When the network is quiet the tables of each server are the network: it lists
\* every link of its part of the network that is not its own, once, from the
\* nearer end and with its distance, and no link that is gone.
TablesMatch ==
  Quiet => \A s \in Server :
    LET far  == {l \in Link : l \in Live \/ <<l[2], l[1]>> \in Live}
        mine == Connects(Live, s)
        dist == Far(s)
        all  == {[server |-> l[1], peer |-> l[2], hops |-> dist[l[1]]] :
                   l \in {k \in far : k[1] \in mine \ {s} /\ dist[k[1]] < dist[k[2]]}}
    IN  /\ {links[s][i] : i \in DOMAIN links[s]} = all
        /\ Len(links[s]) = Cardinality(all)

\* A request to connect that is relayed from server to server never costs a link
\* in use: link_collision() is meant for the connection that would close a loop.
RequestsHarmless ==
  [][\A s \in Server, l \in Link : Up(s, l) /\ RecvConnect(s, l) => Up(s, l)']_vars

\* list.c 27: list_delete() is given a list that is not empty.  remove_connection()
\* hands it Servers.
ServersNotEmpty ==
  [][\A s \in Server : \A l \in LinksOf(s) :
       RemoveConnection(s, l) /\ con[s][l].class = "server" => Servers(s) # {}]_vars

\* Every request comes to an end: the handshake succeeds, is refused or fails, the
\* news of it reaches everyone, and nothing is passed on for ever.
EventuallySettled == <>[]Quiet
=============================================================================
