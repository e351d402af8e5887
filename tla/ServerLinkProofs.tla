-------------------------- MODULE ServerLinkProofs --------------------------
(***************************************************************************)
(* What ServerLink promises of one handshake, for every network, every set *)
(* of servers files and all requests, failures and crashes.                *)
(***************************************************************************)
EXTENDS ServerLink, FunctionTheorems, FiniteSetTheorems, SequenceTheorems, TLAPS

Cons == [Server -> [Link -> Connection]]
Nets == [Server -> [Link -> Seq(Message)]]

-----------------------------------------------------------------------------
(* Subsequences *)

\* The places of a sequence can be counted.
LEMMA PlacesFinite ==
  ASSUME NEW T, NEW q \in Seq(T), NEW K \in SUBSET DOMAIN q
  PROVE  IsFiniteSet(K) /\ Cardinality(K) \in Nat /\ K \subseteq Nat
<1>1. DOMAIN q = 1 .. Len(q) /\ Len(q) \in Nat
  OBVIOUS
<1>2. IsFiniteSet(1 .. Len(q))
  BY <1>1, FS_Interval
<1>3. IsFiniteSet(K)
  BY <1>1, <1>2, FS_Subset
<1>4. QED
  BY <1>1, <1>3, FS_CardinalityType

\* Each number up to that of a set of places is the rank of one of them.
LEMMA Ranks ==
  ASSUME NEW T, NEW q \in Seq(T), NEW K \in SUBSET DOMAIN q,
         NEW n \in 1 .. Cardinality(K)
  PROVE  \E k \in K : Cardinality({j \in K : j <= k}) = n
<1> DEFINE Upto(k) == {j \in K : j <= k}
           rank == [k \in K |-> Cardinality(Upto(k))]
<1>1. IsFiniteSet(K) /\ Cardinality(K) \in Nat /\ K \subseteq Nat
  BY PlacesFinite
<1>2. ASSUME NEW k \in K 
      PROVE  /\ IsFiniteSet(Upto(k)) /\ Cardinality(Upto(k)) \in Nat
             /\ Cardinality(Upto(k)) \in 1 .. Cardinality(K)
  <2>1. /\ IsFiniteSet(Upto(k)) /\ Cardinality(Upto(k)) <= Cardinality(K)
        /\ Cardinality(Upto(k)) \in Nat
    <3>1. Upto(k) \in SUBSET K
      OBVIOUS
    <3>2. QED
      BY <1>1, <3>1, FS_Subset, FS_CardinalityType
  <2>2. k \in Upto(k)
    BY <1>1
  <2>3. Cardinality(Upto(k)) # 0
    BY <2>1, <2>2, FS_EmptySet
  <2>4. QED
    BY <1>1, <2>1, <2>3
<1>3. ASSUME NEW k \in K, NEW l \in K, k < l PROVE rank[k] < rank[l]
  <2>1. Upto(k) \in SUBSET Upto(l)
    BY <1>1, <1>3
  <2>2. l \in Upto(l) /\ l \notin Upto(k)
    BY <1>1, <1>3
  <2>3. /\ Cardinality(Upto(k)) <= Cardinality(Upto(l))
        /\ Cardinality(Upto(k)) # Cardinality(Upto(l))
    <3>1. IsFiniteSet(Upto(l))
      BY <1>2
    <3>2. QED
      BY <2>1, <2>2, <3>1, FS_Subset
  <2>4. Cardinality(Upto(k)) \in Nat /\ Cardinality(Upto(l)) \in Nat
    BY <1>2
  <2>5. Cardinality(Upto(k)) < Cardinality(Upto(l))
    BY <2>3, <2>4
  <2>6. QED
    BY <2>5
<1>4. rank \in [K -> 1 .. Cardinality(K)]
  BY <1>2
<1>5. \A k, l \in K : rank[k] = rank[l] => k = l
  <2>1. SUFFICES ASSUME NEW k \in K, NEW l \in K, k # l PROVE rank[k] # rank[l]
    OBVIOUS
  <2>2. rank[k] \in Int /\ rank[l] \in Int
    BY <1>4
  <2>3. k < l \/ l < k
    BY <1>1, <2>1
  <2>4. rank[k] < rank[l] \/ rank[l] < rank[k]
    BY <1>3, <2>3
  <2>5. QED
    BY <2>2, <2>4
<1>6. rank \in Injection(K, 1 .. Cardinality(K))
  BY <1>4, <1>5, Fun_IsInj
<1>7. /\ IsFiniteSet(1 .. Cardinality(K))
      /\ Cardinality(1 .. Cardinality(K)) = Cardinality(K)
  <2>1. ASSUME NEW m \in Nat PROVE IsFiniteSet(1 .. m) /\ Cardinality(1 .. m) = m
    BY FS_Interval
  <2>2. QED
    BY <1>1, <2>1
<1>8. rank \in Surjection(K, 1 .. Cardinality(K))
  BY <1>6, <1>7, FS_Injection
<1>9. \E k \in K : rank[k] = n
  <2> HIDE DEF rank
  <2>1. \A m \in 1 .. Cardinality(K) : \E k \in K : rank[k] = m
    BY <1>8, Fun_SurjectionProperties
  <2>2. QED
    BY <2>1
<1>10. QED
  BY <1>9

\* A subsequence is a sequence of elements at the places that were chosen.
LEMMA Sifted ==
  ASSUME NEW T, NEW q \in Seq(T), NEW K \in SUBSET DOMAIN q
  PROVE  /\ Sift(q, K) \in Seq(T)
         /\ \A n \in DOMAIN Sift(q, K) : \E k \in K : Sift(q, K)[n] = q[k]
<1>1. CASE K = DOMAIN q
  BY <1>1 DEF Sift
<1>2. CASE K # DOMAIN q
  <2> DEFINE At1(n) == CHOOSE k \in K : Cardinality({j \in K : j <= k}) = n
  <2>1. Sift(q, K) = [n \in 1 .. Cardinality(K) |-> q[At1(n)]]
    BY <1>2 DEF Sift
  <2>2. Cardinality(K) \in Nat
    BY PlacesFinite
  <2>3. ASSUME NEW n \in 1 .. Cardinality(K) PROVE At1(n) \in K
    <3>1. \E k \in K : Cardinality({j \in K : j <= k}) = n
      BY Ranks
    <3>2. QED
      BY <3>1
  <2>4. ASSUME NEW n \in 1 .. Cardinality(K) PROVE q[At1(n)] \in T
    <3>1. At1(n) \in DOMAIN q
      BY <2>3
    <3> HIDE DEF At1
    <3>2. QED
      BY <3>1, ElementOfSeq
  <2> HIDE DEF At1
  <2>5. [n \in 1 .. Cardinality(K) |-> q[At1(n)]] \in Seq(T)
    BY <2>2, <2>4, IsASeq
  <2>6. DOMAIN Sift(q, K) = 1 .. Cardinality(K)
    BY <2>1
  <2>7. \A n \in DOMAIN Sift(q, K) : Sift(q, K)[n] = q[At1(n)]
    BY <2>1, <2>6
  <2>8. QED
    BY <2>1, <2>3, <2>5, <2>6, <2>7
<1>3. QED
  BY <1>1, <1>2

-----------------------------------------------------------------------------
(* Types *)

\* A link has two ends, and each is the other's peer.
LEMMA Ends ==
  ASSUME NEW l \in Link
  PROVE  /\ l[1] \in Server /\ l[2] \in Server /\ l[1] # l[2]
         /\ Peer(l[1], l) = l[2] /\ Peer(l[2], l) = l[1]
BY DEF Link, Peer

LEMMA PeerIs ==
  ASSUME NEW s \in Server, NEW l \in Link
  PROVE  Peer(s, l) \in Server
BY Ends DEF Peer

LEMMA LinkIs ==
  ASSUME NEW s \in Server, NEW l \in LinksOf(s)
  PROVE  /\ l \in Link /\ s \in Server /\ Peer(s, l) \in Server /\ Peer(s, l) # s
         /\ \/ s = l[1] /\ Peer(s, l) = l[2]
            \/ s = l[2] /\ Peer(s, l) = l[1]
<1>1. l \in Link /\ s \in {l[1], l[2]}
  BY DEF LinksOf
<1>2. QED
  BY <1>1, Ends

LEMMA ConTyped ==
  ASSUME NEW class \in {"free", "connecting", "fresh", "login", "server"}
  PROVE  /\ Con(class) \in Connection /\ Con(class).class = class
         /\ Con(class).destroy = "no" /\ (Con(class).listed <=> class = "server")
BY DEF Con, Connection

\* What send_cmd() queues on each link.
LEMMA SendIs ==
  ASSUME NEW q, NEW s \in Server, NEW L, NEW msgs, NEW t \in Server, NEW k \in Link,
         q \in Nets
  PROVE  Send(q, s, L, msgs)[t][k] =
           IF t = s /\ k \in L /\ Hears(Peer(s, k), k) THEN q[t][k] \o msgs ELSE q[t][k]
BY DEF Send, Nets

LEMMA SendTyped ==
  ASSUME NEW q \in Nets, NEW s \in Server, NEW L, NEW msgs \in Seq(Message)
  PROVE  Send(q, s, L, msgs) \in Nets
<1>1. ASSUME NEW k \in Link PROVE q[s][k] \in Seq(Message) /\ q[s][k] \o msgs \in Seq(Message)
  BY DEF Nets
<1>2. QED
  BY <1>1 DEF Send, Nets

LEMMA PassOnTyped ==
  ASSUME NEW q \in Nets, NEW s \in Server, NEW l, NEW m \in Message
  PROVE  PassOn(q, s, l, m) \in Nets
<1>1. <<m>> \in Seq(Message)
  OBVIOUS
<1>2. QED
  BY <1>1, SendTyped DEF PassOn

LEMMA ReceivedTyped ==
  ASSUME net \in Nets, NEW s \in Server, NEW l \in Link, net[Peer(s, l)][l] # <<>>
  PROVE  /\ Received(s, l) \in Nets /\ Head(net[Peer(s, l)][l]) \in Message
         /\ Tail(net[Peer(s, l)][l]) \in Seq(Message)
<1>1. Peer(s, l) \in Server /\ net[Peer(s, l)][l] \in Seq(Message)
  BY PeerIs DEF Nets
<1>2. Tail(net[Peer(s, l)][l]) \in Seq(Message) /\ Head(net[Peer(s, l)][l]) \in Message
  BY <1>1, HeadTailProperties
<1>3. QED
  BY <1>1, <1>2 DEF Received, Nets

LEMMA UnreadTyped ==
  ASSUME NEW q \in Nets, NEW s \in Server, NEW l \in Link
  PROVE  Unread(q, s, l) \in Nets
BY PeerIs DEF Unread, Nets

LEMMA KeptTyped ==
  ASSUME NEW q \in Nets, NEW s \in Server, NEW l \in Link,
         NEW n \in 0 .. Len(q[Peer(s, l)][l])
  PROVE  Kept(q, s, l, n) \in Nets
<1>1. Peer(s, l) \in Server /\ q[Peer(s, l)][l] \in Seq(Message)
  BY PeerIs DEF Nets
<1>2. SubSeq(q[Peer(s, l)][l], 1, n) \in Seq(Message)
  BY <1>1, SubSeqProperties
<1>3. QED
  BY <1>1, <1>2 DEF Kept, Nets

\* What remove_links() and server_quit() leave is a list of records.
LEMMA UnlinkTyped ==
  ASSUME NEW q \in Seq(LinkRec), NEW host
  PROVE  Unlink(q, host) \in Seq(LinkRec)
<1> DEFINE K == {i \in DOMAIN q : q[i].server \notin Beyond(q, host)}
<1>1. K \in SUBSET DOMAIN q
  OBVIOUS
<1>2. Unlink(q, host) = Sift(q, K)
  BY DEF Unlink
<1> HIDE DEF K
<1>3. QED
  BY <1>1, <1>2, Sifted

LEMMA QuitTyped ==
  ASSUME NEW q \in Seq(LinkRec), NEW x, NEW y
  PROVE  Quit(q, x, y) \in Seq(LinkRec)
<1> DEFINE hits == {i \in DOMAIN q : q[i].server = x /\ q[i].peer = y}
           first(k) == \A j \in hits : k <= j
           i == CHOOSE k \in hits : first(k)
           rest == SubSeq(q, 1, i - 1) \o SubSeq(q, i + 1, Len(q))
<1>1. CASE hits = {}
  BY <1>1 DEF Quit
<1>2. CASE hits # {}
  <2>1. hits \subseteq Nat /\ hits \subseteq 1 .. Len(q) /\ Len(q) \in Nat
    OBVIOUS
  <2>2. \E k \in hits : first(k)
    <3> HIDE DEF hits
    <3>1. PICK k \in hits : \A j \in hits : <<j, k>> \notin OpToRel(<, Nat)
      BY <1>2, <2>1, WFMin, NatLessThanWellFounded
    <3>2. \A j \in hits : ~ (j < k)
      BY <2>1, <3>1 DEF OpToRel
    <3> k \in Nat /\ \A j \in hits : j \in Nat
      BY <2>1
    <3>4. \A j \in hits : k <= j
      BY <3>2
    <3>3. QED
      BY <3>4
  <2>3. i \in hits
    BY <2>2
  <2>4. Quit(q, x, y) = Unlink(rest, y)
    BY <1>2 DEF Quit
  <2> HIDE DEF i
  <2>5. i \in 1 .. Len(q)
    BY <2>1, <2>3
  <2>6. SubSeq(q, 1, i - 1) \in Seq(LinkRec) /\ SubSeq(q, i + 1, Len(q)) \in Seq(LinkRec)
    BY <2>1, <2>5, SubSeqProperties
  <2>7. rest \in Seq(LinkRec)
    BY <2>6
  <2> HIDE DEF rest
  <2>8. QED
    BY <2>4, <2>7, UnlinkTyped
<1>3. QED
  BY <1>1, <1>2

\* sync_server_list()
LEMMA FartherTyped ==
  ASSUME NEW m \in Message, m.type = "LINK_INFO"
  PROVE  Farther(m) \in Message /\ m.rec \in LinkRec /\ Farther(m).type = "LINK_INFO"
<1>1. m \in [type : {"LINK_INFO"}, rec : LinkRec]
  BY DEF Message
<1>2. m.rec \in LinkRec /\ m.rec.hops + 1 \in Nat
  BY <1>1 DEF LinkRec
<1>3. Farther(m) = [type |-> "LINK_INFO",
                    rec |-> [server |-> m.rec.server, peer |-> m.rec.peer, hops |-> m.rec.hops + 1]]
  BY <1>1, <1>2 DEF Farther, LinkRec
<1>4. QED
  BY <1>2, <1>3 DEF Message, LinkRec

LEMMA InfoTyped ==
  ASSUME NEW x \in Server, NEW y \in Server, NEW h \in Nat
  PROVE  LinkInfo(x, y, h) \in Message
BY DEF LinkInfo, Message, LinkRec

LEMMA SyncTyped ==
  ASSUME NEW s \in Server, links \in [Server -> Seq(LinkRec)], NEW l
  PROVE  SyncLinks(s, l) \in Seq(Message)
<1> DEFINE r(i) == [type |-> "LINK_INFO", rec |-> links[s][i]]
<1>1. links[s] \in Seq(LinkRec) /\ Len(links[s]) \in Nat /\ DOMAIN links[s] = 1 .. Len(links[s])
  OBVIOUS
<1>2. ASSUME NEW i \in 1 .. Len(links[s]) PROVE Farther(r(i)) \in Message
  <2>1. links[s][i] \in LinkRec
    BY <1>1, ElementOfSeq
  <2>2. r(i) \in Message /\ r(i).type = "LINK_INFO"
    BY <2>1 DEF Message
  <2> HIDE DEF r
  <2>3. QED
    BY <2>2, FartherTyped
<1>3. SyncLinks(s, l) = [i \in 1 .. Len(links[s]) |-> Farther(r(i))]
  BY <1>1 DEF SyncLinks
<1> HIDE DEF r
<1>4. QED
  BY <1>1, <1>2, <1>3, IsASeq

LEMMA NearTyped ==
  ASSUME NEW s \in Server, NEW q \in Orders(Servers(s))
  PROVE  [i \in DOMAIN q |-> LinkInfo(s, Peer(s, q[i]), 1)] \in Seq(Message)
<1>1. Cardinality(Servers(s)) \in Nat
  <2>1. IsFiniteSet(Server \X Server)
    BY FiniteNet, FS_Product
  <2>2. Servers(s) \in SUBSET (Server \X Server)
    BY DEF Servers, Link, LinksOf
  <2>3. QED
    BY <2>1, <2>2, FS_Subset, FS_CardinalityType
<1>2. q \in [1 .. Cardinality(Servers(s)) -> Servers(s)]
  BY DEF Orders
<1>3. ASSUME NEW i \in 1 .. Cardinality(Servers(s))
      PROVE  LinkInfo(s, Peer(s, q[i]), 1) \in Message
  <2>1. q[i] \in Link
    BY <1>2 DEF Servers, LinksOf
  <2>2. QED
    BY <2>1, PeerIs, InfoTyped
<1>4. QED
  BY <1>1, <1>2, <1>3, IsASeq

\* The steps keep the types.
LEMMA TypeInit == Init => TypeOK
BY DEF Init, TypeOK, Connection, Free, Con

LEMMA TryTyped ==
  ASSUME NEW s \in Server, NEW host \in Server, NEW cs \in Cons
  PROVE  TryConnect(s, host, cs) \in Cons
BY ConTyped DEF TryConnect, Cons

LEMMA DoomTyped ==
  ASSUME NEW c \in Connection, NEW how \in {"reading", "marked"}
  PROVE  /\ Doom(c, how) \in Connection /\ Delisted(c, how) \in Connection
         /\ Doom(c, how).class = c.class /\ Delisted(c, how).class = c.class
         /\ Doom(c, how).destroy = how /\ Delisted(c, how).destroy = how
         /\ Doom(c, how).listed = c.listed /\ ~Delisted(c, how).listed
BY DEF Doom, Delisted, Connection

LEMMA DelistIs ==
  ASSUME con \in Cons, NEW s \in Server, NEW k \in Link, k # None
  PROVE  \E how \in {"reading", "marked"} :
           /\ con[s][k].destroy = "no" => how = "marked"
           /\ con[s][k].destroy # "no" => how = con[s][k].destroy
           /\ Delist(s, k) = [con EXCEPT ![s][k] = Delisted(con[s][k], how)]
<1> DEFINE how == IF con[s][k].destroy = "no" THEN "marked" ELSE con[s][k].destroy
<1>1. how \in {"reading", "marked"}
  BY DEF Cons, Connection
<1>2. Delist(s, k) = [con EXCEPT ![s][k] = Delisted(con[s][k], how)]
  BY DEF Delist
<1> HIDE DEF how
<1>3. con[s][k].destroy = "no" => how = "marked"
  BY DEF how
<1>4. con[s][k].destroy # "no" => how = con[s][k].destroy
  BY DEF how
<1>5. QED
  BY <1>1, <1>2, <1>3, <1>4

LEMMA DelistTyped ==
  ASSUME con \in Cons, NEW s \in Server, NEW k, k # None => k \in Link
  PROVE  Delist(s, k) \in Cons
<1>1. CASE k = None
  BY <1>1 DEF Delist
<1>2. CASE k # None
  <2>1. con[s][k] \in Connection
    BY <1>2 DEF Cons
  <2>2. PICK how \in {"reading", "marked"} :
               Delist(s, k) = [con EXCEPT ![s][k] = Delisted(con[s][k], how)]
    BY <1>2, DelistIs
  <2>3. Delisted(con[s][k], how) \in Connection
    BY <2>1, DoomTyped
  <2>4. QED
    BY <1>2, <2>2, <2>3 DEF Cons
<1>3. QED
  BY <1>1, <1>2

LEMMA DeafTyped ==
  ASSUME NEW q \in Nets, NEW s \in Server, NEW k, k # None => k \in Link
  PROVE  Deaf(q, s, k) \in Nets
BY UnreadTyped DEF Deaf

LEMMA CutIs ==
  ASSUME NEW s, NEW host, NEW k \in Cut(s, host)
  PROVE  k # None => k \in LinksOf(s) /\ k \in Link /\ k \in Servers(s)
BY DEF Cut, Servers, LinksOf

-----------------------------------------------------------------------------
(* The two ends of a link *)

Alive(c) == c.class # "free" /\ c.destroy = "no"

\* What a CONNECTION keeps to: what is listed is a server, and a server is listed
\* until something marks it.
EndOK(c) == /\ c.listed => c.class = "server"
            /\ c.class = "server" /\ c.destroy = "no" => c.listed
            /\ c.destroy = "reading" => c.class = "server"
            /\ c.class = "free" => c = Free

\* End c has sent out to its peer d, and in is what d has sent and c has not read.
\* Before the peer accepts nothing is there; a peer left behind has the end of the
\* stream before it.
Half(c, d, out, in) ==
  /\ c.class = "connecting" => d.class = "free" /\ out = <<>> /\ in = <<>>
  /\ c.class = "free" /\ d.class = "free" => out = <<>>
  /\ c.class = "free" /\ Alive(d) =>
       d.class = "connecting" \/ (out # <<>> /\ out[Len(out)] = Eof)

\* Where a handshake stands between two ends that are alive: the LOGIN of one, the
\* LOGIN and ACK of the other, and then an ACK on its way to each that is not yet a
\* server.
Accepting(c, in) ==
  c.class = "server" \/ (c.class = "login" /\ in # <<>> /\ Head(in) = Ack)
Handshake(c, d, out, in) ==
  \/ c.class = "login" /\ d.class = "fresh" /\ out = <<Login>> /\ in = <<>>
  \/ c.class = "login" /\ d.class = "login" /\ out = <<>> /\ in = <<Login, Ack>>
  \/ Accepting(c, in) /\ Accepting(d, out)

LinkOK(c, d, out, in) ==
  /\ EndOK(c) /\ EndOK(d)
  /\ Half(c, d, out, in) /\ Half(d, c, in, out)
  /\ Alive(c) /\ Alive(d) => Handshake(c, d, out, in) \/ Handshake(d, c, in, out)

Sound(cs, q, l) == LinkOK(cs[l[1]][l], cs[l[2]][l], q[l[1]][l], q[l[2]][l])
LinkInv == TypeOK /\ \A l \in Link : Sound(con, net, l)

\* The protocol is the same seen from either end.
LEMMA SeenFrom ==
  ASSUME NEW cs, NEW q, NEW s \in Server, NEW l \in LinksOf(s)
  PROVE  Sound(cs, q, l) <=>
           LinkOK(cs[s][l], cs[Peer(s, l)][l], q[s][l], q[Peer(s, l)][l])
<1>1. ASSUME NEW c, NEW d, NEW o, NEW i
      PROVE  LinkOK(c, d, o, i) <=> LinkOK(d, c, i, o)
  BY DEF LinkOK
<1>2. QED
  BY <1>1, LinkIs DEF Sound

\* Commands are queued only on links that are listed, at the end.
LEMMA Growing ==
  ASSUME NEW c \in Connection, NEW d \in Connection,
         NEW o \in Seq(Message), NEW i \in Seq(Message), LinkOK(c, d, o, i),
         NEW x \in Seq(Message), c.listed
  PROVE  LinkOK(c, d, o \o x, i)
<1>1. c.class = "server"
  BY DEF LinkOK, EndOK
<1>2. o # <<>> => o \o x # <<>> /\ Head(o \o x) = Head(o)
  OBVIOUS
<1>3. Accepting(d, o) => Accepting(d, o \o x)
  BY <1>2 DEF Accepting
<1>4. QED
  BY <1>1, <1>3 DEF LinkOK, Half, Handshake

\* An end that is marked owes nothing until it is removed.
LEMMA Marking ==
  ASSUME NEW c \in Connection, NEW d \in Connection, NEW o, NEW i, LinkOK(c, d, o, i),
         NEW e \in Connection, NEW o2, NEW i2,
         c.class # "free", e.class = c.class, e.destroy # "no",
         e.listed => c.listed, e.destroy = "reading" => c.class = "server",
         c.class = "connecting" => o2 = <<>> /\ i2 = <<>>
  PROVE  LinkOK(e, d, o2, i2)
BY DEF LinkOK, EndOK, Half, Alive

\* A server reads any command but the end of the stream.
LEMMA LeavesEof ==
  ASSUME NEW i \in Seq(Message), i # <<>>, Head(i).type # "EOF", i[Len(i)] = Eof
  PROVE  Tail(i) # <<>> /\ Tail(i)[Len(Tail(i))] = Eof
<1>1. Len(i) \in Nat /\ Len(i) > 0 /\ Head(i) = i[1]
  OBVIOUS
<1>2. Eof.type = "EOF"
  BY DEF Eof
<1>3. Len(i) # 1
  BY <1>1, <1>2
<1>4. Tail(i) \in Seq(Message) /\ Len(Tail(i)) = Len(i) - 1
      /\ \A j \in 1 .. Len(i) - 1 : Tail(i)[j] = i[j + 1]
  BY <1>1, HeadTailProperties
<1> DEFINE r == Tail(i)
           n == Len(i)
<1>5. Len(r) = n - 1 /\ n - 1 \in 1 .. n - 1 /\ r[n - 1] = i[n - 1 + 1] /\ i[n] = Eof
  BY <1>1, <1>3, <1>4
<1>6. n - 1 + 1 = n /\ n - 1 # 0
  BY <1>1, <1>3
<1> HIDE DEF r, n
<1>7. Len(r) # 0 /\ r[Len(r)] = Eof
  BY <1>5, <1>6
<1>8. r # <<>>
  <2>1. Len(<<>>) = 0
    OBVIOUS
  <2>2. QED
    BY <1>7, <2>1
<1>9. QED
  BY <1>7, <1>8 DEF r

LEMMA Reading ==
  ASSUME NEW c \in Connection, NEW d \in Connection,
         NEW o \in Seq(Message), NEW i \in Seq(Message), LinkOK(c, d, o, i),
         c.class = "server", i # <<>>, Head(i).type # "EOF"
  PROVE  LinkOK(c, d, o, Tail(i))
<1>1. Alive(c) /\ d.class = "free" => Tail(i) # <<>> /\ Tail(i)[Len(Tail(i))] = Eof
  BY LeavesEof DEF LinkOK, Half
<1>2. d.class # "connecting" /\ ~(c.class = "free")
  BY DEF LinkOK, Half
<1>3. Alive(c) /\ Alive(d) => Accepting(c, Tail(i)) /\ Accepting(d, o)
  BY DEF LinkOK, Handshake, Accepting
<1>4. QED
  BY <1>1, <1>2, <1>3 DEF LinkOK, Half, Handshake

\* server_login_ack(): what is behind the ACK may follow.
LEMMA Acknowledging ==
  ASSUME NEW c \in Connection, NEW d \in Connection,
         NEW o \in Seq(Message), NEW i \in Seq(Message), LinkOK(c, d, o, i),
         c.class = "login", Alive(c), i # <<>>, Head(i).type = "ACK",
         NEW x \in Seq(Message), NEW o2 \in {o, o \o x}
  PROVE  LinkOK(Con("server"), d, o2, Tail(i))
<1> DEFINE e == Con("server")
<1>1. e.class = "server" /\ e.listed /\ e.destroy = "no"
  BY DEF Con
<1>2. d.class = "free" => Tail(i) # <<>> /\ Tail(i)[Len(Tail(i))] = Eof
  BY LeavesEof DEF LinkOK, Half
<1>3. d.class # "connecting"
  BY DEF LinkOK, Half
<1>4. Alive(d) => Accepting(d, o2)
  <2>1. Alive(d) => Accepting(d, o)
    BY DEF LinkOK, Handshake, Accepting, Login, Ack
  <2>2. o # <<>> => o2 # <<>> /\ Head(o2) = Head(o)
    OBVIOUS
  <2>3. QED
    BY <2>1, <2>2 DEF Accepting
<1>5. EndOK(e)
  BY <1>1 DEF EndOK
<1> HIDE DEF e
<1>6. QED
  BY <1>1, <1>2, <1>3, <1>4, <1>5 DEF LinkOK, Half, Handshake, Accepting, e

\* server_login(): the answer to a LOGIN is an ACK, with a LOGIN before it at the end
\* that was called.
LEMMA LoggingIn ==
  ASSUME NEW c \in Connection, NEW d \in Connection,
         NEW o \in Seq(Message), NEW i \in Seq(Message), LinkOK(c, d, o, i),
         c.class \in {"fresh", "login"}, Alive(c), i # <<>>, Head(i).type = "LOGIN",
         NEW o2 \in Seq(Message),
         o2 = IF Alive(d) THEN o \o (IF c.class = "fresh" THEN <<Login, Ack>> ELSE <<Ack>>)
              ELSE o
  PROVE  LinkOK(Con("login"), d, o2, Tail(i))
<1> DEFINE e == Con("login")
<1>1. e.class = "login" /\ ~e.listed /\ e.destroy = "no"
  BY DEF Con
<1>2. d.class = "free" => Tail(i) # <<>> /\ Tail(i)[Len(Tail(i))] = Eof
  BY LeavesEof DEF LinkOK, Half
<1>3. d.class # "connecting"
  BY DEF LinkOK, Half
<1>4. ASSUME Alive(d)
      PROVE  Handshake(e, d, o2, Tail(i)) \/ Handshake(d, e, Tail(i), o2)
  <2>1. CASE c.class = "login" /\ d.class = "login" /\ o = <<>> /\ i = <<Login, Ack>>
    <3>1. o2 = <<Ack>> /\ Tail(i) = <<Ack>>
      BY <1>4, <2>1
    <3>2. QED
      BY <1>1, <2>1, <3>1 DEF Handshake, Accepting
  <2>2. CASE d.class = "login" /\ c.class = "fresh" /\ i = <<Login>> /\ o = <<>>
    <3>1. o2 = <<Login, Ack>> /\ Tail(i) = <<>>
      BY <1>4, <2>2
    <3>2. QED
      BY <1>1, <2>2, <3>1 DEF Handshake
  <2>3. ~Accepting(c, i)
    BY DEF Accepting, Ack
  <2>4. c.class = "login" /\ d.class = "fresh" /\ i = <<>> => FALSE
    OBVIOUS
  <2>5. QED
    BY <1>4, <2>1, <2>2, <2>3 DEF LinkOK, Handshake
<1>5. EndOK(e)
  BY <1>1 DEF EndOK
<1> HIDE DEF e
<1>6. QED
  BY <1>1, <1>2, <1>3, <1>4, <1>5 DEF LinkOK, Half, e

\* remove_connection() and a crash: a peer that is alive will read the end.
LEMMA Removing ==
  ASSUME NEW c \in Connection, NEW d \in Connection,
         NEW o \in Seq(Message), NEW i \in Seq(Message), LinkOK(c, d, o, i),
         c.class # "free", NEW o2,
         d.class = "free" => o2 = <<>>,
         Alive(d) => o2 # <<>> /\ o2[Len(o2)] = Eof
  PROVE  LinkOK(Free, d, o2, <<>>)
<1> DEFINE e == Free
<1>1. e.class = "free" /\ ~e.listed /\ e.destroy = "no"
  BY DEF Free, Con
<1>2. d.class # "connecting"
  BY DEF LinkOK, Half
<1>3. EndOK(e)
  BY <1>1 DEF EndOK
<1> HIDE DEF e
<1>4. QED
  BY <1>1, <1>2, <1>3 DEF LinkOK, Half, Alive, e

-----------------------------------------------------------------------------
(* The steps *)

\* What the operators on streams leave on each link.
LEMMA ReceivedIs ==
  ASSUME net \in Nets, NEW s \in Server, NEW l \in Link, NEW x \in Server, NEW k \in Link
  PROVE  Received(s, l)[x][k] = IF x = Peer(s, l) /\ k = l THEN Tail(net[x][k]) ELSE net[x][k]
BY PeerIs DEF Received, Nets

LEMMA UnreadIs ==
  ASSUME NEW q \in Nets, NEW s \in Server, NEW l \in Link, NEW x \in Server, NEW k \in Link
  PROVE  Unread(q, s, l)[x][k] = IF x = Peer(s, l) /\ k = l THEN <<>> ELSE q[x][k]
BY PeerIs DEF Unread, Nets

LEMMA KeptIs ==
  ASSUME NEW q \in Nets, NEW s \in Server, NEW l \in Link, NEW n \in Int,
         NEW x \in Server, NEW k \in Link, ~(x = Peer(s, l) /\ k = l)
  PROVE  Kept(q, s, l, n)[x][k] = q[x][k]
BY PeerIs DEF Kept, Nets

LEMMA Typed ==
  ASSUME LinkInv
  PROVE  /\ con \in Cons /\ net \in Nets /\ links \in [Server -> Seq(LinkRec)]
         /\ \A s \in Server, l \in Link : con[s][l] \in Connection /\ net[s][l] \in Seq(Message)
BY DEF LinkInv, TypeOK, Cons, Nets

\* A link of which nothing changes.
LEMMA SameKeeps ==
  ASSUME LinkInv, NEW k \in Link,
         \A x \in {k[1], k[2]} : con'[x][k] = con[x][k] /\ net'[x][k] = net[x][k]
  PROVE  Sound(con', net', k)
BY DEF LinkInv, Sound

\* A link on which s at most queues commands.
LEMMA SentKeeps ==
  ASSUME LinkInv, NEW s \in Server, NEW L \in SUBSET Servers(s),
         NEW msgs \in Seq(Message), NEW k \in Link,
         \A x \in {k[1], k[2]} : /\ con'[x][k] = con[x][k]
                                 /\ net'[x][k] = Send(net, s, L, msgs)[x][k]
  PROVE  Sound(con', net', k)
<1>1. \A x \in Server : Send(net, s, L, msgs)[x][k] =
         IF x = s /\ k \in L /\ Hears(Peer(s, k), k) THEN net[x][k] \o msgs ELSE net[x][k]
  BY Typed, SendIs
<1>2. CASE k \in L /\ Hears(Peer(s, k), k)
  <2>1. k \in LinksOf(s) /\ con[s][k].listed
    BY <1>2 DEF Servers
  <2> DEFINE p == Peer(s, k)
  <2>2. p \in Server /\ p # s /\ {k[1], k[2]} = {s, p}
    BY <2>1, LinkIs
  <2> HIDE DEF p
  <2>3. /\ con'[s][k] = con[s][k] /\ con'[p][k] = con[p][k]
        /\ net'[s][k] = net[s][k] \o msgs /\ net'[p][k] = net[p][k]
    BY <1>1, <1>2, <2>2
  <2>4. LinkOK(con[s][k], con[p][k], net[s][k], net[p][k])
    BY <2>1, SeenFrom DEF LinkInv, p
  <2>5. LinkOK(con[s][k], con[p][k], net[s][k] \o msgs, net[p][k])
    BY <2>1, <2>2, <2>4, Typed, Growing
  <2>6. LinkOK(con'[s][k], con'[p][k], net'[s][k], net'[p][k])
    BY <2>3, <2>5
  <2>7. QED
    BY <2>1, <2>6, SeenFrom DEF p
<1>3. CASE ~(k \in L /\ Hears(Peer(s, k), k))
  <2>1. \A x \in {k[1], k[2]} : net'[x][k] = net[x][k]
    BY <1>1, <1>3, Ends
  <2>2. QED
    BY <2>1, SameKeeps
<1>4. QED
  BY <1>2, <1>3

\* The link on which a step of s happens, seen from s.
LEMMA HereKeeps ==
  ASSUME NEW s \in Server, NEW l \in LinksOf(s),
         LinkOK(con'[s][l], con'[Peer(s, l)][l], net'[s][l], net'[Peer(s, l)][l])
  PROVE  Sound(con', net', l)
BY SeenFrom

LEMMA Here ==
  ASSUME LinkInv, NEW s \in Server, NEW l \in LinksOf(s)
  PROVE  LinkOK(con[s][l], con[Peer(s, l)][l], net[s][l], net[Peer(s, l)][l])
BY SeenFrom, LinkIs DEF LinkInv

\* What is left of the invariant when the links are in order.
LEMMA InvFrom ==
  ASSUME LinkInv, con' \in Cons, net' \in Nets, links' \in [Server -> Seq(LinkRec)],
         phase' \in [Server -> {"read", "reap"}], served' \in [Server -> SUBSET Link],
         {connects', cuts', faults'} \subseteq Nat,
         \A k \in Link : Sound(con', net', k)
  PROVE  LinkInv'
<1>1. TypeOK'
  BY DEF TypeOK, Cons, Nets
<1>2. QED
  BY <1>1 DEF LinkInv, Sound

\* Handlers that leave the tables of links and the phase alone.
LEMMA InvSimple ==
  ASSUME LinkInv, con' \in Cons, net' \in Nets, UNCHANGED <<links, phase, served, used>>,
         \A k \in Link : Sound(con', net', k)
  PROVE  LinkInv'
BY InvFrom DEF LinkInv, TypeOK, used

\* RecvEof(), a refused LOGIN or ACK, and a failure mark the link they are about.
LEMMA MarkKeeps ==
  ASSUME LinkInv, NEW s \in Server, NEW l \in LinksOf(s), con[s][l].class # "free",
         con' = Mark(s, l), net' = Unread(net, s, l)
  PROVE  /\ con' \in Cons /\ net' \in Nets
         /\ \A k \in Link : Sound(con', net', k)
<1> DEFINE p == Peer(s, l)
           e == Doom(con[s][l], "marked")
<1>1. /\ l \in Link /\ s \in Server /\ p \in Server /\ p # s /\ {l[1], l[2]} = {s, p}
  BY LinkIs
<1>2. con[s][l] \in Connection /\ con \in Cons /\ net \in Nets
  BY <1>1, Typed
<1>3. e \in Connection /\ e.class = con[s][l].class /\ e.destroy = "marked"
      /\ e.listed = con[s][l].listed
  BY <1>2, DoomTyped
<1>4. con' = [con EXCEPT ![s][l] = e]
  BY DEF Mark
<1> HIDE DEF e
<1>5. con' \in Cons
  BY <1>1, <1>2, <1>3, <1>4 DEF Cons
<1>6. net' \in Nets
  BY <1>1, <1>2, UnreadTyped
<1>7. ASSUME NEW x \in Server, NEW k \in Link
      PROVE  /\ con'[x][k] = IF x = s /\ k = l THEN e ELSE con[x][k]
             /\ net'[x][k] = IF x = p /\ k = l THEN <<>> ELSE net[x][k]
  BY <1>1, <1>2, <1>4, UnreadIs DEF Cons
<1>8. ASSUME NEW k \in Link PROVE Sound(con', net', k)
  <2>1. CASE k = l
    <3>1. LinkOK(con[s][l], con[p][l], net[s][l], net[p][l])
      BY Here
    <3>2. con[p][l] \in Connection
      BY <1>1, Typed
    <3>3. con[s][l].class = "connecting" => net[s][l] = <<>>
      BY <3>1 DEF LinkOK, Half
    <3>4. LinkOK(e, con[p][l], net[s][l], <<>>)
      BY <1>2, <1>3, <3>1, <3>2, <3>3, Marking
    <3>5. LinkOK(con'[s][l], con'[p][l], net'[s][l], net'[p][l])
      BY <1>1, <1>7, <3>4
    <3>6. QED
      BY <2>1, <3>5, HereKeeps DEF p
  <2>2. CASE k # l
    BY <1>7, <2>2, SameKeeps, Ends
  <2>3. QED
    BY <2>1, <2>2
<1>9. QED
  BY <1>5, <1>6, <1>8

\* A handler that concerns link l of s and at most queues commands on others.
LEMMA Others ==
  ASSUME LinkInv, NEW s \in Server, NEW l \in LinksOf(s), NEW L \in SUBSET Servers(s),
         NEW msgs \in Seq(Message),
         \A x \in Server, k \in Link : k # l =>
           /\ con'[x][k] = con[x][k]
           /\ net'[x][k] = Send(net, s, L, msgs)[x][k],
         LinkOK(con'[s][l], con'[Peer(s, l)][l], net'[s][l], net'[Peer(s, l)][l])
  PROVE  \A k \in Link : Sound(con', net', k)
<1>1. s \in Server
  BY LinkIs
<1>2. ASSUME NEW k \in Link PROVE Sound(con', net', k)
  <2>1. CASE k = l
    BY <2>1, HereKeeps
  <2>2. CASE k # l
    <3>1. \A x \in {k[1], k[2]} : /\ con'[x][k] = con[x][k]
                                  /\ net'[x][k] = Send(net, s, L, msgs)[x][k]
      BY <2>2, Ends
    <3>2. QED
      BY <1>1, <3>1, SentKeeps
  <2>3. QED
    BY <2>1, <2>2
<1>3. QED
  BY <1>2

LEMMA ServersAre ==
  ASSUME NEW s \in Server
  PROVE  Servers(s) \in SUBSET Link
BY DEF Servers, LinksOf

\* A command has been read from l, and msgs queued on the links of L.
Passed(r, s, l, L, msgs) ==
  /\ r \in Nets /\ r[Peer(s, l)][l] = Tail(net[Peer(s, l)][l])
  /\ r[s][l] = IF l \in L /\ Hears(Peer(s, l), l) THEN net[s][l] \o msgs ELSE net[s][l]
  /\ \A x \in Server, k \in Link : k # l => r[x][k] = Send(net, s, L, msgs)[x][k]

LEMMA PassedIs ==
  ASSUME net \in Nets, NEW s \in Server, NEW l \in LinksOf(s), net[Peer(s, l)][l] # <<>>,
         NEW L \in SUBSET Link, NEW msgs \in Seq(Message)
  PROVE  Passed(Send(Received(s, l), s, L, msgs), s, l, L, msgs)
<1>1. l \in Link /\ s \in Server /\ Peer(s, l) \in Server /\ Peer(s, l) # s
  BY LinkIs
<1>2. Received(s, l) \in Nets
  BY <1>1, ReceivedTyped
<1>3. Send(Received(s, l), s, L, msgs) \in Nets
  BY <1>1, <1>2, SendTyped
<1>4. ASSUME NEW x \in Server, NEW k \in Link
      PROVE  Send(Received(s, l), s, L, msgs)[x][k] =
               IF x = s /\ k \in L /\ Hears(Peer(s, k), k) THEN Received(s, l)[x][k] \o msgs
               ELSE Received(s, l)[x][k]
  BY <1>1, <1>2, SendIs
<1>5. ASSUME NEW x \in Server, NEW k \in Link
      PROVE  Received(s, l)[x][k] = IF x = Peer(s, l) /\ k = l THEN Tail(net[x][k]) ELSE net[x][k]
  BY <1>1, ReceivedIs
<1>6. ASSUME NEW x \in Server, NEW k \in Link
      PROVE  Send(net, s, L, msgs)[x][k] =
               IF x = s /\ k \in L /\ Hears(Peer(s, k), k) THEN net[x][k] \o msgs ELSE net[x][k]
  BY <1>1, SendIs
<1>7. QED
  BY <1>1, <1>3, <1>4, <1>5, <1>6 DEF Passed

\* A command read by a server from l, and passed on.
LEMMA PassKeeps ==
  ASSUME LinkInv, NEW s \in Server, NEW l \in LinksOf(s), con[s][l].class = "server",
         net[Peer(s, l)][l] # <<>>, Head(net[Peer(s, l)][l]).type # "EOF",
         NEW L \in SUBSET Servers(s), NEW msgs \in Seq(Message), l \notin L,
         con' = con, net' = Send(Received(s, l), s, L, msgs)
  PROVE  net' \in Nets /\ \A k \in Link : Sound(con', net', k)
<1>1. l \in Link /\ s \in Server /\ Peer(s, l) \in Server /\ Peer(s, l) # s
  BY LinkIs
<1> DEFINE p == Peer(s, l)
<1>2. /\ net' \in Nets /\ net'[p][l] = Tail(net[p][l]) /\ net'[s][l] = net[s][l]
      /\ \A x \in Server, k \in Link : k # l => net'[x][k] = Send(net, s, L, msgs)[x][k]
  <2>1. L \in SUBSET Link
    BY ServersAre
  <2>2. Passed(net', s, l, L, msgs)
    BY <2>1, Typed, PassedIs
  <2>3. QED
    BY <2>2 DEF Passed
<1>3. /\ con[s][l] \in Connection /\ con[p][l] \in Connection
      /\ net[s][l] \in Seq(Message) /\ net[p][l] \in Seq(Message)
  BY <1>1, Typed
<1>4. LinkOK(con[s][l], con[p][l], net[s][l], net[p][l])
  BY Here
<1>5. LinkOK(con[s][l], con[p][l], net[s][l], Tail(net[p][l]))
  <2> HIDE DEF p
  <2>1. net[p][l] # <<>> /\ Head(net[p][l]).type # "EOF"
    BY DEF p
  <2>2. QED
    BY <1>3, <1>4, <2>1, Reading
<1>6. LinkOK(con'[s][l], con'[p][l], net'[s][l], net'[p][l])
  BY <1>2, <1>5
<1>7. \A x \in Server, k \in Link : k # l =>
        con'[x][k] = con[x][k] /\ net'[x][k] = Send(net, s, L, msgs)[x][k]
  BY <1>2
<1>8. \A k \in Link : Sound(con', net', k)
  BY <1>1, <1>6, <1>7, Others
<1>9. QED
  BY <1>2, <1>8

LEMMA InitInv == Init => LinkInv
<1> SUFFICES ASSUME Init PROVE LinkInv
  OBVIOUS
<1>1. TypeOK
  BY TypeInit
<1>2. ASSUME NEW l \in Link PROVE Sound(con, net, l)
  <2>1. /\ con[l[1]][l] = Free /\ con[l[2]][l] = Free
        /\ net[l[1]][l] = <<>> /\ net[l[2]][l] = <<>>
    BY Ends DEF Init
  <2>2. LinkOK(Free, Free, <<>>, <<>>)
    BY DEF LinkOK, EndOK, Half, Alive, Free, Con
  <2>3. QED
    BY <2>1, <2>2 DEF Sound
<1>3. QED
  BY <1>1, <1>2 DEF LinkInv

\* try_connect() opens a link when both its ends are free, and touches no other.
LEMMA TryIs ==
  ASSUME con \in Cons, NEW s \in Server, NEW host \in Server
  PROVE  \/ TryConnect(s, host, con) = con
         \/ /\ <<s, host>> \in Link
            /\ con[s][<<s, host>>] = Free /\ con[host][<<s, host>>] = Free
            /\ \A x \in Server, k \in Link : TryConnect(s, host, con)[x][k] =
                 IF x = s /\ k = <<s, host>> THEN Con("connecting") ELSE con[x][k]
<1> DEFINE l == <<s, host>>
<1>1. CASE con[s][l] = Free /\ con[host][l] = Free
  <2>1. TryConnect(s, host, con) = [con EXCEPT ![s][l] = Con("connecting")]
    BY <1>1 DEF TryConnect
  <2> HIDE DEF l
  <2>2. CASE l \in Link
    BY <1>1, <2>1, <2>2 DEF Cons, l
  <2>3. CASE l \notin Link
    BY <2>1, <2>3 DEF Cons
  <2>4. QED
    BY <2>2, <2>3
<1>2. CASE ~(con[s][l] = Free /\ con[host][l] = Free)
  BY <1>2 DEF TryConnect
<1>3. QED
  BY <1>1, <1>2

LEMMA TryKeeps ==
  ASSUME LinkInv, NEW s \in Server, NEW host \in Server,
         con' = TryConnect(s, host, con), NEW k \in Link,
         \A x \in {k[1], k[2]} : net'[x][k] = net[x][k]
  PROVE  Sound(con', net', k)
<1>1. CASE \A x \in {k[1], k[2]} : con'[x][k] = con[x][k]
  BY <1>1, SameKeeps
<1>2. CASE ~(\A x \in {k[1], k[2]} : con'[x][k] = con[x][k])
  <2>1. /\ k = <<s, host>> /\ con[s][k] = Free /\ con[host][k] = Free
        /\ con'[s][k] = Con("connecting") /\ (host # s => con'[host][k] = Free)
    <3>1. con' # con /\ k[1] \in Server /\ k[2] \in Server
      BY <1>2, Ends
    <3>2. /\ <<s, host>> \in Link
          /\ con[s][<<s, host>>] = Free /\ con[host][<<s, host>>] = Free
          /\ \A x \in Server, j \in Link :
               con'[x][j] = IF x = s /\ j = <<s, host>> THEN Con("connecting") ELSE con[x][j]
      BY <3>1, Typed, TryIs
    <3>3. k = <<s, host>>
      BY <1>2, <3>1, <3>2
    <3>4. QED
      BY <3>2, <3>3
  <2>2. host # s /\ k \in LinksOf(s) /\ Peer(s, k) = host
    BY <2>1 DEF Link, LinksOf, Peer
  <2>3. LinkOK(con[s][k], con[host][k], net[s][k], net[host][k])
    BY <2>2, Here
  <2>4. net[s][k] = <<>> /\ net[host][k] = <<>>
    BY <2>1, <2>3 DEF LinkOK, Half, Free, Con
  <2>5. LinkOK(Con("connecting"), Free, <<>>, <<>>)
    BY DEF LinkOK, EndOK, Half, Alive, Free, Con
  <2>6. net'[s][k] = <<>> /\ net'[host][k] = <<>>
    BY <2>1, <2>4
  <2>7. LinkOK(con'[s][k], con'[host][k], net'[s][k], net'[host][k])
    BY <2>1, <2>2, <2>5, <2>6
  <2>8. QED
    BY <2>2, <2>7, HereKeeps
<1>3. QED
  BY <1>1, <1>2

\* server_connect() and server_disconnect() from a local user
LEMMA ConnectKeeps ==
  ASSUME LinkInv, NEW s \in Server, NEW at \in Server, NEW host \in Server,
         Connect(s, at, host)
  PROVE  LinkInv'
<1>1. UNCHANGED <<links, phase, served, cuts, faults>> /\ connects' \in Nat /\ at # host
  BY DEF Connect, LinkInv, TypeOK
<1>2. /\ con' \in Cons /\ net' \in Nets
      /\ \A k \in Link : Sound(con', net', k)
  <2>1. CASE at = s
    <3>1. con' = TryConnect(s, host, con) /\ net' = net
      BY <2>1 DEF Connect
    <3>2. \A k \in Link : Sound(con', net', k)
      BY <3>1, TryKeeps
    <3>3. QED
      BY <3>1, <3>2, Typed, TryTyped
  <2>2. CASE at # s
    <3> DEFINE m == [type |-> "CONNECT", at |-> at, host |-> host]
    <3>1. con' = con /\ net' = Send(net, s, Servers(s), <<m>>)
      BY <2>2 DEF Connect
    <3>2. m \in Message
      BY DEF Message
    <3> HIDE DEF m
    <3>3. <<m>> \in Seq(Message)
      BY <3>2
    <3>4. net' \in Nets
      BY <3>1, <3>3, Typed, SendTyped
    <3>5. ASSUME NEW k \in Link PROVE Sound(con', net', k)
      BY <3>1, <3>3, SentKeeps
    <3>6. QED
      BY <3>1, <3>4, <3>5, Typed
  <2>3. QED
    BY <2>1, <2>2
<1>3. QED
  BY <1>1, <1>2, InvFrom DEF LinkInv, TypeOK

\* The connection that server_disconnect() marks: its peer hears the reader close.
LEMMA CutKeeps ==
  ASSUME LinkInv, NEW s \in Server, NEW k \in LinksOf(s), k \in Servers(s), k # None,
         con' = Delist(s, k),
         NEW q \in Nets, net' = Deaf(q, s, k),
         q[s][k] = net[s][k], q[Peer(s, k)][k] = net[Peer(s, k)][k]
  PROVE  /\ con' \in Cons /\ net' \in Nets /\ Sound(con', net', k)
         /\ \A x \in Server, l \in Link : l # k => con'[x][l] = con[x][l] /\ net'[x][l] = q[x][l]
<1> DEFINE p == Peer(s, k)
<1>1. k \in Link /\ s \in Server /\ p \in Server /\ p # s
  BY LinkIs
<1>2. con[s][k] \in Connection /\ con[p][k] \in Connection /\ con \in Cons
  BY <1>1, Typed
<1>3. PICK how \in {"reading", "marked"} :
        /\ con[s][k].destroy # "no" => how = con[s][k].destroy
        /\ Delist(s, k) = [con EXCEPT ![s][k] = Delisted(con[s][k], how)]
  BY <1>1, <1>2, DelistIs
<1> DEFINE e == Delisted(con[s][k], how)
<1>4. e \in Connection /\ e.class = con[s][k].class /\ e.destroy = how /\ ~e.listed
  BY <1>2, DoomTyped
<1>5. con' = [con EXCEPT ![s][k] = e]
  BY <1>3
<1> HIDE DEF e
<1>6. con' \in Cons
  BY <1>1, <1>2, <1>4, <1>5 DEF Cons
<1>7. \A x \in Server, l \in Link : con'[x][l] = IF x = s /\ l = k THEN e ELSE con[x][l]
  BY <1>1, <1>2, <1>5 DEF Cons
<1>8. net' \in Nets
  BY <1>1, DeafTyped
<1>9. ASSUME NEW x \in Server, NEW l \in Link
      PROVE  /\ l # k => net'[x][l] = q[x][l]
             /\ x = s => net'[x][l] = q[x][l]
  BY <1>1, UnreadIs DEF Deaf
<1>10. con[s][k].class = "server" /\ LinkOK(con[s][k], con[p][k], net[s][k], net[p][k])
  BY <1>1, Here DEF Servers, LinkOK, EndOK
<1>11. LinkOK(e, con[p][k], net'[s][k], net'[p][k])
  <2>1. e.class # "connecting" /\ e.class # "free"
    BY <1>4, <1>10
  <2>2. QED
    BY <1>2, <1>4, <1>10, <2>1, Marking
<1>12. LinkOK(con'[s][k], con'[p][k], net'[s][k], net'[p][k])
  BY <1>1, <1>7, <1>11
<1>13. Sound(con', net', k)
  BY <1>12, HereKeeps
<1>14. QED
  BY <1>6, <1>7, <1>8, <1>9, <1>13

LEMMA DisconnectKeeps ==
  ASSUME LinkInv, NEW s \in Server, NEW host \in Server, Disconnect(s, host)
  PROVE  LinkInv'
<1> DEFINE m == [type |-> "DISCONNECT", host |-> host]
<1>1. PICK k \in Cut(s, host) :
        /\ con' = Delist(s, k)
        /\ net' = Deaf(Send(net, s, Servers(s) \ {k}, <<m>>), s, k)
  BY DEF Disconnect
<1>2. UNCHANGED <<links, phase, served, connects, faults>> /\ cuts' \in Nat
  BY DEF Disconnect, LinkInv, TypeOK
<1>3. m \in Message
  BY DEF Message
<1> HIDE DEF m
<1>4. <<m>> \in Seq(Message)
  BY <1>3
<1> DEFINE L == Servers(s) \ {k}
           q == Send(net, s, L, <<m>>)
<1>5. q \in Nets
  BY <1>4, Typed, SendTyped
<1>6. \A x \in Server, l \in Link : l \notin L => q[x][l] = net[x][l]
  BY <1>4, Typed, SendIs
<1>7. /\ con' \in Cons /\ net' \in Nets
      /\ \A l \in Link : Sound(con', net', l)
  <2>1. CASE k = None
    <3>1. con' = con /\ net' = q
      BY <1>1, <2>1 DEF Delist, Deaf
    <3>2. ASSUME NEW l \in Link PROVE Sound(con', net', l)
      <4>1. \A x \in {l[1], l[2]} : con'[x][l] = con[x][l]
                                    /\ net'[x][l] = Send(net, s, L, <<m>>)[x][l]
        BY <3>1
      <4>2. L \in SUBSET Servers(s)
        OBVIOUS
      <4>3. QED
        BY <1>4, <4>1, <4>2, SentKeeps
    <3>3. QED
      BY <1>5, <3>1, <3>2, Typed
  <2>2. CASE k # None
    <3>1. k \in LinksOf(s) /\ k \in Link /\ k \in Servers(s) /\ Peer(s, k) \in Server
      BY <2>2, CutIs, LinkIs
    <3>2. q[s][k] = net[s][k] /\ q[Peer(s, k)][k] = net[Peer(s, k)][k]
      BY <1>6, <3>1
    <3> HIDE DEF L
    <3>3. net' = Deaf(q, s, k)
      BY <1>1 DEF L
    <3> HIDE DEF q
    <3>4. /\ con' \in Cons /\ net' \in Nets /\ Sound(con', net', k)
          /\ \A x \in Server, l \in Link : l # k => con'[x][l] = con[x][l] /\ net'[x][l] = q[x][l]
      BY <1>1, <1>5, <2>2, <3>1, <3>2, <3>3, CutKeeps
    <3>5. ASSUME NEW l \in Link, l # k PROVE Sound(con', net', l)
      <4>1. \A x \in {l[1], l[2]} : con'[x][l] = con[x][l]
                                    /\ net'[x][l] = Send(net, s, L, <<m>>)[x][l]
        BY <3>4, <3>5, Ends DEF q
      <4>2. L \in SUBSET Servers(s)
        BY DEF L
      <4>3. QED
        BY <1>4, <4>1, <4>2, SentKeeps
    <3>6. QED
      BY <3>4, <3>5
  <2>3. QED
    BY <2>1, <2>2
<1>8. QED
  BY <1>2, <1>7, InvFrom DEF LinkInv, TypeOK

\* complete_connect() and accept_connection()
LEMMA ConnectedKeeps ==
  ASSUME LinkInv, NEW s \in Server, NEW l \in LinksOf(s), Connected(s, l)
  PROVE  LinkInv'
<1> DEFINE p == l[2]
<1>1. /\ l \in Link /\ p \in Server /\ p # s /\ Peer(s, l) = p /\ s = l[1]
      /\ {l[1], l[2]} = {s, p}
  BY LinkIs DEF Connected
<1>2. /\ con' = [con EXCEPT ![s][l] = Con("login"), ![p][l] = Con("fresh")]
      /\ net' = [net EXCEPT ![s][l] = <<Login>>]
      /\ con[s][l] = Con("connecting") /\ UNCHANGED <<links, phase, served, used>>
  BY DEF Connected
<1> HIDE DEF p
<1>3. Login \in Message /\ <<Login>> \in Seq(Message)
  BY DEF Login, Message
<1>4. con \in Cons /\ net \in Nets
  BY Typed
<1>5. con' \in Cons /\ net' \in Nets
  BY <1>1, <1>2, <1>3, <1>4, ConTyped DEF Cons, Nets
<1>6. \A x \in Server, k \in Link :
        /\ con'[x][k] = IF x = s /\ k = l THEN Con("login")
                        ELSE IF x = p /\ k = l THEN Con("fresh") ELSE con[x][k]
        /\ net'[x][k] = IF x = s /\ k = l THEN <<Login>> ELSE net[x][k]
  BY <1>1, <1>2, <1>4 DEF Cons, Nets
<1>7. LinkOK(con[s][l], con[p][l], net[s][l], net[p][l])
  BY <1>1, Here
<1>8. net[p][l] = <<>>
  BY <1>2, <1>7, ConTyped DEF LinkOK, Half
<1>9. LinkOK(Con("login"), Con("fresh"), <<Login>>, <<>>)
  BY DEF LinkOK, EndOK, Half, Alive, Handshake, Con
<1>10. LinkOK(con'[s][l], con'[p][l], net'[s][l], net'[p][l])
  BY <1>1, <1>6, <1>8, <1>9
<1>11. ASSUME NEW k \in Link PROVE Sound(con', net', k)
  <2>1. CASE k = l
    BY <1>1, <1>10, <2>1, HereKeeps
  <2>2. CASE k # l
    BY <1>6, <2>2, SameKeeps, Ends
  <2>3. QED
    BY <2>1, <2>2
<1>12. QED
  BY <1>2, <1>5, <1>11, InvSimple

\* server_login()
LEMMA LoginKeeps ==
  ASSUME LinkInv, NEW s \in Server, NEW l \in LinksOf(s), RecvLogin(s, l)
  PROVE  LinkInv'
<1> DEFINE p == Peer(s, l)
           i == net[p][l]
<1>1. /\ l \in Link /\ p \in Server /\ p # s
  BY LinkIs
<1>2. /\ con[s][l].class \notin {"free", "connecting"} /\ con[s][l].destroy # "marked"
      /\ i # <<>> /\ Head(i).type = "LOGIN"
      /\ UNCHANGED <<links, phase, used>>
  BY DEF RecvLogin, Read
<1>3. served' \in [Server -> SUBSET Link]
  <2>1. served \in [Server -> SUBSET Link]
    BY DEF LinkInv, TypeOK
  <2>2. [served EXCEPT ![s] = @ \cup {l}] \in [Server -> SUBSET Link]
    BY <1>1, <2>1
  <2>3. served' = served \/ served' = [served EXCEPT ![s] = @ \cup {l}]
    BY DEF RecvLogin
  <2>4. QED
    BY <2>1, <2>2, <2>3
<1>4. /\ con' \in Cons /\ net' \in Nets
      /\ \A k \in Link : Sound(con', net', k)
  <2>1. CASE MayLogin(s, l)
    <3> DEFINE msgs == IF con[s][l].class = "fresh" THEN <<Login, Ack>> ELSE <<Ack>>
               c == con[s][l]
               d == con[p][l]
               o == net[s][l]
    <3>1. con' = [con EXCEPT ![s][l] = Con("login")] /\ net' = Send(Received(s, l), s, {l}, msgs)
      BY <2>1 DEF RecvLogin
    <3>2. msgs \in Seq(Message)
      <4>1. Login \in Message /\ Ack \in Message
        BY DEF Login, Ack, Message
      <4>2. QED
        BY <4>1
    <3>3. /\ net' \in Nets /\ net'[p][l] = Tail(i)
          /\ net'[s][l] = IF Hears(p, l) THEN o \o msgs ELSE o
          /\ \A x \in Server, k \in Link : k # l => net'[x][k] = Send(net, s, {l}, msgs)[x][k]
      <4> HIDE DEF msgs
      <4>1. {l} \in SUBSET Link
        BY <1>1
      <4>2. Passed(net', s, l, {l}, msgs)
        BY <1>2, <3>1, <3>2, <4>1, Typed, PassedIs
      <4>3. QED
        BY <4>2 DEF Passed
    <3>4. c \in Connection /\ d \in Connection /\ o \in Seq(Message) /\ i \in Seq(Message)
      BY <1>1, Typed
    <3>5. LinkOK(c, d, o, i)
      BY Here
    <3>6. c.class \in {"fresh", "login"} /\ Alive(c)
      <4>1. c.class # "server"
        BY <2>1 DEF MayLogin
      <4>2. c.destroy # "reading"
        BY <3>5, <4>1 DEF LinkOK, EndOK
      <4>3. QED
        BY <1>2, <3>4, <4>1, <4>2 DEF Connection, Alive
    <3>7. LinkOK(Con("login"), d, net'[s][l], Tail(i))
      <4> DEFINE o2 == net'[s][l]
      <4>1. o2 = IF Alive(d) THEN o \o (IF c.class = "fresh" THEN <<Login, Ack>> ELSE <<Ack>>)
                 ELSE o
        BY <3>3 DEF Alive, Hears
      <4>2. o2 \in Seq(Message)
        BY <1>1, <3>3 DEF Nets
      <4> HIDE DEF o2, c, d, o, i, msgs
      <4>3. i # <<>> /\ Head(i).type = "LOGIN"
        BY <1>2 DEF i
      <4>4. LinkOK(Con("login"), d, o2, Tail(i))
        BY <3>4, <3>5, <3>6, <4>1, <4>2, <4>3, LoggingIn
      <4>5. QED
        BY <4>4 DEF o2
    <3>8. con' \in Cons /\ \A x \in Server, k \in Link :
            con'[x][k] = IF x = s /\ k = l THEN Con("login") ELSE con[x][k]
      BY <1>1, <3>1, Typed, ConTyped DEF Cons
    <3>9. LinkOK(con'[s][l], con'[p][l], net'[s][l], net'[p][l])
      BY <1>1, <3>3, <3>7, <3>8
    <3>10. ASSUME NEW k \in Link PROVE Sound(con', net', k)
      <4>1. CASE k = l
        BY <1>1, <3>9, <4>1, HereKeeps
      <4>2. CASE k # l
        <5> HIDE DEF msgs
        <5>1. \A x \in Server : Send(net, s, {l}, msgs)[x][k] = net[x][k]
          BY <3>2, <4>2, Typed, SendIs
        <5>2. \A x \in {k[1], k[2]} : con'[x][k] = con[x][k] /\ net'[x][k] = net[x][k]
          BY <3>3, <3>8, <4>2, <5>1, Ends
        <5>3. QED
          BY <5>2, SameKeeps
      <4>3. QED
        BY <4>1, <4>2
    <3>11. QED
      BY <3>3, <3>8, <3>10
  <2>2. CASE ~MayLogin(s, l)
    <3>1. con' = Mark(s, l) /\ net' = Unread(net, s, l)
      BY <2>2 DEF RecvLogin
    <3>2. QED
      BY <1>2, <3>1, MarkKeeps
  <2>3. QED
    BY <2>1, <2>2
<1>5. QED
  BY <1>2, <1>3, <1>4, InvFrom DEF LinkInv, TypeOK, used

\* server_login_ack()
LEMMA AckKeeps ==
  ASSUME LinkInv, NEW s \in Server, NEW l \in LinksOf(s), RecvAck(s, l)
  PROVE  LinkInv'
<1> DEFINE p == Peer(s, l)
           i == net[p][l]
           c == con[s][l]
           d == con[p][l]
           o == net[s][l]
<1>1. /\ l \in Link /\ p \in Server /\ p # s
  BY LinkIs
<1>2. /\ c.class \notin {"free", "connecting"} /\ c.destroy # "marked"
      /\ i # <<>> /\ Head(i).type = "ACK"
      /\ UNCHANGED <<links, phase, served, used>>
  BY DEF RecvAck, Read
<1>3. c \in Connection /\ d \in Connection /\ o \in Seq(Message) /\ i \in Seq(Message)
  BY <1>1, Typed
<1>4. LinkOK(c, d, o, i)
  BY Here
<1>5. /\ con' \in Cons /\ net' \in Nets
      /\ \A k \in Link : Sound(con', net', k)
  <2>1. CASE c.class = "login" /\ p \in Accepts[s]
    <3> DEFINE near(q) == [n \in DOMAIN q |-> LinkInfo(s, Peer(s, q[n]), 1)]
    <3>1. PICK q \in Orders(Servers(s)) :
            /\ con' = [con EXCEPT ![s][l] = Con("server")]
            /\ net' = Send(PassOn(Received(s, l), s, l, LinkInfo(s, p, 1)),
                           s, {l}, near(q) \o SyncLinks(s, l))
      BY <2>1 DEF RecvAck
    <3> DEFINE all == near(q) \o SyncLinks(s, l)
               new == <<LinkInfo(s, p, 1)>>
               L   == Servers(s) \ {l}
               mid == Send(Received(s, l), s, L, new)
    <3>2. all \in Seq(Message) /\ new \in Seq(Message)
      <4>1. near(q) \in Seq(Message)
        BY NearTyped
      <4>2. SyncLinks(s, l) \in Seq(Message)
        BY Typed, SyncTyped
      <4>3. LinkInfo(s, p, 1) \in Message
        BY <1>1, InfoTyped
      <4> HIDE DEF near
      <4>4. QED
        BY <4>1, <4>2, <4>3
    <3>3. net' = Send(mid, s, {l}, all)
      BY <3>1 DEF PassOn
    <3>4. L \in SUBSET Servers(s) /\ l \notin L /\ L \in SUBSET Link
      BY ServersAre
    <3> HIDE DEF all, new, L
    <3>5. /\ mid \in Nets /\ mid[p][l] = Tail(i) /\ mid[s][l] = o
          /\ \A x \in Server, k \in Link : k # l => mid[x][k] = Send(net, s, L, new)[x][k]
      <4>1. Passed(mid, s, l, L, new)
        BY <1>2, <3>2, <3>4, Typed, PassedIs
      <4> HIDE DEF mid
      <4>2. QED
        BY <3>4, <4>1 DEF Passed
    <3> HIDE DEF mid
    <3>6. \A x \in Server, k \in Link :
            net'[x][k] = IF x = s /\ k \in {l} /\ Hears(Peer(s, k), k) THEN mid[x][k] \o all
                         ELSE mid[x][k]
      BY <3>2, <3>3, <3>5, SendIs
    <3>7. /\ net'[p][l] = Tail(i) /\ net'[s][l] \in {o, o \o all}
          /\ \A x \in Server, k \in Link : k # l => net'[x][k] = Send(net, s, L, new)[x][k]
      BY <1>1, <3>5, <3>6
    <3>8. net' \in Nets
      BY <3>2, <3>3, <3>5, SendTyped
    <3>9. con' \in Cons /\ \A x \in Server, k \in Link :
            con'[x][k] = IF x = s /\ k = l THEN Con("server") ELSE con[x][k]
      BY <1>1, <3>1, Typed, ConTyped DEF Cons
    <3>10. Alive(c)
      <4>1. c.destroy # "reading"
        BY <1>4, <2>1 DEF LinkOK, EndOK
      <4>2. QED
        BY <1>2, <1>3, <4>1 DEF Connection, Alive
    <3>11. LinkOK(Con("server"), d, net'[s][l], Tail(i))
      <4> DEFINE o2 == net'[s][l]
      <4>1. o2 \in {o, o \o all}
        BY <3>7
      <4>2. c.class = "login"
        BY <2>1
      <4> HIDE DEF o2, c, d, o, i
      <4>3. LinkOK(Con("server"), d, o2, Tail(i))
        BY <1>2, <1>3, <1>4, <3>2, <3>10, <4>1, <4>2, Acknowledging
      <4>4. QED
        BY <4>3 DEF o2
    <3>12. LinkOK(con'[s][l], con'[p][l], net'[s][l], net'[p][l])
      BY <1>1, <3>7, <3>9, <3>11
    <3>13. \A x \in Server, k \in Link : k # l =>
             con'[x][k] = con[x][k] /\ net'[x][k] = Send(net, s, L, new)[x][k]
      BY <3>7, <3>9
    <3>14. \A k \in Link : Sound(con', net', k)
      BY <3>2, <3>4, <3>12, <3>13, Others
    <3>15. QED
      BY <3>8, <3>9, <3>14
  <2>2. CASE c.class = "server"
    <3>1. con' = con /\ net' = Received(s, l)
      BY <2>2 DEF RecvAck
    <3>2. net' = Send(Received(s, l), s, {}, <<>>)
      <4>1. Received(s, l) \in Nets
        BY <1>1, <1>2, Typed, ReceivedTyped
      <4>2. Send(Received(s, l), s, {}, <<>>) = Received(s, l)
        BY <4>1 DEF Send, Nets
      <4>3. QED
        BY <3>1, <4>2
    <3>3. net' \in Nets /\ \A k \in Link : Sound(con', net', k)
      <4>1. {} \in SUBSET Servers(s) /\ l \notin {} /\ <<>> \in Seq(Message)
        OBVIOUS
      <4>2. Head(i).type # "EOF"
        BY <1>2
      <4>3. QED
        BY <1>2, <2>2, <3>1, <3>2, <4>1, <4>2, PassKeeps
    <3>4. QED
      BY <3>1, <3>3, Typed
  <2>3. CASE ~(c.class = "login" /\ p \in Accepts[s]) /\ c.class # "server"
    <3>1. con' = Mark(s, l) /\ net' = Unread(net, s, l)
      BY <2>3 DEF RecvAck
    <3>2. QED
      BY <1>2, <3>1, MarkKeeps
  <2>4. QED
    BY <2>1, <2>2, <2>3
<1>6. QED
  BY <1>2, <1>5, InvSimple

\* link_info() and server_quit()
LEMMA LinkInfoKeeps ==
  ASSUME LinkInv, NEW s \in Server, NEW l \in LinksOf(s), RecvLinkInfo(s, l)
  PROVE  LinkInv'
<1> DEFINE p == Peer(s, l)
           m == Head(net[p][l])
           L == Servers(s) \ {l}
<1>1. l \in Link /\ p \in Server
  BY LinkIs
<1>2. /\ con[s][l].class = "server" /\ net[p][l] # <<>> /\ m.type = "LINK_INFO"
      /\ links' = [links EXCEPT ![s] = Append(@, m.rec)]
      /\ con' = con /\ net' = Send(Received(s, l), s, L, <<Farther(m)>>)
      /\ UNCHANGED <<phase, served, used>>
  BY DEF RecvLinkInfo, Read, PassOn
<1>3. m \in Message
  BY <1>1, <1>2, Typed, ReceivedTyped
<1>4. L \in SUBSET Servers(s) /\ l \notin L
  OBVIOUS
<1> HIDE DEF m, L
<1>5. m.rec \in LinkRec /\ <<Farther(m)>> \in Seq(Message)
  BY <1>2, <1>3, FartherTyped
<1>6. net' \in Nets /\ \A k \in Link : Sound(con', net', k)
  <2>1. Head(net[p][l]).type # "EOF"
    BY <1>2 DEF m
  <2>2. QED
    BY <1>2, <1>4, <1>5, <2>1, PassKeeps
<1>7. links' \in [Server -> Seq(LinkRec)]
  BY <1>2, <1>5, Typed
<1>8. QED
  BY <1>2, <1>6, <1>7, Typed, InvFrom DEF LinkInv, TypeOK, used

LEMMA ServerQuitKeeps ==
  ASSUME LinkInv, NEW s \in Server, NEW l \in LinksOf(s), RecvServerQuit(s, l)
  PROVE  LinkInv'
<1> DEFINE p == Peer(s, l)
           m == Head(net[p][l])
           L == Servers(s) \ {l}
<1>1. l \in Link /\ p \in Server
  BY LinkIs
<1>2. /\ con[s][l].class = "server" /\ net[p][l] # <<>> /\ m.type = "SERVER_QUIT"
      /\ links' = [links EXCEPT ![s] = Quit(@, m.server, m.peer)]
      /\ con' = con /\ net' = Send(Received(s, l), s, L, <<m>>)
      /\ UNCHANGED <<phase, served, used>>
  BY DEF RecvServerQuit, Read, PassOn
<1>3. m \in Message
  BY <1>1, <1>2, Typed, ReceivedTyped
<1>4. L \in SUBSET Servers(s) /\ l \notin L
  OBVIOUS
<1> HIDE DEF m, L
<1>5. <<m>> \in Seq(Message)
  BY <1>3
<1>6. net' \in Nets /\ \A k \in Link : Sound(con', net', k)
  <2>1. Head(net[p][l]).type # "EOF"
    BY <1>2 DEF m
  <2>2. QED
    BY <1>2, <1>4, <1>5, <2>1, PassKeeps
<1>7. links' \in [Server -> Seq(LinkRec)]
  <2>1. Quit(links[s], m.server, m.peer) \in Seq(LinkRec)
    BY Typed, QuitTyped
  <2>2. QED
    BY <1>2, <2>1, Typed
<1>8. QED
  BY <1>2, <1>6, <1>7, Typed, InvFrom DEF LinkInv, TypeOK, used

\* A handler that marks the link its command came by.
LEMMA DoomKeeps ==
  ASSUME LinkInv, NEW s \in Server, NEW l \in LinksOf(s), con[s][l].class = "server",
         NEW e \in Connection, e.class = "server", e.destroy # "no",
         e.listed => con[s][l].listed,
         con' = [con EXCEPT ![s][l] = e],
         NEW L \in SUBSET Servers(s), NEW msgs \in Seq(Message),
         \A x \in Server, k \in Link : k # l => net'[x][k] = Send(net, s, L, msgs)[x][k]
  PROVE  con' \in Cons /\ \A k \in Link : Sound(con', net', k)
<1> DEFINE p == Peer(s, l)
<1>1. l \in Link /\ p \in Server /\ p # s
  BY LinkIs
<1>2. con' \in Cons /\ \A x \in Server, k \in Link :
        con'[x][k] = IF x = s /\ k = l THEN e ELSE con[x][k]
  BY <1>1, Typed DEF Cons
<1>3. LinkOK(con[s][l], con[p][l], net[s][l], net[p][l])
  BY Here
<1>4. LinkOK(e, con[p][l], net'[s][l], net'[p][l])
  <2>1. con[s][l] \in Connection /\ con[p][l] \in Connection
    BY <1>1, Typed
  <2>2. QED
    BY <1>3, <2>1, Marking
<1>5. LinkOK(con'[s][l], con'[p][l], net'[s][l], net'[p][l])
  BY <1>1, <1>2, <1>4
<1>6. \A x \in Server, k \in Link : k # l =>
        con'[x][k] = con[x][k] /\ net'[x][k] = Send(net, s, L, msgs)[x][k]
  BY <1>2
<1>7. \A k \in Link : Sound(con', net', k)
  BY <1>5, <1>6, Others
<1>8. QED
  BY <1>2, <1>7

\* What is kept of a link's buffer, when a handler marks it.
LEMMA BufferIs ==
  ASSUME LinkInv, NEW s \in Server, NEW l \in LinksOf(s), net[Peer(s, l)][l] # <<>>,
         NEW q \in Nets, q[Peer(s, l)][l] = Tail(net[Peer(s, l)][l]),
         NEW n \in Buffered(s, l)
  PROVE  /\ Kept(q, s, l, n) \in Nets
         /\ \A x \in Server, k \in Link : k # l => Kept(q, s, l, n)[x][k] = q[x][k]
<1> DEFINE i == net[Peer(s, l)][l]
<1>1. l \in Link /\ Peer(s, l) \in Server
  BY LinkIs
<1>2. i \in Seq(Message) /\ i # <<>>
  BY <1>1, Typed
<1>3. n \in {Len(i) - 1} \/ n \in 0 .. Len(i) - 1
  BY DEF Buffered
<1> HIDE DEF i
<1>4. Len(i) \in Nat /\ Len(i) > 0 /\ Len(Tail(i)) = Len(i) - 1
  BY <1>2
<1>5. n \in 0 .. Len(Tail(i))
  BY <1>3, <1>4
<1>6. n \in 0 .. Len(q[Peer(s, l)][l])
  BY <1>5 DEF i
<1>7. Kept(q, s, l, n) \in Nets
  BY <1>1, <1>6, KeptTyped
<1>8. n \in Int
  BY <1>3, <1>4
<1>9. QED
  BY <1>1, <1>7, <1>8, KeptIs

\* Nothing is queued at all.
LEMMA Quiet1 ==
  ASSUME NEW q \in Nets, NEW s \in Server
  PROVE  Send(q, s, {}, <<>>) = q /\ <<>> \in Seq(Message)
BY DEF Send, Nets

\* server_connect() from a server
LEMMA RecvConnectKeeps ==
  ASSUME LinkInv, NEW s \in Server, NEW l \in LinksOf(s), RecvConnect(s, l)
  PROVE  LinkInv'
<1> DEFINE p == Peer(s, l)
           m == Head(net[p][l])
<1>1. l \in Link /\ p \in Server /\ p # s
  BY LinkIs
<1>2. /\ con[s][l].class = "server" /\ net[p][l] # <<>> /\ m.type = "CONNECT"
      /\ UNCHANGED <<links, phase, served, used>>
  BY DEF RecvConnect, Read
<1>3. m \in Message /\ m.host \in Server
  <2>1. m \in Message
    BY <1>1, <1>2, Typed, ReceivedTyped
  <2> HIDE DEF m
  <2>2. QED
    BY <1>2, <2>1 DEF Message
<1>4. net \in Nets /\ con \in Cons
  BY Typed
<1>5. /\ con' \in Cons /\ net' \in Nets
      /\ \A k \in Link : Sound(con', net', k)
  <2>1. CASE IsLinked(s, m.host)
    <3> DEFINE e == Doom(con[s][l], "reading")
               q == Received(s, l)
    <3>1. PICK n \in Buffered(s, l) : net' = Kept(q, s, l, n)
      BY <2>1 DEF RecvConnect
    <3>2. con' = [con EXCEPT ![s][l] = e]
      BY <2>1 DEF RecvConnect
    <3>3. e \in Connection /\ e.class = "server" /\ e.destroy # "no"
          /\ (e.listed => con[s][l].listed)
      BY <1>1, <1>2, Typed, DoomTyped
    <3>4. /\ q \in Nets /\ q[p][l] = Tail(net[p][l])
          /\ \A x \in Server, k \in Link : k # l => q[x][k] = net[x][k]
      BY <1>1, <1>2, <1>4, ReceivedTyped, ReceivedIs
    <3> HIDE DEF e, q
    <3>5. /\ net' \in Nets
          /\ \A x \in Server, k \in Link : k # l => net'[x][k] = q[x][k]
      BY <1>2, <3>1, <3>4, BufferIs
    <3>6. \A x \in Server, k \in Link : k # l => net'[x][k] = Send(net, s, {}, <<>>)[x][k]
      BY <1>4, <3>4, <3>5, Quiet1
    <3>7. {} \in SUBSET Servers(s) /\ <<>> \in Seq(Message)
      OBVIOUS
    <3>8. con' \in Cons /\ \A k \in Link : Sound(con', net', k)
      BY <1>2, <3>2, <3>3, <3>6, <3>7, DoomKeeps
    <3>9. QED
      BY <3>5, <3>8
  <2>2. CASE ~IsLinked(s, m.host) /\ m.at = s
    <3>1. con' = TryConnect(s, m.host, con) /\ net' = Received(s, l)
      BY <2>2 DEF RecvConnect
    <3> HIDE DEF m
    <3>2. con' \in Cons /\ net' \in Nets
      BY <1>1, <1>2, <1>3, <1>4, <3>1, TryTyped, ReceivedTyped
    <3>3. \A x \in Server, k \in Link :
            net'[x][k] = IF x = p /\ k = l THEN Tail(net[x][k]) ELSE net[x][k]
      BY <1>1, <1>4, <3>1, ReceivedIs
    <3>4. ASSUME NEW k \in Link PROVE Sound(con', net', k)
      <4>1. CASE k # l
        <5>1. \A x \in {k[1], k[2]} : net'[x][k] = net[x][k]
          BY <3>3, <4>1, Ends
        <5>2. QED
          BY <1>3, <3>1, <5>1, TryKeeps
      <4>2. CASE k = l
        <5>1. LinkOK(con[s][l], con[p][l], net[s][l], net[p][l])
          BY Here
        <5>2. /\ con[s][l] \in Connection /\ con[p][l] \in Connection
              /\ net[s][l] \in Seq(Message) /\ net[p][l] \in Seq(Message)
          BY <1>1, Typed
        <5>3. LinkOK(con[s][l], con[p][l], net[s][l], Tail(net[p][l]))
          <6> HIDE DEF p
          <6>1. net[p][l] # <<>> /\ Head(net[p][l]).type # "EOF"
            BY <1>2 DEF m, p
          <6>2. QED
            BY <1>2, <5>1, <5>2, <6>1, Reading
        <5>4. con[s][l] # Free
          BY <1>2 DEF Free, Con
        <5>5. con'[s][l] = con[s][l] /\ con'[p][l] = con[p][l]
          <6> DEFINE j == <<s, m.host>>
          <6>1. \/ con' = con
                \/ /\ con[s][j] = Free
                   /\ \A x \in Server, n \in Link :
                        con'[x][n] = IF x = s /\ n = j THEN Con("connecting") ELSE con[x][n]
            BY <1>3, <1>4, <3>1, TryIs
          <6> HIDE DEF j, p
          <6>2. QED
            BY <1>1, <5>4, <6>1
        <5>6. LinkOK(con'[s][l], con'[p][l], net'[s][l], net'[p][l])
          BY <1>1, <3>3, <5>3, <5>5
        <5>7. QED
          BY <4>2, <5>6, HereKeeps
      <4>3. QED
        BY <4>1, <4>2
    <3>5. QED
      BY <3>2, <3>4
  <2>3. CASE ~IsLinked(s, m.host) /\ m.at # s
    <3> DEFINE L == Servers(s) \ {l}
    <3>1. con' = con /\ net' = Send(Received(s, l), s, L, <<m>>)
      BY <2>3 DEF RecvConnect, PassOn
    <3>2. L \in SUBSET Servers(s) /\ l \notin L
      OBVIOUS
    <3> HIDE DEF m, L
    <3>3. <<m>> \in Seq(Message)
      BY <1>3
    <3>4. Head(net[p][l]).type # "EOF"
      BY <1>2 DEF m
    <3>5. net' \in Nets /\ \A k \in Link : Sound(con', net', k)
      BY <1>2, <3>1, <3>2, <3>3, <3>4, PassKeeps
    <3>6. QED
      BY <1>4, <3>1, <3>5
  <2>4. QED
    BY <2>1, <2>2, <2>3
<1>6. QED
  BY <1>2, <1>5, InvSimple

\* server_disconnect() from a server
LEMMA RecvDisconnectKeeps ==
  ASSUME LinkInv, NEW s \in Server, NEW l \in LinksOf(s), RecvDisconnect(s, l)
  PROVE  LinkInv'
<1> DEFINE p == Peer(s, l)
           m == Head(net[p][l])
           rest == Received(s, l)
<1>1. l \in Link /\ p \in Server /\ p # s
  BY LinkIs
<1>2. /\ con[s][l].class = "server" /\ net[p][l] # <<>> /\ m.type = "DISCONNECT"
      /\ UNCHANGED <<links, phase, served, used>>
  BY DEF RecvDisconnect, Read
<1>3. m \in Message
  BY <1>1, <1>2, Typed, ReceivedTyped
<1>4. net \in Nets /\ con \in Cons
  BY Typed
<1>5. PICK k \in Cut(s, m.host) :
        IF k = l
        THEN /\ con' = [con EXCEPT ![s][l] = Delisted(con[s][l], "reading")]
             /\ \E n \in Buffered(s, l) :
                  net' = Kept(Send(rest, s, Servers(s) \ {k, l}, <<m>>), s, l, n)
        ELSE /\ con' = Delist(s, k)
             /\ net' = Deaf(Send(rest, s, Servers(s) \ {k, l}, <<m>>), s, k)
  BY DEF RecvDisconnect
<1> DEFINE L == Servers(s) \ {k, l}
           q == Send(rest, s, L, <<m>>)
<1>6. L \in SUBSET Servers(s) /\ l \notin L /\ k \notin L /\ L \in SUBSET Link
  BY ServersAre
<1>7. <<m>> \in Seq(Message)
  <2> HIDE DEF m
  <2>1. QED
    BY <1>3
<1>8. Head(net[p][l]).type # "EOF"
  BY <1>2
<1>9. CASE k = l
  <2>1. PICK n \in Buffered(s, l) : net' = Kept(q, s, l, n)
    BY <1>5, <1>9
  <2> DEFINE e == Delisted(con[s][l], "reading")
  <2>2. con' = [con EXCEPT ![s][l] = e]
    BY <1>5, <1>9
  <2>3. e \in Connection /\ e.class = "server" /\ e.destroy # "no" /\ ~e.listed
    BY <1>1, <1>2, Typed, DoomTyped
  <2> HIDE DEF m, L, e
  <2>4. /\ q \in Nets /\ q[p][l] = Tail(net[p][l])
        /\ \A x \in Server, j \in Link : j # l => q[x][j] = Send(net, s, L, <<m>>)[x][j]
    <3>1. Passed(q, s, l, L, <<m>>)
      BY <1>2, <1>4, <1>6, <1>7, PassedIs
    <3> HIDE DEF q
    <3>2. QED
      BY <1>6, <3>1 DEF Passed
  <2> HIDE DEF q
  <2>5. /\ net' \in Nets
        /\ \A x \in Server, j \in Link : j # l => net'[x][j] = q[x][j]
    BY <1>2, <2>1, <2>4, BufferIs
  <2>6. \A x \in Server, j \in Link : j # l => net'[x][j] = Send(net, s, L, <<m>>)[x][j]
    BY <2>4, <2>5
  <2>7. con' \in Cons /\ \A j \in Link : Sound(con', net', j)
    BY <1>2, <1>6, <1>7, <2>2, <2>3, <2>6, DoomKeeps
  <2>8. QED
    BY <1>2, <2>5, <2>7, InvSimple
<1>10. CASE k = None /\ k # l
  <2>1. con' = con /\ net' = q
    BY <1>5, <1>10 DEF Delist, Deaf
  <2> HIDE DEF m, L
  <2>2. net' \in Nets /\ \A j \in Link : Sound(con', net', j)
    BY <1>2, <1>6, <1>7, <1>8, <2>1, PassKeeps
  <2>3. QED
    BY <1>2, <1>4, <2>1, <2>2, InvSimple
<1>11. CASE k # None /\ k # l
  <2>1. con' = Delist(s, k) /\ net' = Deaf(q, s, k)
    BY <1>5, <1>11
  <2>2. k \in LinksOf(s) /\ k \in Link /\ k \in Servers(s) /\ Peer(s, k) \in Server
    BY <1>11, CutIs, LinkIs
  <2> HIDE DEF m, L
  <2>3. /\ q \in Nets /\ q[p][l] = Tail(net[p][l]) /\ q[s][l] = net[s][l]
        /\ \A x \in Server, j \in Link : j # l => q[x][j] = Send(net, s, L, <<m>>)[x][j]
    <3>1. Passed(q, s, l, L, <<m>>)
      BY <1>2, <1>4, <1>6, <1>7, PassedIs
    <3> HIDE DEF q
    <3>2. QED
      BY <1>6, <3>1 DEF Passed
  <2>4. q[s][k] = net[s][k] /\ q[Peer(s, k)][k] = net[Peer(s, k)][k]
    <3>1. \A x \in Server : Send(net, s, L, <<m>>)[x][k] = net[x][k]
      BY <1>4, <1>6, <1>7, <2>2, SendIs
    <3>2. QED
      BY <1>11, <2>2, <2>3, <3>1
  <2> HIDE DEF q
  <2>5. /\ con' \in Cons /\ net' \in Nets /\ Sound(con', net', k)
        /\ \A x \in Server, j \in Link : j # k => con'[x][j] = con[x][j] /\ net'[x][j] = q[x][j]
    BY <1>11, <2>1, <2>2, <2>3, <2>4, CutKeeps
  <2>6. ASSUME NEW j \in Link PROVE Sound(con', net', j)
    <3>1. CASE j = l
      <4>1. LinkOK(con[s][l], con[p][l], net[s][l], net[p][l])
        BY Here
      <4>2. /\ con[s][l] \in Connection /\ con[p][l] \in Connection
            /\ net[s][l] \in Seq(Message) /\ net[p][l] \in Seq(Message)
        BY <1>1, Typed
      <4>3. LinkOK(con[s][l], con[p][l], net[s][l], Tail(net[p][l]))
        <5> HIDE DEF p
        <5>1. QED
          BY <1>2, <1>8, <4>1, <4>2, Reading
      <4>4. LinkOK(con'[s][l], con'[p][l], net'[s][l], net'[p][l])
        BY <1>1, <1>11, <2>3, <2>5, <4>3
      <4>5. QED
        BY <3>1, <4>4, HereKeeps
    <3>2. CASE j = k
      BY <2>5, <3>2
    <3>3. CASE j # l /\ j # k
      <4>1. \A x \in {j[1], j[2]} : con'[x][j] = con[x][j]
                                    /\ net'[x][j] = Send(net, s, L, <<m>>)[x][j]
        BY <2>3, <2>5, <3>3, Ends
      <4>2. QED
        BY <1>6, <1>7, <4>1, SentKeeps
    <3>4. QED
      BY <3>1, <3>2, <3>3
  <2>7. QED
    BY <1>2, <2>5, <2>6, InvSimple
<1>12. QED
  BY <1>9, <1>10, <1>11

\* The end of a peer's stream, and failures
LEMMA EofKeeps ==
  ASSUME LinkInv, NEW s \in Server, NEW l \in LinksOf(s), RecvEof(s, l)
  PROVE  LinkInv'
<1>1. /\ con[s][l].class # "free" /\ con' = Mark(s, l) /\ net' = Unread(net, s, l)
      /\ UNCHANGED <<links, phase, served, used>>
  BY DEF RecvEof, Read
<1>2. QED
  BY <1>1, MarkKeeps, InvSimple

LEMMA FailsKeeps ==
  ASSUME LinkInv, NEW s \in Server, NEW l \in LinksOf(s), Fails(s, l)
  PROVE  LinkInv'
<1>1. /\ con[s][l].class # "free" /\ con' = Mark(s, l) /\ net' = Unread(net, s, l)
      /\ UNCHANGED <<links, phase, served, connects, cuts>> /\ faults' = faults + 1
  BY DEF Fails
<1>2. con' \in Cons /\ net' \in Nets /\ \A k \in Link : Sound(con', net', k)
  BY <1>1, MarkKeeps
<1>3. QED
  BY <1>1, <1>2, InvFrom DEF LinkInv, TypeOK

LEMMA EndReadKeeps ==
  ASSUME LinkInv, NEW s \in Server, EndRead(s)
  PROVE  LinkInv'
<1>1. /\ phase' = [phase EXCEPT ![s] = "reap"]
      /\ UNCHANGED <<con, net, links, served, used>>
  BY DEF EndRead
<1>2. phase' \in [Server -> {"read", "reap"}]
  BY <1>1 DEF LinkInv, TypeOK
<1>3. \A k \in Link : Sound(con', net', k)
  BY <1>1, SameKeeps
<1>4. QED
  BY <1>1, <1>2, <1>3, Typed, InvFrom DEF LinkInv, TypeOK, used

\* remove_connection()
LEMMA CloseIs ==
  ASSUME con \in Cons, NEW q \in Nets, NEW s \in Server, NEW l \in LinksOf(s)
  PROVE  /\ Close(q, s, l) \in Nets /\ Close(q, s, l)[Peer(s, l)][l] = <<>>
         /\ con[Peer(s, l)][l].class = "free" => Close(q, s, l)[s][l] = <<>>
         /\ Alive(con[Peer(s, l)][l]) =>
              /\ Close(q, s, l)[s][l] # <<>>
              /\ Close(q, s, l)[s][l][Len(Close(q, s, l)[s][l])] = Eof
         /\ \A x \in Server, k \in Link : k # l => Close(q, s, l)[x][k] = q[x][k]
<1> DEFINE p == Peer(s, l)
           r == Send(Unread(q, s, l), s, {l}, <<Eof>>)
           o == q[s][l]
<1>1. l \in Link /\ p \in Server /\ p # s
  BY LinkIs
<1>2. Eof \in Message /\ <<Eof>> \in Seq(Message)
  BY DEF Eof, Message
<1>3. Unread(q, s, l) \in Nets
  BY <1>1, UnreadTyped
<1>4. r \in Nets
  BY <1>2, <1>3, SendTyped
<1>5. \A x \in Server, k \in Link : Unread(q, s, l)[x][k] = IF x = p /\ k = l THEN <<>> ELSE q[x][k]
  BY <1>1, UnreadIs
<1>6. \A x \in Server, k \in Link :
        r[x][k] = IF x = s /\ k \in {l} /\ Hears(Peer(s, k), k) THEN Unread(q, s, l)[x][k] \o <<Eof>>
                  ELSE Unread(q, s, l)[x][k]
  BY <1>2, <1>3, SendIs
<1>7. Close(q, s, l) = [r EXCEPT ![s][l] = IF con[p][l].class = "free" THEN <<>> ELSE r[s][l]]
  BY DEF Close
<1>8. r[p][l] = <<>> /\ r[s][l] = IF Hears(p, l) THEN o \o <<Eof>> ELSE o
  BY <1>1, <1>5, <1>6
<1>9. \A x \in Server, k \in Link : k # l => r[x][k] = q[x][k]
  BY <1>5, <1>6
<1> HIDE DEF r
<1>10. Close(q, s, l) \in Nets
  BY <1>1, <1>4, <1>7 DEF Nets
<1> DEFINE c == Close(q, s, l)
<1>11. \A x \in Server, k \in Link :
         c[x][k] = IF x = s /\ k = l THEN (IF con[p][l].class = "free" THEN <<>> ELSE r[s][l])
                   ELSE r[x][k]
  BY <1>1, <1>4, <1>7 DEF Nets
<1>12. o \in Seq(Message)
  BY <1>1 DEF Nets
<1> HIDE DEF c, o
<1>13. ASSUME Alive(con[p][l])
       PROVE  c[s][l] # <<>> /\ c[s][l][Len(c[s][l])] = Eof
  <2>1. c[s][l] = o \o <<Eof>>
    BY <1>1, <1>8, <1>11, <1>13 DEF Alive, Hears
  <2>2. o \o <<Eof>> # <<>> /\ (o \o <<Eof>>)[Len(o \o <<Eof>>)] = Eof
    BY <1>12
  <2>3. QED
    BY <2>1, <2>2
<1>14. /\ c \in Nets /\ c[p][l] = <<>>
       /\ con[p][l].class = "free" => c[s][l] = <<>>
       /\ \A x \in Server, k \in Link : k # l => c[x][k] = q[x][k]
  BY <1>1, <1>8, <1>9, <1>10, <1>11 DEF c
<1>15. QED
  BY <1>13, <1>14 DEF c

LEMMA RemoveKeeps ==
  ASSUME LinkInv, NEW s \in Server, NEW l \in LinksOf(s), RemoveConnection(s, l)
  PROVE  LinkInv'
<1> DEFINE p == Peer(s, l)
           L == IF TellsQuit(s, l) THEN Servers(s) \ {l} ELSE {}
           msgs == <<ServerQuit(s, p)>>
           q == Send(net, s, L, msgs)
           c == con[s][l]
           d == con[p][l]
           o2 == net'[s][l]
<1>1. l \in Link /\ p \in Server /\ p # s
  BY LinkIs
<1>2. net \in Nets /\ con \in Cons
  BY Typed
<1>3. msgs \in Seq(Message)
  <2>1. ServerQuit(s, p) \in Message
    BY <1>1 DEF ServerQuit, Message
  <2>2. QED
    BY <2>1
<1>4. /\ con' = [con EXCEPT ![s][l] = Free] /\ c.destroy # "no" /\ UNCHANGED used
      /\ net' = Close(IF TellsQuit(s, l) THEN PassOn(net, s, l, ServerQuit(s, p)) ELSE net, s, l)
  BY DEF RemoveConnection
<1>5. L \in SUBSET Servers(s)
  OBVIOUS
<1>6. net' = Close(q, s, l)
  <2>1. CASE TellsQuit(s, l)
    BY <1>4, <2>1 DEF PassOn
  <2>2. CASE ~TellsQuit(s, l)
    <3>1. q = net
      BY <1>2, <2>2 DEF Send, Nets
    <3> HIDE DEF q
    <3>2. QED
      BY <1>4, <2>2, <3>1
  <2>3. QED
    BY <2>1, <2>2
<1> HIDE DEF L, msgs
<1>7. q \in Nets
  BY <1>2, <1>3, SendTyped
<1> HIDE DEF q
<1>8. /\ net' \in Nets /\ net'[p][l] = <<>> /\ (d.class = "free" => o2 = <<>>)
      /\ Alive(d) => o2 # <<>> /\ o2[Len(o2)] = Eof
      /\ \A x \in Server, k \in Link : k # l => net'[x][k] = q[x][k]
  BY <1>2, <1>6, <1>7, CloseIs
<1>9. con' \in Cons /\ \A x \in Server, k \in Link :
        con'[x][k] = IF x = s /\ k = l THEN Free ELSE con[x][k]
  BY <1>1, <1>2, <1>4, ConTyped DEF Cons, Free
<1>10. LinkOK(c, d, net[s][l], net[p][l])
  BY Here
<1>11. LinkOK(Free, d, o2, <<>>)
  <2>1. /\ c \in Connection /\ d \in Connection
        /\ net[s][l] \in Seq(Message) /\ net[p][l] \in Seq(Message)
    BY <1>1, Typed
  <2>2. c.class # "free"
    BY <1>4, <1>10 DEF LinkOK, EndOK, Free, Con
  <2> HIDE DEF c, d, o2
  <2>3. QED
    BY <1>8, <1>10, <2>1, <2>2, Removing
<1>12. LinkOK(con'[s][l], con'[p][l], net'[s][l], net'[p][l])
  BY <1>1, <1>8, <1>9, <1>11
<1>13. \A x \in Server, k \in Link : k # l =>
         con'[x][k] = con[x][k] /\ net'[x][k] = Send(net, s, L, msgs)[x][k]
  BY <1>8, <1>9 DEF q
<1>14. \A k \in Link : Sound(con', net', k)
  BY <1>3, <1>5, <1>12, <1>13, Others
<1>15. links' \in [Server -> Seq(LinkRec)]
  <2>1. Unlink(links[s], p) \in Seq(LinkRec)
    BY Typed, UnlinkTyped
  <2>2. links' = links \/ links' = [links EXCEPT ![s] = Unlink(links[s], p)]
    BY DEF RemoveConnection
  <2>3. QED
    BY <2>1, <2>2, Typed
<1>16. phase' \in [Server -> {"read", "reap"}] /\ served' \in [Server -> SUBSET Link]
  <2>1. phase \in [Server -> {"read", "reap"}] /\ served \in [Server -> SUBSET Link]
    BY DEF LinkInv, TypeOK
  <2>2. /\ phase' = [phase EXCEPT ![s] = "reap"] \/ phase' = [phase EXCEPT ![s] = "read"]
        /\ served' = served \/ served' = [served EXCEPT ![s] = {}]
    BY DEF RemoveConnection
  <2>3. QED
    BY <2>1, <2>2
<1>17. QED
  BY <1>4, <1>8, <1>9, <1>14, <1>15, <1>16, InvFrom DEF LinkInv, TypeOK, used

\* A server that crashes is, to its peers, one that closed all its connections.
LEMMA CrashKeeps ==
  ASSUME LinkInv, NEW s \in Server, Crash(s)
  PROVE  LinkInv'
<1>1. PICK sent \in BOOLEAN :
        net' = [t \in Server |-> [l \in Link |->
          IF l \notin LinksOf(s) \/ con[s][l].class = "free" THEN net[t][l]
          ELSE IF t # s \/ con[Peer(s, l)][l].class = "free" THEN <<>>
          ELSE IF ~Hears(Peer(s, l), l) THEN net[s][l]
          ELSE IF sent THEN Append(net[s][l], Eof) ELSE <<Eof>>]]
  BY DEF Crash
<1>2. /\ con' = [con EXCEPT ![s] = [l \in Link |-> Free]]
      /\ links' = [links EXCEPT ![s] = <<>>]
      /\ phase' = [phase EXCEPT ![s] = "read"]
      /\ served' = [served EXCEPT ![s] = {}]
      /\ faults' = faults + 1 /\ UNCHANGED <<connects, cuts>>
  BY DEF Crash
<1>3. Eof \in Message
  BY DEF Eof, Message
<1>4. net \in Nets /\ con \in Cons
  BY Typed
<1>5. net' \in Nets
  <2> DEFINE v(t, l) == IF l \notin LinksOf(s) \/ con[s][l].class = "free" THEN net[t][l]
          ELSE IF t # s \/ con[Peer(s, l)][l].class = "free" THEN <<>>
          ELSE IF ~Hears(Peer(s, l), l) THEN net[s][l]
          ELSE IF sent THEN Append(net[s][l], Eof) ELSE <<Eof>>
  <2>1. ASSUME NEW t \in Server, NEW l \in Link PROVE v(t, l) \in Seq(Message)
    <3>1. net[t][l] \in Seq(Message) /\ net[s][l] \in Seq(Message)
      BY <1>4 DEF Nets
    <3>2. Append(net[s][l], Eof) \in Seq(Message) /\ <<Eof>> \in Seq(Message)
          /\ <<>> \in Seq(Message)
      BY <1>3, <3>1
    <3>3. QED
      BY <3>1, <3>2
  <2>2. net' = [t \in Server |-> [l \in Link |-> v(t, l)]]
    BY <1>1
  <2> HIDE DEF v
  <2>3. QED
    BY <2>1, <2>2 DEF Nets
<1>6. con' \in Cons /\ \A x \in Server, k \in Link :
        con'[x][k] = IF x = s THEN Free ELSE con[x][k]
  BY <1>2, <1>4, ConTyped DEF Cons, Free
<1>7. ASSUME NEW k \in Link PROVE Sound(con', net', k)
  <2>1. CASE k \notin LinksOf(s)
    <3>1. s \notin {k[1], k[2]}
      BY <2>1 DEF LinksOf
    <3>2. \A x \in {k[1], k[2]} : con'[x][k] = con[x][k] /\ net'[x][k] = net[x][k]
      BY <1>1, <1>6, <2>1, <3>1, Ends
    <3>3. QED
      BY <3>2, SameKeeps
  <2>2. CASE k \in LinksOf(s)
    <3> DEFINE p == Peer(s, k)
               c == con[s][k]
               d == con[p][k]
               o == net[s][k]
               o2 == net'[s][k]
    <3>1. p \in Server /\ p # s /\ {k[1], k[2]} = {s, p}
      BY <2>2, LinkIs
    <3>2. LinkOK(c, d, o, net[p][k])
      BY <2>2, Here
    <3>3. CASE c.class = "free"
      <4>1. c = Free
        BY <3>2, <3>3 DEF LinkOK, EndOK
      <4>2. \A x \in {k[1], k[2]} : con'[x][k] = con[x][k] /\ net'[x][k] = net[x][k]
        BY <1>1, <1>6, <3>1, <3>3, <4>1, Ends
      <4>3. QED
        BY <4>2, SameKeeps
    <3>4. CASE c.class # "free"
      <4>1. net'[p][k] = <<>>
        BY <1>1, <2>2, <3>1, <3>4
      <4>2. o2 = IF d.class = "free" THEN <<>> ELSE IF ~Hears(p, k) THEN o
                 ELSE IF sent THEN Append(o, Eof) ELSE <<Eof>>
        BY <1>1, <2>2, <3>4
      <4>3. o \in Seq(Message)
        BY Typed
      <4>4. Alive(d) => o2 # <<>> /\ o2[Len(o2)] = Eof
        <5> SUFFICES ASSUME Alive(d) PROVE o2 # <<>> /\ o2[Len(o2)] = Eof
          OBVIOUS
        <5>1. o2 = Append(o, Eof) \/ o2 = <<Eof>>
          BY <4>2 DEF Alive, Hears
        <5> HIDE DEF o, o2
        <5>2. Append(o, Eof) # <<>> /\ Append(o, Eof)[Len(Append(o, Eof))] = Eof
          BY <1>3, <4>3
        <5>3. <<Eof>> # <<>> /\ <<Eof>>[Len(<<Eof>>)] = Eof
          OBVIOUS
        <5>4. QED
          BY <5>1, <5>2, <5>3
      <4>5. LinkOK(Free, d, o2, <<>>)
        <5>1. /\ c \in Connection /\ d \in Connection /\ net[p][k] \in Seq(Message)
          BY <3>1, Typed
        <5>2. d.class = "free" => o2 = <<>>
          BY <4>2
        <5> HIDE DEF c, d, o, o2
        <5>3. QED
          BY <3>2, <3>4, <4>3, <4>4, <5>1, <5>2, Removing
      <4>6. LinkOK(con'[s][k], con'[p][k], net'[s][k], net'[p][k])
        BY <1>6, <3>1, <4>1, <4>5
      <4>7. QED
        BY <2>2, <4>6, HereKeeps
    <3>5. QED
      BY <3>3, <3>4
  <2>3. QED
    BY <2>1, <2>2
<1>8. /\ links' \in [Server -> Seq(LinkRec)] /\ phase' \in [Server -> {"read", "reap"}]
      /\ served' \in [Server -> SUBSET Link] /\ {connects', cuts', faults'} \subseteq Nat
  BY <1>2 DEF LinkInv, TypeOK
<1>9. QED
  BY <1>5, <1>6, <1>7, <1>8, InvFrom

LEMMA LinkNext ==
  ASSUME LinkInv, [Next]_vars
  PROVE  LinkInv'
<1>1. ASSUME NEW s \in Server, Admin(s) PROVE LinkInv'
  BY <1>1, ConnectKeeps, DisconnectKeeps DEF Admin
<1>2. ASSUME NEW s \in Server, Reap(s) \/ Crash(s) PROVE LinkInv'
  BY <1>2, EndReadKeeps, RemoveKeeps, CrashKeeps DEF Reap
<1>3. ASSUME NEW s \in Server, NEW l \in LinksOf(s), Receive(s, l)
      PROVE  LinkInv'
  BY <1>3, LoginKeeps, AckKeeps, LinkInfoKeeps, ServerQuitKeeps, RecvConnectKeeps,
     RecvDisconnectKeeps, EofKeeps DEF Receive
<1>4. ASSUME NEW s \in Server, NEW l \in LinksOf(s), Connected(s, l) \/ Fails(s, l)
      PROVE  LinkInv'
  BY <1>4, ConnectedKeeps, FailsKeeps
<1>5. CASE UNCHANGED vars
  <2>1. con' = con /\ net' = net /\ UNCHANGED <<links, phase, served, used>>
    BY <1>5 DEF vars
  <2>2. \A k \in Link : Sound(con', net', k)
    BY <2>1, SameKeeps
  <2>3. QED
    BY <2>1, <2>2, Typed, InvSimple
<1>6. Admins \subseteq Server
  BY Setting
<1>7. QED
  BY <1>1, <1>2, <1>3, <1>4, <1>5, <1>6 DEF Next

-----------------------------------------------------------------------------
(* The theorems *)

LEMMA LinkInvHolds == Spec => []LinkInv
<1>1. LinkInv /\ [Next]_vars => LinkInv'
  BY LinkNext
<1>2. QED
  BY InitInv, <1>1, PTL DEF Spec

\* The variables keep their types: what arrives on a stream is a command, and what
\* remove_links() and server_quit() leave of Server_Links is a list of links.
THEOREM TypeCorrect == Spec => []TypeOK
<1>1. LinkInv => TypeOK
  BY DEF LinkInv
<1>2. QED
  BY LinkInvHolds, <1>1, PTL

\* A handshake does not stick half way, whatever is refused, fails or crashes: when
\* nothing is in flight both ends of a link are servers, or neither exists.
THEOREM NoHalfLinks == Spec => []NoHalfLink
<1>1. LinkInv => NoHalfLink
  <2>1. SUFFICES ASSUME LinkInv, Quiet, NEW l \in Link
                 PROVE  \/ Up(l[1], l) /\ Up(l[2], l)
                        \/ con[l[1]][l] = Free /\ con[l[2]][l] = Free
    BY DEF NoHalfLink
  <2> DEFINE c == con[l[1]][l]
             d == con[l[2]][l]
  <2>2. LinkOK(c, d, net[l[1]][l], net[l[2]][l])
    BY <2>1 DEF LinkInv, Sound
  <2>3. /\ net[l[1]][l] = <<>> /\ net[l[2]][l] = <<>>
        /\ c.class # "connecting" /\ c.destroy = "no"
        /\ d.class # "connecting" /\ d.destroy = "no"
    BY <2>1, Ends DEF Quiet
  <2>4. c \in Connection /\ d \in Connection
    BY <2>1, Typed, Ends
  <2>5. LinkOK(c, d, <<>>, <<>>)
    BY <2>2, <2>3
  <2>6. ASSUME NEW e \in Connection, EndOK(e), e.class = "server", e.destroy = "no"
        PROVE  e = Con("server")
    BY <2>6 DEF EndOK, Connection, Con
  <2>7. \/ c.class = "server" /\ d.class = "server"
        \/ c = Free /\ d = Free
    <3> HIDE DEF c, d
    <3>1. CASE c.class = "free" \/ d.class = "free"
      <4>1. c.class = "free" /\ d.class = "free"
        BY <2>3, <2>5, <3>1 DEF LinkOK, Half, Alive
      <4>2. QED
        BY <2>5, <4>1 DEF LinkOK, EndOK
    <3>2. CASE c.class # "free" /\ d.class # "free"
      <4>1. Accepting(c, <<>>) /\ Accepting(d, <<>>)
        BY <2>3, <2>5, <3>2 DEF LinkOK, Handshake, Alive
      <4>2. QED
        BY <4>1 DEF Accepting
    <3>3. QED
      BY <3>1, <3>2
  <2>8. QED
    BY <2>3, <2>4, <2>5, <2>6, <2>7 DEF LinkOK, Up
<1>2. QED
  BY LinkInvHolds, <1>1, PTL

=============================================================================
