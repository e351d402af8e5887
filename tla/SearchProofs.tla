--------------------------- MODULE SearchProofs ---------------------------
(***************************************************************************)
(* Proofs about Search, for all networks, clients, searches and bounds.    *)
(***************************************************************************)
EXTENDS Search, FunctionTheorems, FiniteSetTheorems, SequenceTheorems, TLAPS

Chans  == [Server -> [Server -> Seq(Message)]]
Heards == [Id -> [hits : Nat, ends : Nat]]

-----------------------------------------------------------------------------
(* Subsequences and places *)

\* The places of a sequence can be counted.
LEMMA PlacesFinite ==
  ASSUME NEW T, NEW q \in Seq(T), NEW K \in SUBSET DOMAIN q
  PROVE  IsFiniteSet(K) /\ Cardinality(K) \in Nat /\ K \subseteq Nat
<1>1. DOMAIN q = 1 .. Len(q) /\ Len(q) \in Nat
  OBVIOUS
<1>2. IsFiniteSet(1 .. Len(q))
  BY <1>1, FS_Interval
<1>3. IsFiniteSet(K)
  BY <1>1, <1>2, FS_Subset
<1>4. QED
  BY <1>1, <1>3, FS_CardinalityType

\* Each number up to that of a set of places is the rank of one of them, and of no other.
Upto(K, k) == {j \in K : j <= k}
Ranked(K)  ==
  /\ \A n \in 1 .. Cardinality(K) : \E k \in K : Cardinality(Upto(K, k)) = n
  /\ \A k \in K : Cardinality(Upto(K, k)) \in 1 .. Cardinality(K)
  /\ \A k, l \in K : Cardinality(Upto(K, k)) = Cardinality(Upto(K, l)) => k = l

LEMMA Ranks ==
  ASSUME NEW T, NEW q \in Seq(T), NEW K \in SUBSET DOMAIN q
  PROVE  Ranked(K)
<1> DEFINE rank == [k \in K |-> Cardinality(Upto(K, k))]
<1>1. IsFiniteSet(K) /\ Cardinality(K) \in Nat /\ K \subseteq Nat
  BY PlacesFinite
<1>2. ASSUME NEW k \in K 
      PROVE  /\ IsFiniteSet(Upto(K, k)) /\ Cardinality(Upto(K, k)) \in Nat
             /\ Cardinality(Upto(K, k)) \in 1 .. Cardinality(K)
  <2>1. /\ IsFiniteSet(Upto(K, k)) /\ Cardinality(Upto(K, k)) <= Cardinality(K)
        /\ Cardinality(Upto(K, k)) \in Nat
    <3>1. Upto(K, k) \in SUBSET K
      BY DEF Upto
    <3>2. QED
      BY <1>1, <3>1, FS_Subset, FS_CardinalityType
  <2>2. k \in Upto(K, k)
    BY <1>1 DEF Upto
  <2>3. Cardinality(Upto(K, k)) # 0
    BY <2>1, <2>2, FS_EmptySet
  <2>4. QED
    BY <1>1, <2>1, <2>3
<1>3. ASSUME NEW k \in K, NEW l \in K, k < l PROVE rank[k] < rank[l]
  <2>1. Upto(K, k) \in SUBSET Upto(K, l)
    BY <1>1, <1>3 DEF Upto
  <2>2. l \in Upto(K, l) /\ l \notin Upto(K, k)
    BY <1>1, <1>3 DEF Upto
  <2>3. /\ Cardinality(Upto(K, k)) <= Cardinality(Upto(K, l))
        /\ Cardinality(Upto(K, k)) # Cardinality(Upto(K, l))
    <3>1. IsFiniteSet(Upto(K, l))
      BY <1>2
    <3>2. QED
      BY <2>1, <2>2, <3>1, FS_Subset
  <2>4. Cardinality(Upto(K, k)) \in Nat /\ Cardinality(Upto(K, l)) \in Nat
    BY <1>2
  <2>5. Cardinality(Upto(K, k)) < Cardinality(Upto(K, l))
    BY <2>3, <2>4
  <2>6. QED
    BY <2>5
<1>4. rank \in [K -> 1 .. Cardinality(K)]
  BY <1>2
<1>5. \A k, l \in K : rank[k] = rank[l] => k = l
  <2>1. SUFFICES ASSUME NEW k \in K, NEW l \in K, k # l PROVE rank[k] # rank[l]
    OBVIOUS
  <2>2. rank[k] \in Int /\ rank[l] \in Int
    BY <1>4
  <2>3. k < l \/ l < k
    BY <1>1, <2>1
  <2>4. rank[k] < rank[l] \/ rank[l] < rank[k]
    BY <1>3, <2>3
  <2>5. QED
    BY <2>2, <2>4
<1>6. rank \in Injection(K, 1 .. Cardinality(K))
  BY <1>4, <1>5, Fun_IsInj
<1>7. /\ IsFiniteSet(1 .. Cardinality(K))
      /\ Cardinality(1 .. Cardinality(K)) = Cardinality(K)
  <2>1. ASSUME NEW m \in Nat PROVE IsFiniteSet(1 .. m) /\ Cardinality(1 .. m) = m
    BY FS_Interval
  <2>2. QED
    BY <1>1, <2>1
<1>8. rank \in Surjection(K, 1 .. Cardinality(K))
  BY <1>6, <1>7, FS_Injection
<1>9. \A n \in 1 .. Cardinality(K) : \E k \in K : rank[k] = n
  <2> HIDE DEF rank
  <2>1. QED
    BY <1>8, Fun_SurjectionProperties
<1>10. QED
  BY <1>2, <1>5, <1>9 DEF Ranked

\* A subsequence is a sequence of elements at the places that were chosen.
LEMMA Sifted ==
  ASSUME NEW T, NEW q \in Seq(T), NEW K \in SUBSET DOMAIN q
  PROVE  /\ Sift(q, K) \in Seq(T)
         /\ \A n \in DOMAIN Sift(q, K) : \E k \in K : Sift(q, K)[n] = q[k]
<1>1. CASE K = DOMAIN q
  BY <1>1 DEF Sift
<1>2. CASE K # DOMAIN q
  <2> DEFINE At1(n) == CHOOSE k \in K : Cardinality({j \in K : j <= k}) = n
  <2>1. Sift(q, K) = [n \in 1 .. Cardinality(K) |-> q[At1(n)]]
    BY <1>2 DEF Sift
  <2>2. Cardinality(K) \in Nat
    BY PlacesFinite
  <2>3. ASSUME NEW n \in 1 .. Cardinality(K) PROVE At1(n) \in K
    <3>1. Ranked(K)
      BY Ranks
    <3> HIDE DEF At1
    <3>2. \E k \in K : Cardinality({j \in K : j <= k}) = n
      BY <3>1 DEF Ranked, Upto
    <3>3. QED
      BY <3>2 DEF At1
  <2>4. ASSUME NEW n \in 1 .. Cardinality(K) PROVE q[At1(n)] \in T
    <3>1. At1(n) \in DOMAIN q
      BY <2>3
    <3> HIDE DEF At1
    <3>2. QED
      BY <3>1, ElementOfSeq
  <2> HIDE DEF At1
  <2>5. [n \in 1 .. Cardinality(K) |-> q[At1(n)]] \in Seq(T)
    BY <2>2, <2>4, IsASeq
  <2>6. DOMAIN Sift(q, K) = 1 .. Cardinality(K)
    BY <2>1
  <2>7. \A n \in DOMAIN Sift(q, K) : Sift(q, K)[n] = q[At1(n)]
    BY <2>1, <2>6
  <2>8. QED
    BY <2>1, <2>3, <2>5, <2>6, <2>7
<1>3. QED
  BY <1>1, <1>2

\* No element at those places is left out.
LEMMA SiftAll ==
  ASSUME NEW T, NEW q \in Seq(T), NEW K \in SUBSET DOMAIN q, NEW k \in K
  PROVE  \E n \in DOMAIN Sift(q, K) : Sift(q, K)[n] = q[k]
<1>1. CASE K = DOMAIN q
  BY <1>1 DEF Sift
<1>2. CASE K # DOMAIN q
  <2> DEFINE Rank(l) == Cardinality({j \in K : j <= l})
             At1(n) == CHOOSE l \in K : Rank(l) = n
  <2>1. Sift(q, K) = [n \in 1 .. Cardinality(K) |-> q[At1(n)]]
    BY <1>2 DEF Sift
  <2>2. Rank(k) \in 1 .. Cardinality(K) /\ \A l \in K : Rank(l) = Rank(k) => l = k
    <3>1. Ranked(K)
      BY Ranks
    <3> QED BY <3>1 DEF Ranked, Upto
  <2> HIDE DEF Rank
  <2>3. At1(Rank(k)) = k
    BY <2>2
  <2> HIDE DEF At1
  <2>4. Rank(k) \in DOMAIN Sift(q, K) /\ Sift(q, K)[Rank(k)] = q[k]
    BY <2>1, <2>2, <2>3
  <2> QED BY <2>4
<1> QED BY <1>1, <1>2

\* find_search() stops at an entry or at the end of the list.
LEMMA PlaceInList ==
  ASSUME NEW T, NEW q \in Seq(T), NEW i
  PROVE  /\ Place(q, i) \in 1 .. Len(q) + 1
         /\ Place(q, i) <= Len(q) => q[Place(q, i)].id = i
<1> DEFINE Ends == {k \in 1 .. Len(q) + 1 : k <= Len(q) => q[k].id = i}
<1>1. Len(q) \in Nat
  OBVIOUS
<1>2. Ends \subseteq Nat /\ Ends # {}
  <2>1. Len(q) + 1 \in Ends
    BY <1>1
  <2>2. QED
    BY <1>1, <2>1
<1>3. PICK k \in Ends : \A j \in Ends : <<j, k>> \notin OpToRel(<, Nat)
  BY <1>2, NatLessThanWellFounded, WFMin
<1>4. \A j \in Ends : ~ (j < k)
  BY <1>2, <1>3 DEF OpToRel
<1>5. \A j \in 1 .. k - 1 : q[j].id # i
  BY <1>1, <1>4
<1>6. \E l \in 1 .. Len(q) + 1 : /\ l <= Len(q) => q[l].id = i
                                /\ \A j \in 1 .. l - 1 : q[j].id # i
  BY <1>5
<1>7. QED
  BY <1>6 DEF Place

-----------------------------------------------------------------------------
(* Types *)

\* Links and lists can be counted.
LEMMA LinksFinite ==
  ASSUME NEW s \in Server, NEW x
  PROVE  /\ IsFiniteSet(Links(s) \ {x}) /\ Cardinality(Links(s) \ {x}) \in Nat
         /\ IsFiniteSet(Links(s)) /\ Cardinality(Links(s)) \in Nat
<1>1. Links(s) \in SUBSET Server /\ Links(s) \ {x} \in SUBSET Server
  BY DEF Links
<1>2. QED
  BY <1>1, FiniteNet, FS_Subset, FS_CardinalityType

\* Servers is part of the links, and a request is passed to other links than its own;
\* no more ENDs are expected than there are of these.
LEMMA PeersAreLinks ==
  ASSUME NEW s \in Server, NEW con \in Client \cup Server
  PROVE  /\ Peers(s, con) \subseteq Links(s) \ {con} /\ Expected(s, con) \in Int
         /\ Expected(s, con) <= Cardinality(Links(s) \ {con})
<1> DEFINE C == Cardinality(Servers(s))
           D == Cardinality(Servers(s) \ {con})
           L == Cardinality(Links(s) \ {con})
<1>1. Servers(s) \subseteq Links(s) /\ Servers(s) \in SUBSET Server
  BY DEF Servers, Links
<1>2. IsFiniteSet(Servers(s)) /\ C \in Nat
  BY <1>1, FiniteNet, FS_Subset, FS_CardinalityType
<1>3. IsFiniteSet(Links(s) \ {con}) /\ L \in Nat
  BY LinksFinite
<1>4. Servers(s) \ {con} \in SUBSET (Links(s) \ {con})
  BY <1>1
<1>5. D \in Nat /\ D <= L
  BY <1>3, <1>4, FS_Subset, FS_CardinalityType
<1>6. Expected(s, con) = C - (IF con \in Server THEN 1 ELSE 0)
  BY DEF Expected
<1>7. CASE con \in Servers(s)
  <2>1. D = C - 1
    BY <1>2, <1>7, FS_RemoveElement
  <2>2. con \in Server
    BY <1>1, <1>7
  <2> HIDE DEF C, D, L
  <2>3. Expected(s, con) \in Int /\ Expected(s, con) <= L
    BY <1>2, <1>3, <1>5, <1>6, <2>1, <2>2
  <2> QED BY <1>4, <2>3 DEF Peers, L
<1>8. CASE con \notin Servers(s)
  <2>1. Servers(s) \ {con} = Servers(s)
    BY <1>8
  <2>2. D = C
    BY <2>1
  <2> HIDE DEF C, D, L
  <2>3. Expected(s, con) \in Int /\ Expected(s, con) <= L
    BY <1>2, <1>3, <1>5, <1>6, <2>2
  <2> QED BY <1>4, <2>3 DEF Peers, L
<1> QED BY <1>7, <1>8

\* What is queued on links is made of messages.
LEMMA SendTyped ==
  ASSUME NEW ch \in Chans, NEW s \in Server, NEW S, NEW msgs \in Seq(Message)
  PROVE  Send(ch, s, S, msgs) \in Chans
<1>1. ASSUME NEW t \in Server PROVE ch[s][t] \in Seq(Message) /\ ch[s][t] \o msgs \in Seq(Message)
  BY DEF Chans
<1>2. QED
  BY <1>1 DEF Chans, Send

\* A message is read off a link.
LEMMA ReceivedTyped ==
  ASSUME TypeOK, NEW s \in Server, NEW t \in Server, chan[t][s] # <<>>
  PROVE  Received(t, s) \in Chans /\ Head(chan[t][s]) \in Message
<1>1. chan[t][s] \in Seq(Message) /\ chan \in Chans
  BY DEF TypeOK, Chans
<1>2. Tail(chan[t][s]) \in Seq(Message) /\ Head(chan[t][s]) \in Message
  BY <1>1
<1>3. QED
  BY <1>1, <1>2 DEF Received, Chans

\* The ENDs for a list of entries are messages on links, and are counted at clients.
LEMMA EndsTyped ==
  ASSUME NEW ch \in Chans, NEW h \in Heards, NEW s \in Server, NEW q \in Seq(Entry)
  PROVE  EndsOn(ch, s, q) \in Chans /\ EndsHeard(h, q) \in Heards
<1> DEFINE Sent(t) == LET mine == Sift(q, {k \in DOMAIN q : q[k].con = t})
                      IN  [k \in DOMAIN mine |-> End(mine[k].id)]
<1>1. ASSUME NEW t \in Server PROVE Sent(t) \in Seq(Message)
  <2> DEFINE mine == Sift(q, {k \in DOMAIN q : q[k].con = t})
  <2>1. mine \in Seq(Entry)
    BY Sifted
  <2> HIDE DEF mine
  <2>2. ASSUME NEW k \in DOMAIN mine PROVE End(mine[k].id) \in Message
    <3>1. mine[k] \in Entry
      BY <2>1, ElementOfSeq
    <3>2. QED
      BY <3>1 DEF Entry, End, Message
  <2>3. DOMAIN mine = 1 .. Len(mine) /\ Len(mine) \in Nat
    BY <2>1
  <2>4. [k \in DOMAIN mine |-> End(mine[k].id)] \in Seq(Message)
    BY <2>2, <2>3, IsASeq
  <2>5. QED
    BY <2>4 DEF mine
<1>2. EndsOn(ch, s, q) \in Chans
  <2>1. EndsOn(ch, s, q) =
          [ch EXCEPT ![s] = [t \in Server |->
             IF t \in Links(s) /\ end[t][s] # "down" THEN ch[s][t] \o Sent(t) ELSE ch[s][t]]]
    BY DEF EndsOn
  <2> HIDE DEF Sent
  <2>2. ASSUME NEW t \in Server
        PROVE  ch[s][t] \in Seq(Message) /\ ch[s][t] \o Sent(t) \in Seq(Message)
    <3>1. ch[s][t] \in Seq(Message)
      BY DEF Chans
    <3>2. QED
      BY <1>1, <3>1
  <2>3. QED
    BY <2>1, <2>2 DEF Chans
<1>3. ASSUME NEW i \in Id
      PROVE  Cardinality({k \in DOMAIN q :
                q[k].id = i /\ q[k].con \in Client /\ IsUser(q[k].con)}) \in Nat
  BY PlacesFinite
<1>4. EndsHeard(h, q) \in Heards
  BY <1>3 DEF EndsHeard, Heards
<1>5. QED
  BY <1>2, <1>4

\* What a look-up of search i keeps and drops are lists of entries.
LEMMA LookUpTyped ==
  ASSUME TypeOK, NEW s \in Server, NEW i
  PROVE  /\ Kept(s, i) \in Seq(Entry) /\ Dropped(s, i) \in Seq(Entry)
         /\ Passed(s, i) \subseteq DOMAIN pend[s]
<1>1. pend[s] \in Seq(Entry)
  BY DEF TypeOK
<1>2. Place(pend[s], i) \in 1 .. Len(pend[s]) + 1
  BY <1>1, PlaceInList
<1>3. Passed(s, i) \subseteq DOMAIN pend[s]
  <2>1. DOMAIN pend[s] = 1 .. Len(pend[s]) /\ Len(pend[s]) \in Nat
    BY <1>1
  <2>2. QED
    BY <1>2, <2>1 DEF Passed
<1>4. QED
  BY <1>1, <1>3, Sifted DEF Kept, Dropped

\* The numbers of hits.
LEMMA Numbers ==
  ASSUME NEW s \in Server, NEW max \in Nat
  PROVE  /\ Capped(max) \in Nat /\ LocalHits(s, max) \in Nat
         /\ LocalHits(s, max) < max => max - LocalHits(s, max) \in Nat
  BY Setting DEF Capped, LocalHits, Min

LEMMA ResultsTyped ==
  ASSUME NEW i \in Id, NEW n \in Nat
  PROVE  Results(i, n) \in Seq(Message) /\ <<End(i)>> \in Seq(Message)
<1>1. [type |-> "RESULT", id |-> i] \in Message /\ End(i) \in Message
  BY DEF Message, End
<1>2. QED
  BY <1>1, IsASeq DEF Results

LEMMA InternalTyped ==
  ASSUME TypeOK, NEW s \in Server, NEW con \in Client \cup Server, NEW i \in Id,
         NEW max \in Nat, NEW local, NEW ch \in Chans,
         SearchInternal(s, con, i, max, local, ch)
  PROVE  /\ pend' \in [Server -> Seq(Entry)] /\ chan' \in Chans /\ heard' \in Heards
<1> DEFINE n == LocalHits(s, max)
           e == [id |-> i, con |-> con, count |-> 0, num |-> Expected(s, con), ts |-> now]
           fwd == n < max /\ ~local /\ Expected(s, con) > 0
           back == IF con \in Client THEN ch
                   ELSE Send(ch, s, {con}, Results(i, n) \o (IF fwd THEN <<>> ELSE <<End(i)>>))
<1>1. n \in Nat /\ (n < max => max - n \in Nat)
  BY Numbers
<1>2. e \in Entry
  <2>1. Expected(s, con) \in Int
    BY PeersAreLinks
  <2>2. now \in Nat
    BY DEF TypeOK
  <2>3. QED
    BY <2>1, <2>2 DEF Entry
<1>3. Results(i, n) \o (IF fwd THEN <<>> ELSE <<End(i)>>) \in Seq(Message)
  BY <1>1, ResultsTyped
<1>4. back \in Chans
  BY <1>3, SendTyped
<1> HIDE DEF n, e, back
<1>5. fwd => <<Request(i, max - n)>> \in Seq(Message)
  BY <1>1 DEF Request, Message
<1>6. pend' = IF fwd THEN [pend EXCEPT ![s] = Append(@, e)] ELSE pend
  BY DEF SearchInternal, n, e
<1>7. chan' = IF fwd THEN Send(back, s, Peers(s, con), <<Request(i, max - n)>>) ELSE back
  BY DEF SearchInternal, n, back
<1>8. heard' = IF con \in Client
               THEN [heard EXCEPT ![i] = [hits |-> n, ends |-> IF fwd THEN 0 ELSE 1]] ELSE heard
  BY DEF SearchInternal, n
<1>9. pend' \in [Server -> Seq(Entry)]
  <2>1. Append(pend[s], e) \in Seq(Entry)
    BY <1>2 DEF TypeOK
  <2>2. QED
    BY <1>6, <2>1 DEF TypeOK
<1>10. chan' \in Chans
  BY <1>4, <1>5, <1>7, SendTyped
<1>11. heard' \in Heards
  BY <1>1, <1>8 DEF TypeOK, Heards
<1>12. QED
  BY <1>9, <1>10, <1>11

LEMMA InitTypes == ASSUME Init PROVE TypeOK
BY Setting DEF Init, TypeOK, LinkStates

\* Requests.
LEMMA AskTypes ==
  ASSUME TypeOK, NEW c \in Client, NEW i \in Id, NEW max \in Nat, NEW local,
         StartSearch(c, i, max, local)
  PROVE  TypeOK'
<1>1. Capped(max) \in Nat /\ At[c] \in Server
  BY Setting DEF Capped, Min
<1>2. /\ pend' \in [Server -> Seq(Entry)] /\ chan' \in Chans /\ heard' \in Heards
  <2>1. SearchInternal(At[c], c, i, Capped(max), local, chan) /\ chan \in Chans
    BY DEF StartSearch, TypeOK, Chans
  <2>2. QED
    BY <1>1, <2>1, InternalTyped
<1>3. asker' \in [Id -> Client \cup {None}] /\ want' \in [Id -> Nat]
  BY <1>1 DEF StartSearch, TypeOK
<1>4. UNCHANGED <<client, end, now, splits>>
  BY DEF StartSearch
<1>5. QED
  BY <1>2, <1>3, <1>4 DEF TypeOK, Chans, Heards

LEMMA SearchTypes ==
  ASSUME TypeOK, NEW s \in Server, NEW t \in Server, RecvSearch(s, t) PROVE TypeOK'
<1> DEFINE m == Head(chan[t][s])
<1>1. m \in Message /\ m.type = "SEARCH" /\ Received(t, s) \in Chans
  BY ReceivedTyped DEF RecvSearch, Deliver
<1>2. m.id \in Id /\ m.max \in Nat
  BY <1>1 DEF Message
<1> HIDE DEF m
<1>3. ASSUME SearchInternal(s, t, m.id, Capped(m.max), FALSE, Received(t, s))
      PROVE  pend' \in [Server -> Seq(Entry)] /\ chan' \in Chans /\ heard' \in Heards
  <2>1. Capped(m.max) \in Nat
    BY <1>2, Numbers
  <2>2. QED
    BY <1>1, <1>2, <1>3, <2>1, InternalTyped
<1>4. ASSUME chan' = Send(Received(t, s), s, {t}, <<End(m.id)>>), UNCHANGED <<pend, heard>>
      PROVE  pend' \in [Server -> Seq(Entry)] /\ chan' \in Chans /\ heard' \in Heards
  <2>1. <<End(m.id)>> \in Seq(Message)
    BY <1>2, ResultsTyped
  <2>2. chan' \in Chans
    BY <1>1, <1>4, <2>1, SendTyped
  <2>3. QED
    BY <1>4, <2>2 DEF TypeOK, Heards
<1>5. pend' \in [Server -> Seq(Entry)] /\ chan' \in Chans /\ heard' \in Heards
  <2>1. \/ SearchInternal(s, t, m.id, Capped(m.max), FALSE, Received(t, s))
        \/ /\ chan' = Send(Received(t, s), s, {t}, <<End(m.id)>>)
           /\ UNCHANGED <<pend, heard>>
    BY DEF RecvSearch, m
  <2>2. QED
    BY <1>3, <1>4, <2>1
<1>6. UNCHANGED <<client, end, asker, want, now, splits>>
  BY DEF RecvSearch
<1>7. QED
  BY <1>5, <1>6 DEF TypeOK, Chans, Heards

\* Answers.
LEMMA ResultTypes ==
  ASSUME TypeOK, NEW s \in Server, NEW t \in Server, RecvResult(s, t) PROVE TypeOK'
<1> DEFINE i == Head(chan[t][s]).id
<1>1. i \in Id /\ Received(t, s) \in Chans
  <2>1. /\ Head(chan[t][s]) \in Message /\ Head(chan[t][s]).type = "RESULT"
        /\ Received(t, s) \in Chans
    BY ReceivedTyped DEF RecvResult, Deliver
  <2>2. QED
    BY <2>1 DEF Message
<1>2. Kept(s, i) \in Seq(Entry) /\ Dropped(s, i) \in Seq(Entry)
  BY LookUpTyped
<1>3. heard \in Heards /\ pend \in [Server -> Seq(Entry)]
  BY DEF TypeOK, Heards
<1>4. LookUp(s, t, i) \in Chans /\ EndsHeard(heard, Dropped(s, i)) \in Heards
  BY <1>1, <1>2, <1>3, EndsTyped DEF LookUp
<1>5. /\ pend' = [pend EXCEPT ![s] = Kept(s, i)]
      /\ \/ chan' = LookUp(s, t, i)
         \/ \E con \in Server : chan' = Send(LookUp(s, t, i), s, {con}, Results(i, 1))
      /\ \/ heard' = EndsHeard(heard, Dropped(s, i))
         \/ heard' = [EndsHeard(heard, Dropped(s, i)) EXCEPT ![i].hits = @ + 1]
      /\ UNCHANGED <<client, end, asker, want, now, splits>>
  BY DEF RecvResult
<1>6. Results(i, 1) \in Seq(Message)
  BY <1>1, ResultsTyped
<1>7. chan' \in Chans
  <2>1. CASE chan' = LookUp(s, t, i)
    BY <1>4, <2>1
  <2>2. CASE \E con \in Server : chan' = Send(LookUp(s, t, i), s, {con}, Results(i, 1))
    BY <1>4, <1>6, <2>2, SendTyped
  <2>3. QED
    BY <1>5, <2>1, <2>2
<1>8. heard' \in Heards
  <2> DEFINE h == EndsHeard(heard, Dropped(s, i))
  <2>1. h \in Heards /\ (heard' = h \/ heard' = [h EXCEPT ![i].hits = @ + 1])
    BY <1>4, <1>5
  <2> HIDE DEF h
  <2>2. QED
    BY <1>1, <2>1 DEF Heards
<1>9. pend' \in [Server -> Seq(Entry)]
  BY <1>2, <1>3, <1>5
<1>10. QED
  BY <1>5, <1>7, <1>8, <1>9 DEF TypeOK, Chans, Heards

\* The entry an END is for, with one more END counted.
LEMMA CountedTyped ==
  ASSUME TypeOK, NEW s \in Server, NEW i, Found(Kept(s, i), i)
  PROVE  LET q == Kept(s, i)
             p == Place(q, i)
         IN  /\ p \in DOMAIN q /\ q[p] \in Entry
             /\ [q[p] EXCEPT !.count = @ + 1] \in Entry
<1> DEFINE q == Kept(s, i)
           p == Place(q, i)
<1>1. q \in Seq(Entry)
  BY LookUpTyped
<1>2. p \in 1 .. Len(q)
  <2>1. p \in 1 .. Len(q) + 1 /\ p <= Len(q) /\ Len(q) \in Nat
    BY <1>1, PlaceInList DEF Found
  <2>2. QED
    BY <2>1
<1>3. p \in DOMAIN q /\ q[p] \in Entry
  BY <1>1, <1>2, ElementOfSeq
<1> HIDE DEF q, p
<1>4. [q[p] EXCEPT !.count = @ + 1] \in Entry
  BY <1>3 DEF Entry
<1>5. QED
  BY <1>3, <1>4 DEF q, p

LEMMA EndTypes ==
  ASSUME TypeOK, NEW s \in Server, NEW t \in Server, RecvEnd(s, t) PROVE TypeOK'
<1> DEFINE i == Head(chan[t][s]).id
           q == Kept(s, i)
           p == Place(q, i)
           e == [q[p] EXCEPT !.count = @ + 1]
           last == Found(q, i) /\ LastEnd(e)
           over == Dropped(s, i) \o (IF last THEN <<e>> ELSE <<>>)
<1>1. Received(t, s) \in Chans
  BY ReceivedTyped DEF RecvEnd, Deliver
<1>2. q \in Seq(Entry) /\ Dropped(s, i) \in Seq(Entry)
  BY LookUpTyped
<1>3. Found(q, i) => p \in DOMAIN q /\ e \in Entry
  BY CountedTyped
<1>4. /\ pend' = [pend EXCEPT ![s] =
                    IF last THEN Sift(q, DOMAIN q \ {p})
                    ELSE IF Found(q, i) THEN [q EXCEPT ![p] = e] ELSE q]
      /\ chan' = EndsOn(Received(t, s), s, over)
      /\ heard' = EndsHeard(heard, over)
      /\ UNCHANGED <<client, end, asker, want, now, splits>>
  BY DEF RecvEnd
<1> HIDE DEF q, p, e
<1>5. over \in Seq(Entry)
  BY <1>2, <1>3
<1>6. Sift(q, DOMAIN q \ {p}) \in Seq(Entry)
  BY <1>2, Sifted
<1>7. Found(q, i) => [q EXCEPT ![p] = e] \in Seq(Entry)
  BY <1>2, <1>3, ExceptSeq
<1>8. pend' \in [Server -> Seq(Entry)]
  BY <1>2, <1>4, <1>6, <1>7 DEF TypeOK
<1> HIDE DEF over
<1>9. heard \in Heards
  BY DEF TypeOK, Heards
<1>10. chan' \in Chans /\ heard' \in Heards
  BY <1>1, <1>4, <1>5, <1>9, EndsTyped
<1>11. QED
  BY <1>4, <1>8, <1>10 DEF TypeOK, Chans, Heards

\* Connections come up, fail, are disconnected and end.
Connects(s, t) == \/ Link(s, t) \/ RecvAck(s, t) \/ RecvEof(s, t)
                  \/ LinkFails(s, t) \/ ServerDisconnect(s, t)

LEMMA LinkTypes ==
  ASSUME TypeOK, NEW s \in Server, NEW t \in Server, Connects(s, t)
  PROVE  TypeOK'
<1>1. CASE Link(s, t)
  <2>1. <<Ack>> \in Seq(Message)
    BY DEF Ack, Message
  <2>2. QED
    BY <1>1, <2>1 DEF Link, TypeOK, LinkStates
<1>2. CASE RecvAck(s, t) \/ RecvEof(s, t)
  <2>1. Received(t, s) \in Chans
    BY <1>2, ReceivedTyped DEF RecvAck, RecvEof, Deliver
  <2>2. /\ chan' = Received(t, s)
        /\ \E state \in {"up", "dying"} : end' = [end EXCEPT ![s][t] = state]
        /\ UNCHANGED <<client, pend, asker, want, heard, now, splits>>
    BY <1>2 DEF RecvAck, RecvEof
  <2>3. end' \in [Server -> [Server -> LinkStates]]
    BY <2>2 DEF TypeOK, LinkStates
  <2>4. QED
    BY <2>1, <2>2, <2>3 DEF TypeOK, Chans
<1>3. CASE LinkFails(s, t) \/ ServerDisconnect(s, t)
  <2>1. /\ \E state \in {"dying", "delisted", "reading"} : end' = [end EXCEPT ![s][t] = state]
        /\ splits' = splits + 1 /\ UNCHANGED <<client, chan, pend, asker, want, heard, now>>
    BY <1>3 DEF LinkFails, ServerDisconnect
  <2>2. end' \in [Server -> [Server -> LinkStates]]
    BY <2>1 DEF TypeOK, LinkStates
  <2> QED BY <2>1, <2>2 DEF TypeOK
<1>4. QED
  BY <1>1, <1>2, <1>3 DEF Connects

LEMMA ReapClientTypes == ASSUME TypeOK, NEW c \in Client, ReapClient(c) PROVE TypeOK'
<1>1. Sift(pend[At[c]], {k \in DOMAIN pend[At[c]] : pend[At[c]][k].con # c}) \in Seq(Entry)
  BY Setting, Sifted DEF TypeOK
<1>2. QED
  BY <1>1 DEF ReapClient, CancelClient, TypeOK

\* What a server is told to wait for when it loses a link is a list of entries.
LEMMA LessTyped ==
  ASSUME TypeOK, NEW s \in Server, NEW t \in Server
  PROVE  LessLink(s, t) \in Seq(Entry)
<1>1. pend[s] \in Seq(Entry)
  BY DEF TypeOK
<1>2. ASSUME NEW k \in DOMAIN pend[s] PROVE [pend[s][k] EXCEPT !.num = @ - 1] \in Entry
  <2>1. pend[s][k] \in Entry
    BY <1>1, ElementOfSeq
  <2>2. QED
    BY <2>1 DEF Entry
<1>3. DOMAIN pend[s] = 1 .. Len(pend[s]) /\ Len(pend[s]) \in Nat
  BY <1>1
<1>4. QED
  BY <1>2, <1>3, IsASeq DEF LessLink

LEMMA ReapLinkTypes ==
  ASSUME TypeOK, NEW s \in Server, NEW t \in Server, ReapLink(s, t) PROVE TypeOK'
<1> DEFINE q == LessLink(s, t)
           stay == {k \in DOMAIN q : q[k].con # t /\ q[k].count < q[k].num}
           over == Sift(q, {k \in DOMAIN q \ stay : q[k].con # t})
           eof == IF end[t][s] = "down" THEN <<>> ELSE <<Eof>>
<1>1. /\ end' = [end EXCEPT ![s][t] = "down"]
      /\ pend' = [pend EXCEPT ![s] = Sift(q, stay)]
      /\ chan' = [EndsOn(chan, s, over) EXCEPT ![s][t] = @ \o eof, ![t][s] = <<>>]
      /\ heard' = EndsHeard(heard, over)
      /\ UNCHANGED <<client, asker, want, now, splits>>
  BY DEF ReapLink
<1>2. q \in Seq(Entry)
  BY LessTyped
<1> HIDE DEF q
<1>3. Sift(q, stay) \in Seq(Entry) /\ over \in Seq(Entry)
  BY <1>2, Sifted
<1> HIDE DEF stay, over
<1>4. heard \in Heards /\ chan \in Chans
  BY DEF TypeOK, Heards, Chans
<1>5. EndsOn(chan, s, over) \in Chans /\ heard' \in Heards
  BY <1>1, <1>3, <1>4, EndsTyped
<1>6. eof \in Seq(Message)
  <2>1. Eof \in Message
    BY DEF Eof, Message
  <2>2. QED
    BY <2>1
<1>7. chan' \in Chans
  <2> HIDE DEF eof
  <2> DEFINE ch == EndsOn(chan, s, over)
  <2>1. ch \in Chans /\ chan' = [ch EXCEPT ![s][t] = @ \o eof, ![t][s] = <<>>]
    BY <1>1, <1>5
  <2> HIDE DEF ch
  <2>2. ch[s][t] \o eof \in Seq(Message)
    <3>1. ch[s][t] \in Seq(Message)
      BY <2>1 DEF Chans
    <3>2. QED
      BY <1>6, <3>1
  <2> DEFINE filled == [ch EXCEPT ![s][t] = @ \o eof]
  <2>3. filled \in Chans
    BY <2>1, <2>2 DEF Chans
  <2>4. chan' = [filled EXCEPT ![t][s] = <<>>]
    BY <2>1
  <2> HIDE DEF filled
  <2>5. QED
    BY <2>3, <2>4 DEF Chans
<1>8. /\ pend' \in [Server -> Seq(Entry)]
      /\ end' \in [Server -> [Server -> LinkStates]]
  BY <1>1, <1>3 DEF TypeOK, LinkStates
<1>9. QED
  BY <1>1, <1>5, <1>7, <1>8 DEF TypeOK, Chans, Heards

LEMMA NextTypes == ASSUME TypeOK, [Next]_vars PROVE TypeOK'
<1>1. CASE UNCHANGED vars
  BY <1>1 DEF vars, TypeOK
<1>2. CASE Tick
  BY <1>2 DEF Tick, TypeOK
<1>3. ASSUME NEW c \in Client, Ask(c) PROVE TypeOK'
  BY <1>3, AskTypes, Setting DEF Ask
<1>4. ASSUME NEW c \in Client, Disconnect(c) \/ Zap(c) PROVE TypeOK'
  BY <1>4 DEF Disconnect, Zap, TypeOK
<1>5. ASSUME NEW s \in Server, NEW t \in Server,
             RecvSearch(s, t) \/ RecvResult(s, t) \/ RecvEnd(s, t)
      PROVE  TypeOK'
  BY <1>5, SearchTypes, ResultTypes, EndTypes
<1>6. ASSUME NEW s \in Server, NEW t \in Server, Receive(s, t) PROVE TypeOK'
  BY <1>5, <1>6, LinkTypes DEF Receive, Connects
<1>7. ASSUME NEW s \in Server, NEW t \in Server,
             Link(s, t) \/ LinkFails(s, t) \/ ServerDisconnect(s, t)
      PROVE  TypeOK'
  BY <1>7, LinkTypes DEF Connects
<1>8. QED
  BY <1>1, <1>2, <1>3, <1>4, <1>6, <1>7, ReapClientTypes, ReapLinkTypes DEF Next

-----------------------------------------------------------------------------
(* The entries of Remote_Search *)

\* Entry e of server s, whose links are links, in a network with clients cl, points
\* at a connection that is there and waits for an END that can come.
InOrder(cl, links, s, e) ==
  /\ IF e.con \in Client THEN cl[e.con] # "gone" /\ At[e.con] = s ELSE e.con \in links
  /\ e.count < e.num /\ e.num <= Cardinality(links \ {e.con})

Ordered(cl, links, s, q) == \A k \in DOMAIN q : InOrder(cl, links, s, q[k])

\* The inductive invariant.
SearchInv == TypeOK /\ \A s \in Server : Ordered(client, Links(s), s, pend[s])

\* Part of a list in order is in order.
LEMMA SiftOrdered ==
  ASSUME NEW q \in Seq(Entry), NEW K \in SUBSET DOMAIN q, NEW cl, NEW links, NEW s,
         \A k \in K : InOrder(cl, links, s, q[k])
  PROVE  Ordered(cl, links, s, Sift(q, K))
<1>1. \A n \in DOMAIN Sift(q, K) : \E k \in K : Sift(q, K)[n] = q[k]
  BY Sifted
<1>2. QED
  BY <1>1 DEF Ordered

\* A list stays in order while links come and clients stay.
LEMMA GrowOrdered ==
  ASSUME NEW q \in Seq(Entry), NEW cl, NEW cl2, NEW links, NEW more, NEW s,
         Ordered(cl, links, s, q), links \subseteq more, IsFiniteSet(more),
         \A c \in Client : cl[c] # "gone" => cl2[c] # "gone"
  PROVE  Ordered(cl2, more, s, q)
<1>1. SUFFICES ASSUME NEW k \in DOMAIN q PROVE InOrder(cl2, more, s, q[k])
  BY DEF Ordered
<1> DEFINE e == q[k]
<1>2. e \in Entry
  BY ElementOfSeq
<1>3. InOrder(cl, links, s, e)
  BY DEF Ordered
<1> HIDE DEF e
<1>4. /\ Cardinality(links \ {e.con}) <= Cardinality(more \ {e.con})
      /\ Cardinality(links \ {e.con}) \in Nat /\ Cardinality(more \ {e.con}) \in Nat
  <2>1. IsFiniteSet(more \ {e.con}) /\ links \ {e.con} \in SUBSET (more \ {e.con})
    <3>1. more \ {e.con} \in SUBSET more
      OBVIOUS
    <3>2. QED
      BY <3>1, FS_Subset
  <2>2. QED
    BY <2>1, FS_Subset, FS_CardinalityType
<1>5. e.num <= Cardinality(more \ {e.con})
  BY <1>2, <1>3, <1>4 DEF Entry, InOrder
<1>6. QED
  BY <1>3, <1>5 DEF InOrder, e

\* Steps that leave the lists, and lose neither clients nor links.
LEMMA RestOrdered ==
  ASSUME SearchInv, TypeOK', pend' = pend,
         \A s \in Server : Links(s) \subseteq Links(s)',
         \A c \in Client : client[c] # "gone" => client'[c] # "gone"
  PROVE  SearchInv'
<1>1. ASSUME NEW s \in Server PROVE IsFiniteSet(Links(s)')
  <2>1. Links(s)' \in SUBSET Server
    BY DEF Links
  <2>2. QED
    BY <2>1, FiniteNet, FS_Subset
<1>2. ASSUME NEW s \in Server PROVE Ordered(client', Links(s)', s, pend[s])
  <2>1. pend[s] \in Seq(Entry) /\ Ordered(client, Links(s), s, pend[s])
    BY DEF SearchInv, TypeOK
  <2>2. QED
    BY <1>1, <2>1, GrowOrdered
<1>3. QED
  BY <1>2 DEF SearchInv

LEMMA InitOrdered == ASSUME Init PROVE SearchInv
<1>1. TypeOK
  BY InitTypes
<1>2. \A s \in Server : DOMAIN pend[s] = {}
  BY DEF Init
<1>3. QED
  BY <1>1, <1>2 DEF SearchInv, Ordered

\* A new entry waits for all other links of Servers.
LEMMA InternalOrdered ==
  ASSUME SearchInv, NEW s \in Server, NEW con \in Client \cup Server, NEW i,
         NEW max, NEW local, NEW ch, SearchInternal(s, con, i, max, local, ch),
         IF con \in Client THEN client[con] # "gone" /\ At[con] = s ELSE con \in Links(s)
  PROVE  \A u \in Server : Ordered(client, Links(u), u, pend'[u])
<1> DEFINE e == [id |-> i, con |-> con, count |-> 0, num |-> Expected(s, con), ts |-> now]
           fwd == LocalHits(s, max) < max /\ ~local /\ Expected(s, con) > 0
<1>1. pend' = IF fwd THEN [pend EXCEPT ![s] = Append(@, e)] ELSE pend
  BY DEF SearchInternal
<1>2. \A u \in Server : pend[u] \in Seq(Entry) /\ Ordered(client, Links(u), u, pend[u])
  BY DEF SearchInv, TypeOK
<1>3. CASE ~fwd
  BY <1>1, <1>2, <1>3
<1>4. CASE fwd
  <2>1. 0 < Expected(s, con) /\ Expected(s, con) <= Cardinality(Links(s) \ {con})
    BY <1>4, PeersAreLinks
  <2>2. e.con = con /\ e.count = 0 /\ e.num = Expected(s, con)
    OBVIOUS
  <2>3. InOrder(client, Links(s), s, e)
    BY <2>1, <2>2 DEF InOrder
  <2> HIDE DEF e, fwd
  <2>4. Ordered(client, Links(s), s, Append(pend[s], e))
    BY <1>2, <2>3 DEF Ordered
  <2>5. \A u \in Server : pend'[u] = IF u = s THEN Append(pend[s], e) ELSE pend[u]
    BY <1>1, <1>4 DEF SearchInv, TypeOK
  <2>6. QED
    BY <1>2, <2>4, <2>5
<1>5. QED
  BY <1>3, <1>4

\* Steps of one server that leave connections as they are.
LEMMA ListOrdered ==
  ASSUME SearchInv, TypeOK', client' = client, end' = end, NEW s \in Server, NEW q,
         pend' = [pend EXCEPT ![s] = q], Ordered(client, Links(s), s, q)
  PROVE  SearchInv'
<1>1. \A u \in Server : Links(u)' = Links(u)
  BY DEF Links
<1>2. \A u \in Server : pend'[u] = IF u = s THEN q ELSE pend[u]
  BY DEF SearchInv, TypeOK
<1>3. \A u \in Server : Ordered(client, Links(u), u, pend[u])
  BY DEF SearchInv
<1>4. \A u \in Server : Ordered(client', Links(u)', u, pend'[u])
  BY <1>1, <1>2, <1>3
<1>5. QED
  BY <1>4 DEF SearchInv

LEMMA AskOrdered ==
  ASSUME SearchInv, TypeOK', NEW c \in Client, NEW i, NEW max, NEW local,
         StartSearch(c, i, max, local)
  PROVE  SearchInv'
<1>1. /\ SearchInternal(At[c], c, i, Capped(max), local, chan)
      /\ client[c] = "on" /\ client' = client /\ end' = end /\ At[c] \in Server
  BY Setting DEF StartSearch
<1>2. \A u \in Server : Ordered(client, Links(u), u, pend'[u])
  BY <1>1, InternalOrdered
<1>3. \A u \in Server : Links(u)' = Links(u)
  BY <1>1 DEF Links
<1>4. QED
  BY <1>1, <1>2, <1>3 DEF SearchInv

LEMMA SearchOrdered ==
  ASSUME SearchInv, TypeOK', NEW s \in Server, NEW t \in Server, RecvSearch(s, t)
  PROVE  SearchInv'
<1> DEFINE m == Head(chan[t][s])
<1>1. /\ client' = client /\ end' = end /\ t \in Links(s)
      /\ \/ SearchInternal(s, t, m.id, Capped(m.max), FALSE, Received(t, s))
         \/ pend' = pend
  BY DEF RecvSearch, Deliver, Links
<1> HIDE DEF m
<1>2. \A u \in Server : Links(u)' = Links(u)
  BY <1>1 DEF Links
<1>3. CASE SearchInternal(s, t, m.id, Capped(m.max), FALSE, Received(t, s))
  <2>1. t \notin Client
    BY Setting
  <2>2. \A u \in Server : Ordered(client, Links(u), u, pend'[u])
    BY <1>1, <1>3, <2>1, InternalOrdered
  <2>3. QED
    BY <1>1, <1>2, <2>2 DEF SearchInv
<1>4. CASE pend' = pend
  BY <1>1, <1>2, <1>4 DEF SearchInv
<1>5. QED
  BY <1>1, <1>3, <1>4

\* What a look-up keeps is in order.
LEMMA KeptOrdered ==
  ASSUME SearchInv, NEW s \in Server, NEW i
  PROVE  Kept(s, i) \in Seq(Entry) /\ Ordered(client, Links(s), s, Kept(s, i))
<1>1. pend[s] \in Seq(Entry) /\ Ordered(client, Links(s), s, pend[s]) /\ TypeOK
  BY DEF SearchInv, TypeOK
<1>2. \A k \in DOMAIN pend[s] \ Passed(s, i) : InOrder(client, Links(s), s, pend[s][k])
  BY <1>1 DEF Ordered
<1>3. QED
  BY <1>1, <1>2, LookUpTyped, SiftOrdered DEF Kept

LEMMA ResultOrdered ==
  ASSUME SearchInv, TypeOK', NEW s \in Server, NEW t \in Server, RecvResult(s, t)
  PROVE  SearchInv'
<1> DEFINE i == Head(chan[t][s]).id
<1>1. pend' = [pend EXCEPT ![s] = Kept(s, i)] /\ client' = client /\ end' = end
  BY DEF RecvResult
<1>2. QED
  BY <1>1, KeptOrdered, ListOrdered

LEMMA EndOrdered ==
  ASSUME SearchInv, TypeOK', NEW s \in Server, NEW t \in Server, RecvEnd(s, t)
  PROVE  SearchInv'
<1> DEFINE i == Head(chan[t][s]).id
           q == Kept(s, i)
           p == Place(q, i)
           e == [q[p] EXCEPT !.count = @ + 1]
           last == Found(q, i) /\ LastEnd(e)
           new == IF last THEN Sift(q, DOMAIN q \ {p})
                  ELSE IF Found(q, i) THEN [q EXCEPT ![p] = e] ELSE q
<1>1. pend' = [pend EXCEPT ![s] = new] /\ client' = client /\ end' = end
  BY DEF RecvEnd
<1>2. q \in Seq(Entry) /\ Ordered(client, Links(s), s, q)
  BY KeptOrdered
<1>3. Found(q, i) => p \in DOMAIN q /\ q[p] \in Entry
  BY CountedTyped DEF SearchInv
<1> HIDE DEF q, p
<1>4. ASSUME last PROVE Ordered(client, Links(s), s, new)
  <2>1. \A k \in DOMAIN q \ {p} : InOrder(client, Links(s), s, q[k])
    BY <1>2 DEF Ordered
  <2>2. Ordered(client, Links(s), s, Sift(q, DOMAIN q \ {p}))
    BY <1>2, <2>1, SiftOrdered
  <2>3. QED
    BY <1>4, <2>2
<1>5. ASSUME ~last, Found(q, i) PROVE Ordered(client, Links(s), s, new)
  <2>1. q[p] \in Entry /\ InOrder(client, Links(s), s, q[p]) /\ p \in DOMAIN q
    BY <1>2, <1>3, <1>5 DEF Ordered
  <2>2. /\ e.con = q[p].con /\ e.num = q[p].num /\ e.count = q[p].count + 1
        /\ q[p].count \in Nat /\ q[p].num \in Int /\ e.count # e.num
    BY <1>5, <2>1 DEF Entry, LastEnd
  <2>3. InOrder(client, Links(s), s, e)
    BY <2>1, <2>2 DEF InOrder
  <2> HIDE DEF e
  <2>4. Ordered(client, Links(s), s, [q EXCEPT ![p] = e])
    BY <1>2, <2>3 DEF Ordered
  <2>5. QED
    BY <1>5, <2>4
<1>6. ASSUME ~Found(q, i) PROVE Ordered(client, Links(s), s, new)
  BY <1>2, <1>6
<1>7. Ordered(client, Links(s), s, new)
  BY <1>4, <1>5, <1>6
<1> HIDE DEF new
<1>8. QED
  BY <1>1, <1>7, ListOrdered

\* Connections that come up or are marked: nothing is removed yet.
LEMMA ConnectionOrdered ==
  ASSUME SearchInv, TypeOK', NEW s \in Server, NEW t \in Server, Connects(s, t)
  PROVE  SearchInv'
<1>1. pend' = pend /\ client' = client
  BY DEF Connects, Link, RecvAck, LinkFails, RecvEof, ServerDisconnect
<1>2. CASE Link(s, t)
  <2>1. /\ end[s][t] = "down" /\ end[t][s] = "down"
        /\ \A u, v \in Server : \/ end'[u][v] = end[u][v]
                                \/ u = s /\ v = t
                                \/ u = t /\ v = s
    <3>1. end \in [Server -> [Server -> LinkStates]]
      BY DEF SearchInv, TypeOK
    <3>2. end' = [end EXCEPT ![s][t] = "up", ![t][s] = "pending"]
      BY <1>2 DEF Link
    <3>3. end[s][t] = "down" /\ end[t][s] = "down"
      BY <1>2 DEF Link
    <3>4. QED
      BY <3>1, <3>2, <3>3
  <2>2. \A u \in Server : Links(u) \subseteq Links(u)'
    BY <2>1 DEF Links
  <2>3. QED
    BY <1>1, <2>2, RestOrdered
<1>3. CASE RecvAck(s, t) \/ LinkFails(s, t) \/ RecvEof(s, t) \/ ServerDisconnect(s, t)
  <2>1. \E state \in LinkStates \ {"down", "pending"} : end' = [end EXCEPT ![s][t] = state]
    BY <1>3 DEF RecvAck, LinkFails, RecvEof, ServerDisconnect, LinkStates
  <2>2. \A u, v \in Server : \/ end'[u][v] = end[u][v]
                             \/ end'[u][v] \in LinkStates \ {"down", "pending"}
    BY <2>1 DEF SearchInv, TypeOK
  <2>3. \A u \in Server : Links(u) \subseteq Links(u)'
    BY <2>2 DEF Links
  <2>4. QED
    BY <1>1, <2>3, RestOrdered
<1>4. QED
  BY <1>2, <1>3 DEF Connects

\* cancel_search() for a client: what is left has another asker.
LEMMA ReapClientOrdered ==
  ASSUME SearchInv, TypeOK', NEW c \in Client, ReapClient(c) PROVE SearchInv'
<1> DEFINE s == At[c]
           K == {k \in DOMAIN pend[s] : pend[s][k].con # c}
<1>1. /\ client' = [client EXCEPT ![c] = "gone"] /\ end' = end
      /\ pend' = [pend EXCEPT ![s] = Sift(pend[s], K)] /\ s \in Server
  BY Setting DEF ReapClient, CancelClient
<1>2. \A u \in Server : Links(u)' = Links(u)
  BY <1>1 DEF Links
<1>3. ASSUME NEW u \in Server, NEW k \in DOMAIN pend[u], pend[u][k].con # c
      PROVE  InOrder(client', Links(u), u, pend[u][k])
  <2>1. InOrder(client, Links(u), u, pend[u][k])
    BY DEF SearchInv, Ordered
  <2>2. \A d \in Client : d # c => client'[d] = client[d]
    BY <1>1 DEF SearchInv, TypeOK
  <2>3. QED
    BY <1>3, <2>1, <2>2 DEF InOrder
<1>4. ASSUME NEW u \in Server, u # s PROVE Ordered(client', Links(u), u, pend[u])
  <2>1. ASSUME NEW k \in DOMAIN pend[u] PROVE pend[u][k].con # c
    <3>1. InOrder(client, Links(u), u, pend[u][k])
      BY DEF SearchInv, Ordered
    <3>2. QED
      BY <1>4, <3>1 DEF InOrder
  <2>2. QED
    BY <1>3, <2>1 DEF Ordered
<1>5. Ordered(client', Links(s), s, Sift(pend[s], K))
  <2>1. pend[s] \in Seq(Entry)
    BY <1>1 DEF SearchInv, TypeOK
  <2>2. \A k \in K : InOrder(client', Links(s), s, pend[s][k])
    BY <1>1, <1>3
  <2>3. QED
    BY <2>1, <2>2, SiftOrdered
<1>6. \A u \in Server : pend'[u] = IF u = s THEN Sift(pend[s], K) ELSE pend[u]
  BY <1>1 DEF SearchInv, TypeOK
<1>7. \A u \in Server : Ordered(client', Links(u)', u, pend'[u])
  BY <1>2, <1>4, <1>5, <1>6
<1>8. QED
  BY <1>7 DEF SearchInv

\* cancel_search() for a link: what is left waits for one END less, of one link less.
LEMMA ReapLinkOrdered ==
  ASSUME SearchInv, TypeOK', NEW s \in Server, NEW t \in Server, ReapLink(s, t)
  PROVE  SearchInv'
<1> DEFINE q == LessLink(s, t)
           stay == {k \in DOMAIN q : q[k].con # t /\ q[k].count < q[k].num}
<1>1. /\ end[s][t] \notin {"down", "pending"} /\ end' = [end EXCEPT ![s][t] = "down"]
      /\ pend' = [pend EXCEPT ![s] = Sift(q, stay)] /\ client' = client
  BY DEF ReapLink
<1>2. TypeOK /\ q \in Seq(Entry)
  BY LessTyped DEF SearchInv
<1>3. /\ t \in Links(s) /\ Links(s)' = Links(s) \ {t}
      /\ \A u \in Server : u # s => Links(u)' = Links(u)
  BY <1>1, <1>2 DEF Links, TypeOK
<1>4. ASSUME NEW k \in stay PROVE InOrder(client, Links(s) \ {t}, s, q[k])
  <2>1. k \in DOMAIN pend[s] /\ q[k] = [pend[s][k] EXCEPT !.num = @ - 1]
    BY DEF LessLink
  <2>2. pend[s][k] \in Entry /\ InOrder(client, Links(s), s, pend[s][k])
    <3>1. pend[s] \in Seq(Entry)
      BY <1>2 DEF TypeOK
    <3>2. pend[s][k] \in Entry
      BY <2>1, <3>1, ElementOfSeq
    <3>3. QED
      BY <2>1, <3>2 DEF SearchInv, Ordered
  <2>3. /\ q[k].con = pend[s][k].con /\ q[k].num = pend[s][k].num - 1
        /\ pend[s][k].num \in Int /\ q[k].con # t /\ q[k].count < q[k].num
    BY <2>1, <2>2 DEF Entry
  <2> DEFINE con == pend[s][k].con
  <2>4. pend[s][k].num <= Cardinality(Links(s) \ {con})
    BY <2>2 DEF InOrder
  <2> HIDE DEF q
  <2>5. /\ Cardinality((Links(s) \ {con}) \ {t}) = Cardinality(Links(s) \ {con}) - 1
        /\ Cardinality(Links(s) \ {con}) \in Nat
    <3>1. t \in Links(s) \ {con}
      BY <1>3, <2>3
    <3>2. IsFiniteSet(Links(s) \ {con}) /\ Cardinality(Links(s) \ {con}) \in Nat
      BY LinksFinite
    <3>3. QED
      BY <3>1, <3>2, FS_RemoveElement
  <2>6. (Links(s) \ {con}) \ {t} = (Links(s) \ {t}) \ {con}
    OBVIOUS
  <2>7. q[k].num <= Cardinality((Links(s) \ {t}) \ {con})
    <3> DEFINE n == pend[s][k].num
               all == Cardinality(Links(s) \ {con})
    <3>1. n \in Int /\ all \in Nat /\ n <= all
      BY <2>3, <2>4, <2>5
    <3>2. Cardinality((Links(s) \ {t}) \ {con}) = all - 1 /\ q[k].num = n - 1
      BY <2>3, <2>5, <2>6
    <3> HIDE DEF n, all
    <3>3. n - 1 <= all - 1
      BY <3>1
    <3>4. QED
      BY <3>2, <3>3
  <2>8. QED
    BY <2>2, <2>3, <2>7 DEF InOrder
<1> HIDE DEF q
<1>5. Ordered(client, Links(s) \ {t}, s, Sift(q, stay))
  BY <1>2, <1>4, SiftOrdered
<1>6. \A u \in Server : pend'[u] = IF u = s THEN Sift(q, stay) ELSE pend[u]
  BY <1>1, <1>2 DEF TypeOK
<1>7. \A u \in Server : Ordered(client, Links(u), u, pend[u])
  BY DEF SearchInv
<1>8. \A u \in Server : Ordered(client', Links(u)', u, pend'[u])
  BY <1>1, <1>3, <1>5, <1>6, <1>7
<1>9. QED
  BY <1>8 DEF SearchInv

LEMMA NextOrdered == ASSUME SearchInv, [Next]_vars PROVE SearchInv'
<1>1. TypeOK'
  BY NextTypes DEF SearchInv
<1>2. CASE UNCHANGED vars \/ Tick \/ \E c \in Client : Disconnect(c) \/ Zap(c)
  <2>1. pend' = pend /\ end' = end
    BY <1>2 DEF vars, Tick, Disconnect, Zap
  <2>2. \A c \in Client : client[c] # "gone" => client'[c] # "gone"
    BY <1>2 DEF vars, Tick, Disconnect, Zap, SearchInv, TypeOK
  <2>3. \A u \in Server : Links(u)' = Links(u)
    BY <2>1 DEF Links
  <2>4. QED
    BY <1>1, <2>1, <2>2, <2>3, RestOrdered
<1>3. ASSUME NEW c \in Client, Ask(c) PROVE SearchInv'
  BY <1>1, <1>3, AskOrdered DEF Ask
<1>4. ASSUME NEW s \in Server, NEW t \in Server, Receive(s, t) PROVE SearchInv'
  BY <1>1, <1>4, SearchOrdered, ResultOrdered, EndOrdered, ConnectionOrdered DEF Receive, Connects
<1>5. ASSUME NEW s \in Server, NEW t \in Server,
             Link(s, t) \/ LinkFails(s, t) \/ ServerDisconnect(s, t)
      PROVE  SearchInv'
  BY <1>1, <1>5, ConnectionOrdered DEF Connects
<1>6. QED
  BY <1>1, <1>2, <1>3, <1>4, <1>5, ReapClientOrdered, ReapLinkOrdered DEF Next

LEMMA AlwaysSearchInv == Spec => []SearchInv
<1>1. Init => SearchInv
  BY InitOrdered
<1>2. SearchInv /\ [Next]_vars => SearchInv'
  BY NextOrdered
<1>3. QED
  BY <1>1, <1>2, PTL DEF Spec

\* Every variable of Search keeps its type: what find_search() and cancel_search()
\* leave are lists of entries, and what they send are messages.
THEOREM TypeCorrect == Spec => []TypeOK
<1>1. SearchInv => TypeOK
  BY DEF SearchInv
<1>2. QED
  BY <1>1, AlwaysSearchInv, PTL

\* No entry of Remote_Search outlives the connection its answers go to, because
\* remove_connection() calls cancel_search() for the server the connection is at.
THEOREM NeverDangling == Spec => []NoDanglingSearch
<1>1. SearchInv => NoDanglingSearch
  BY DEF SearchInv, Ordered, InOrder, NoDanglingSearch
<1>2. QED
  BY <1>1, AlwaysSearchInv, PTL

\* Each entry waits for at least one END and for no more than there are other links that
\* have not been removed, those counted that server_disconnect() has taken out of Servers
\* (for which the assertion of remote_search_end() fails): numServers is lowered with
\* each removal, however links fail, are disconnected and come.
THEOREM AlwaysWaits == Spec => []WaitsForLinks
<1>1. SearchInv => WaitsForLinks
  BY DEF SearchInv, Ordered, InOrder, WaitsForLinks
<1>2. QED
  BY <1>1, AlwaysSearchInv, PTL

-----------------------------------------------------------------------------
(* The way of requests and answers *)

\* the ways to r
Toward(r) == CHOOSE next \in [Server -> Server] : LeadsTo(next, r)

\* Message m on the link between two servers: requests go away from the server
\* of the client who asked, answers towards it.
Routed(ask, from, to, m) ==
  m.type \in {"SEARCH", "RESULT", "END"} =>
    /\ ask[m.id] # None
    /\ LET next == Toward(At[ask[m.id]])
       IN  IF m.type = "SEARCH" THEN next[to] = from ELSE next[from] = to

\* Entry e of s: it answers the client who asked, or the link on the way to him.
Homeward(ask, s, e) ==
  /\ ask[e.id] # None
  /\ IF e.con \in Client THEN e.con = ask[e.id] ELSE Toward(At[ask[e.id]])[s] = e.con

\* Links are made where there may be links.
OnEdges == \A s, t \in Server : end[s][t] # "down" => t \in Edge[s]

AllRouted(ask, ch)   == \A s, t \in Server : \A k \in DOMAIN ch[s][t] : Routed(ask, s, t, ch[s][t][k])
AllHomeward(ask, pe) == \A s \in Server : \A k \in DOMAIN pe[s] : Homeward(ask, s, pe[s][k])

\* The inductive invariant of the network without cycles.
RoutedInv == SearchInv /\ OnEdges /\ AllRouted(asker, chan) /\ AllHomeward(asker, pend)

\* There is a way to each server.
LEMMA TowardLeads ==
  ASSUME NEW r \in Server
  PROVE  LeadsTo(Toward(r), r)
BY NoCycles DEF Toward

\* The elements of two sequences in a row are those of the two.
LEMMA ConcatElements ==
  ASSUME NEW T, NEW p \in Seq(T), NEW q \in Seq(T), NEW k \in DOMAIN (p \o q)
  PROVE  \/ k \in DOMAIN p /\ (p \o q)[k] = p[k]
         \/ k - Len(p) \in DOMAIN q /\ (p \o q)[k] = q[k - Len(p)]
<1>1. Len(p) \in Nat /\ Len(q) \in Nat /\ DOMAIN p = 1 .. Len(p) /\ DOMAIN q = 1 .. Len(q)
  OBVIOUS
<1>2. DOMAIN (p \o q) = 1 .. Len(p) + Len(q)
  OBVIOUS
<1>3. k \in 1 .. Len(p) + Len(q)
  BY <1>2
<1>4. CASE k <= Len(p)
  BY <1>1, <1>3, <1>4
<1>5. CASE ~(k <= Len(p))
  BY <1>1, <1>3, <1>5
<1> QED BY <1>4, <1>5

\* What is sent along the ways leaves all messages on their ways.
LEMMA SendRouted ==
  ASSUME NEW ask, NEW ch \in Chans, AllRouted(ask, ch), NEW s \in Server, NEW S,
         NEW msgs \in Seq(Message),
         \A t \in Server : t \in S \cap Links(s) =>
           \A k \in DOMAIN msgs : Routed(ask, s, t, msgs[k])
  PROVE  AllRouted(ask, Send(ch, s, S, msgs))
<1> DEFINE new == Send(ch, s, S, msgs)
<1>1. ASSUME NEW u \in Server, NEW t \in Server
      PROVE  \/ new[u][t] = ch[u][t]
             \/ u = s /\ t \in S \cap Links(s) /\ new[u][t] = ch[s][t] \o msgs
  BY DEF Send, Chans
<1> HIDE DEF new
<1>2. ASSUME NEW u \in Server, NEW t \in Server, NEW k \in DOMAIN new[u][t]
      PROVE  Routed(ask, u, t, new[u][t][k])
  <2>1. CASE new[u][t] = ch[u][t]
    BY <2>1, <1>2 DEF AllRouted
  <2>2. CASE u = s /\ t \in S \cap Links(s) /\ new[u][t] = ch[s][t] \o msgs
    <3>1. ch[s][t] \in Seq(Message)
      BY DEF Chans
    <3>2. \/ k \in DOMAIN ch[s][t] /\ new[u][t][k] = ch[s][t][k]
          \/ k - Len(ch[s][t]) \in DOMAIN msgs /\ new[u][t][k] = msgs[k - Len(ch[s][t])]
      BY <1>2, <2>2, <3>1, ConcatElements
    <3> QED BY <2>2, <3>2 DEF AllRouted
  <2> QED BY <1>1, <2>1, <2>2
<1> QED BY <1>2 DEF AllRouted, new

\* What is left after a message has been read.
LEMMA ReceivedRouted ==
  ASSUME TypeOK, NEW ask, AllRouted(ask, chan), NEW s \in Server, NEW t \in Server,
         chan[t][s] # <<>>
  PROVE  AllRouted(ask, Received(t, s)) /\ Routed(ask, t, s, Head(chan[t][s]))
<1>1. chan \in Chans /\ chan[t][s] \in Seq(Message)
  BY DEF TypeOK, Chans
<1> DEFINE q == chan[t][s]
           rest == Tail(q)
           new == Received(t, s)
<1>2. /\ \A u, v \in Server : new[u][v] = IF u = t /\ v = s THEN rest ELSE chan[u][v]
  BY <1>1 DEF Received, Chans
<1>3. /\ \A k \in DOMAIN rest : k + 1 \in DOMAIN q /\ rest[k] = q[k + 1]
      /\ 1 \in DOMAIN q /\ Head(q) = q[1]
  BY <1>1
<1>4. \A k \in DOMAIN q : Routed(ask, t, s, q[k])
  BY DEF AllRouted
<1> HIDE DEF q, rest, new
<1>5. ASSUME NEW u \in Server, NEW v \in Server, NEW k \in DOMAIN new[u][v]
      PROVE  Routed(ask, u, v, new[u][v][k])
  <2>1. CASE u = t /\ v = s
    BY <1>2, <1>3, <1>4, <1>5, <2>1
  <2>2. CASE ~(u = t /\ v = s)
    BY <1>2, <1>5, <2>2 DEF AllRouted
  <2> QED BY <2>1, <2>2
<1> QED BY <1>3, <1>4, <1>5 DEF AllRouted, q, new

\* The ENDs for entries that know the way.
LEMMA EndsRouted ==
  ASSUME NEW ask, NEW ch \in Chans, AllRouted(ask, ch), NEW s \in Server,
         NEW q \in Seq(Entry), \A k \in DOMAIN q : Homeward(ask, s, q[k])
  PROVE  AllRouted(ask, EndsOn(ch, s, q))
<1> DEFINE Mine(t) == Sift(q, {k \in DOMAIN q : q[k].con = t})
           Sent(t) == [k \in DOMAIN Mine(t) |-> End(Mine(t)[k].id)]
           new == EndsOn(ch, s, q)
<1>1. ASSUME NEW u \in Server, NEW t \in Server
      PROVE  new[u][t] = ch[u][t] \/ (u = s /\ new[u][t] = ch[s][t] \o Sent(t))
  <2>1. new = [ch EXCEPT ![s] = [v \in Server |->
                 IF v \in Links(s) /\ end[v][s] # "down" THEN ch[s][v] \o Sent(v) ELSE ch[s][v]]]
    BY DEF EndsOn
  <2> HIDE DEF new, Sent
  <2> QED BY <2>1 DEF Chans
<1>2. ASSUME NEW t \in Server
      PROVE  Sent(t) \in Seq(Message) /\ \A k \in DOMAIN Sent(t) : Routed(ask, s, t, Sent(t)[k])
  <2> DEFINE K == {k \in DOMAIN q : q[k].con = t}
             mine == Sift(q, K)
  <2>0. K \in SUBSET DOMAIN q /\ \A k \in K : q[k].con = t
    OBVIOUS
  <2> HIDE DEF K
  <2>1. mine \in Seq(Entry) /\ \A k \in DOMAIN mine : \E j \in DOMAIN q : mine[k] = q[j] /\ q[j].con = t
    BY <2>0, Sifted
  <2> HIDE DEF mine
  <2>2. ASSUME NEW k \in DOMAIN mine
        PROVE  End(mine[k].id) \in Message /\ Routed(ask, s, t, End(mine[k].id))
    <3>1. mine[k] \in Entry
      BY <2>1, ElementOfSeq
    <3>2. Homeward(ask, s, mine[k]) /\ mine[k].con = t /\ t \notin Client
      BY <2>1, Setting
    <3>3. End(mine[k].id).type = "END" /\ End(mine[k].id).id = mine[k].id
      BY DEF End
    <3>4. End(mine[k].id) \in Message
      BY <3>1 DEF Entry, End, Message
    <3> QED BY <3>2, <3>3, <3>4 DEF Homeward, Routed
  <2>3. DOMAIN mine = 1 .. Len(mine) /\ Len(mine) \in Nat
    BY <2>1
  <2>4. [k \in DOMAIN mine |-> End(mine[k].id)] \in Seq(Message)
    BY <2>2, <2>3, IsASeq
  <2>5. Sent(t) = [k \in DOMAIN mine |-> End(mine[k].id)]
    BY DEF mine, K
  <2> HIDE DEF Sent
  <2> QED BY <2>2, <2>4, <2>5
<1> HIDE DEF new, Sent
<1>3. ASSUME NEW u \in Server, NEW t \in Server, NEW k \in DOMAIN new[u][t]
      PROVE  Routed(ask, u, t, new[u][t][k])
  <2>1. CASE new[u][t] = ch[u][t]
    BY <1>3, <2>1 DEF AllRouted
  <2>2. CASE u = s /\ new[u][t] = ch[s][t] \o Sent(t)
    <3>1. ch[s][t] \in Seq(Message)
      BY DEF Chans
    <3>2. \/ k \in DOMAIN ch[s][t] /\ new[u][t][k] = ch[s][t][k]
          \/ k - Len(ch[s][t]) \in DOMAIN Sent(t) /\ new[u][t][k] = Sent(t)[k - Len(ch[s][t])]
      BY <1>2, <1>3, <2>2, <3>1, ConcatElements
    <3> QED BY <1>2, <2>2, <3>2 DEF AllRouted
  <2> QED BY <1>1, <2>1, <2>2
<1> QED BY <1>3 DEF AllRouted, new

\* A server's answers to a request that came from the way home, and the requests it
\* passes on, which go to all other links.
LEMMA InternalRouted ==
  ASSUME TypeOK, OnEdges, NEW ask, NEW ch \in Chans, AllRouted(ask, ch), AllHomeward(ask, pend),
         NEW s \in Server, NEW con \in Client \cup Server, NEW i \in Id, NEW max \in Nat,
         NEW local, SearchInternal(s, con, i, max, local, ch),
         ask[i] \in Client,
         IF con \in Client THEN con = ask[i] /\ s = At[con] ELSE Toward(At[ask[i]])[s] = con
  PROVE  AllRouted(ask, chan') /\ AllHomeward(ask, pend')
<1> DEFINE n == LocalHits(s, max)
           e == [id |-> i, con |-> con, count |-> 0, num |-> Expected(s, con), ts |-> now]
           fwd == n < max /\ ~local /\ Expected(s, con) > 0
           ends == IF fwd THEN <<>> ELSE <<End(i)>>
           back == IF con \in Client THEN ch ELSE Send(ch, s, {con}, Results(i, n) \o ends)
           next == Toward(At[ask[i]])
<1>1. n \in Nat /\ (n < max => max - n \in Nat)
  BY Numbers
<1>2. At[ask[i]] \in Server /\ LeadsTo(next, At[ask[i]]) /\ ask[i] # None
  BY TowardLeads, Setting
<1>3. \A t \in Server : t \in Links(s) /\ t # con => next[t] = s
  <2>1. ASSUME NEW t \in Server, t \in Links(s), t # con PROVE next[t] = s
    <3>1. t \in Edge[s]
      BY <2>1 DEF OnEdges, Links
    <3>2. next[s] # t
      BY <1>2, <2>1, <3>1 DEF LeadsTo
    <3> QED BY <1>2, <3>1, <3>2 DEF LeadsTo
  <2> QED BY <2>1
<1>4. Results(i, n) \in Seq(Message) /\ ends \in Seq(Message)
  BY <1>1, ResultsTyped
<1>5. con \in Server \ Client => \A t \in Server : t \in {con} \cap Links(s) =>
        \A k \in DOMAIN (Results(i, n) \o ends) : Routed(ask, s, t, (Results(i, n) \o ends)[k])
  <2> SUFFICES ASSUME con \in Server \ Client, NEW k \in DOMAIN (Results(i, n) \o ends)
               PROVE  Routed(ask, s, con, (Results(i, n) \o ends)[k])
    OBVIOUS
  <2>1. \/ k \in DOMAIN Results(i, n) /\ (Results(i, n) \o ends)[k] = Results(i, n)[k]
        \/ /\ k - Len(Results(i, n)) \in DOMAIN ends
           /\ (Results(i, n) \o ends)[k] = ends[k - Len(Results(i, n))]
    BY <1>4, ConcatElements
  <2>2. \A j \in DOMAIN Results(i, n) : Results(i, n)[j] = [type |-> "RESULT", id |-> i]
    BY DEF Results
  <2>3. \A j \in DOMAIN ends : ends[j] = [type |-> "END", id |-> i]
    BY DEF End
  <2>4. (Results(i, n) \o ends)[k] \in {[type |-> "RESULT", id |-> i], [type |-> "END", id |-> i]}
    BY <2>1, <2>2, <2>3
  <2> QED BY <1>2, <2>4 DEF Routed
<1>6. back \in Chans /\ AllRouted(ask, back)
  <2>1. Results(i, n) \o ends \in Seq(Message)
    BY <1>4
  <2> HIDE DEF ends, n
  <2>2. CASE con \in Client
    BY <2>2
  <2>3. CASE con \notin Client
    BY <1>5, <2>1, <2>3, SendTyped, SendRouted
  <2> QED BY <2>2, <2>3
<1>7. pend' = IF fwd THEN [pend EXCEPT ![s] = Append(@, e)] ELSE pend
  BY DEF SearchInternal
<1>8. chan' = IF fwd THEN Send(back, s, Peers(s, con), <<Request(i, max - n)>>) ELSE back
  BY DEF SearchInternal
<1>9. Homeward(ask, s, e)
  BY <1>2 DEF Homeward
<1> HIDE DEF n, e, back, next
<1>10. fwd => <<Request(i, max - n)>> \in Seq(Message)
  BY <1>1 DEF Request, Message
<1>11. AllRouted(ask, chan')
  <2>1. CASE fwd
    <3> DEFINE req == <<Request(i, max - n)>>
    <3>0. Peers(s, con) \subseteq Links(s) \ {con}
      BY PeersAreLinks
    <3>1. \A t \in Server : t \in Peers(s, con) \cap Links(s) =>
            \A k \in DOMAIN req : Routed(ask, s, t, req[k])
      BY <1>2, <1>3, <3>0 DEF Routed, Request, next
    <3> HIDE DEF req
    <3>2. req \in Seq(Message)
      BY <1>10, <2>1 DEF req
    <3>3. AllRouted(ask, Send(back, s, Peers(s, con), req))
      BY <1>6, <3>1, <3>2, SendRouted
    <3> QED BY <1>8, <2>1, <3>3 DEF req
  <2>2. CASE ~fwd
    BY <1>6, <1>8, <2>2
  <2> QED BY <2>1, <2>2
<1>12. AllHomeward(ask, pend')
  <2>1. CASE fwd
    <3>1. \A u \in Server : pend'[u] = IF u = s THEN Append(pend[s], e) ELSE pend[u]
      BY <1>7, <2>1 DEF TypeOK
    <3>2. pend[s] \in Seq(Entry)
      BY DEF TypeOK
    <3>3. \A k \in DOMAIN Append(pend[s], e) :
            (k \in DOMAIN pend[s] /\ Append(pend[s], e)[k] = pend[s][k]) \/ Append(pend[s], e)[k] = e
      BY <3>2
    <3> QED BY <1>9, <3>1, <3>3 DEF AllHomeward
  <2>2. CASE ~fwd
    BY <1>7, <2>2
  <2> QED BY <2>1, <2>2
<1> QED BY <1>11, <1>12

LEMMA InitRouted == ASSUME Init PROVE RoutedInv
<1>1. SearchInv
  BY InitOrdered
<1>2. OnEdges
  BY Setting DEF Init, OnEdges
<1>3. AllRouted(asker, chan) /\ AllHomeward(asker, pend)
  BY DEF Init, AllRouted, AllHomeward
<1> QED BY <1>1, <1>2, <1>3 DEF RoutedInv

\* Part of a list of entries that know the way.
LEMMA SiftHomeward ==
  ASSUME NEW ask, NEW s, NEW q \in Seq(Entry), NEW K \in SUBSET DOMAIN q,
         \A k \in DOMAIN q : Homeward(ask, s, q[k])
  PROVE  \A k \in DOMAIN Sift(q, K) : Homeward(ask, s, Sift(q, K)[k])
<1>1. \A n \in DOMAIN Sift(q, K) : \E k \in K : Sift(q, K)[n] = q[k]
  BY Sifted
<1> QED BY <1>1

LEMMA LookUpHomeward ==
  ASSUME RoutedInv, NEW s \in Server, NEW i
  PROVE  /\ \A k \in DOMAIN Kept(s, i) : Homeward(asker, s, Kept(s, i)[k])
         /\ \A k \in DOMAIN Dropped(s, i) : Homeward(asker, s, Dropped(s, i)[k])
<1>1. TypeOK /\ pend[s] \in Seq(Entry) /\ \A k \in DOMAIN pend[s] : Homeward(asker, s, pend[s][k])
  BY DEF RoutedInv, SearchInv, TypeOK, AllHomeward
<1>2. Passed(s, i) \in SUBSET DOMAIN pend[s] /\ DOMAIN pend[s] \ Passed(s, i) \in SUBSET DOMAIN pend[s]
  BY <1>1, LookUpTyped
<1> QED BY <1>1, <1>2, SiftHomeward DEF Kept, Dropped

\* A server's list is replaced by one whose entries know the way.
LEMMA ListHomeward ==
  ASSUME TypeOK, NEW ask, AllHomeward(ask, pend), NEW s \in Server, NEW q,
         \A k \in DOMAIN q : Homeward(ask, s, q[k]), pend' = [pend EXCEPT ![s] = q]
  PROVE  AllHomeward(ask, pend')
<1>1. \A u \in Server : pend'[u] = IF u = s THEN q ELSE pend[u]
  BY DEF TypeOK
<1> QED BY <1>1 DEF AllHomeward

\* A client asks: nothing is on its way yet for a new id.
LEMMA AskRouted ==
  ASSUME RoutedInv, SearchInv', NEW c \in Client, NEW i \in Id, NEW max \in Nat, NEW local,
         StartSearch(c, i, max, local)
  PROVE  RoutedInv'
<1>1. TypeOK /\ OnEdges /\ AllRouted(asker, chan) /\ AllHomeward(asker, pend) /\ chan \in Chans
  BY DEF RoutedInv, SearchInv, TypeOK, Chans
<1>3. asker' = [asker EXCEPT ![i] = c] /\ asker[i] = None
  BY DEF StartSearch
<1>4. \A j \in Id : asker[j] # None => asker'[j] = asker[j]
  BY <1>1, <1>3 DEF TypeOK
<1>5. AllRouted(asker', chan)
  <2> SUFFICES ASSUME NEW s \in Server, NEW t \in Server, NEW k \in DOMAIN chan[s][t]
               PROVE  Routed(asker', s, t, chan[s][t][k])
    BY DEF AllRouted
  <2>1. Routed(asker, s, t, chan[s][t][k])
    BY <1>1 DEF AllRouted
  <2>2. chan[s][t][k] \in Message
    <3>1. chan[s][t] \in Seq(Message)
      BY <1>1 DEF Chans
    <3> QED BY <3>1, ElementOfSeq
  <2>3. chan[s][t][k].type \in {"SEARCH", "RESULT", "END"} => chan[s][t][k].id \in Id
    BY <2>2 DEF Message
  <2> QED BY <1>4, <2>1, <2>3 DEF Routed
<1>6. AllHomeward(asker', pend)
  <2> SUFFICES ASSUME NEW s \in Server, NEW k \in DOMAIN pend[s]
               PROVE  Homeward(asker', s, pend[s][k])
    BY DEF AllHomeward
  <2>1. Homeward(asker, s, pend[s][k])
    BY <1>1 DEF AllHomeward
  <2>2. pend[s][k] \in Entry
    <3>1. pend[s] \in Seq(Entry)
      BY <1>1 DEF TypeOK
    <3> QED BY <3>1, ElementOfSeq
  <2> QED BY <1>4, <2>1, <2>2 DEF Homeward, Entry
<1>7. /\ SearchInternal(At[c], c, i, Capped(max), local, chan)
      /\ At[c] \in Server /\ Capped(max) \in Nat /\ end' = end /\ asker'[i] = c
  BY <1>1, <1>3, Numbers, Setting DEF StartSearch, TypeOK
<1> DEFINE ask == asker'
<1>8. AllRouted(ask, chan) /\ AllHomeward(ask, pend) /\ ask[i] = c
  BY <1>5, <1>6, <1>7
<1> HIDE DEF ask
<1>9. AllRouted(ask, chan') /\ AllHomeward(ask, pend')
  BY <1>1, <1>7, <1>8, InternalRouted
<1>10. OnEdges'
  BY <1>1, <1>7 DEF OnEdges
<1> QED BY <1>9, <1>10 DEF RoutedInv, ask

LEMMA SearchRouted ==
  ASSUME RoutedInv, SearchInv', NEW s \in Server, NEW t \in Server, RecvSearch(s, t)
  PROVE  RoutedInv'
<1> DEFINE m == Head(chan[t][s])
           ch == Received(t, s)
<1>1. /\ TypeOK /\ OnEdges /\ AllRouted(asker, chan) /\ AllHomeward(asker, pend)
      /\ chan[t][s] # <<>> /\ m.type = "SEARCH"
  BY DEF RoutedInv, SearchInv, RecvSearch, Deliver
<1>2. ch \in Chans /\ AllRouted(asker, ch) /\ m \in Message /\ Routed(asker, t, s, m)
  BY <1>1, ReceivedTyped, ReceivedRouted
<1>3. m.id \in Id /\ m.max \in Nat
  BY <1>1, <1>2 DEF Message
<1>4. /\ asker[m.id] # None /\ asker[m.id] \in Client
      /\ Toward(At[asker[m.id]])[s] = t
  BY <1>1, <1>2, <1>3 DEF Routed, TypeOK
<1>5. UNCHANGED <<end, asker>>
  BY DEF RecvSearch
<1>6. \/ SearchInternal(s, t, m.id, Capped(m.max), FALSE, ch)
      \/ chan' = Send(ch, s, {t}, <<End(m.id)>>) /\ pend' = pend
  BY DEF RecvSearch
<1> HIDE DEF m, ch
<1>7. ASSUME SearchInternal(s, t, m.id, Capped(m.max), FALSE, ch)
      PROVE  AllRouted(asker, chan') /\ AllHomeward(asker, pend')
  <2>1. t \notin Client /\ Capped(m.max) \in Nat
    BY <1>3, Numbers, Setting
  <2> QED BY <1>1, <1>2, <1>3, <1>4, <1>7, <2>1, InternalRouted
<1>8. ASSUME chan' = Send(ch, s, {t}, <<End(m.id)>>), pend' = pend
      PROVE  AllRouted(asker, chan') /\ AllHomeward(asker, pend')
  <2> DEFINE msgs == <<End(m.id)>>
  <2>1. msgs \in Seq(Message)
    BY <1>3, ResultsTyped
  <2>2. \A k \in DOMAIN msgs : Routed(asker, s, t, msgs[k])
    BY <1>4 DEF Routed, End
  <2> HIDE DEF msgs
  <2>3. AllRouted(asker, Send(ch, s, {t}, msgs))
    BY <1>2, <2>1, <2>2, SendRouted
  <2> QED BY <1>1, <1>8, <2>3 DEF msgs
<1>9. AllRouted(asker, chan') /\ AllHomeward(asker, pend')
  BY <1>6, <1>7, <1>8
<1> QED BY <1>1, <1>5, <1>9 DEF RoutedInv, OnEdges

LEMMA ResultRouted ==
  ASSUME RoutedInv, SearchInv', NEW s \in Server, NEW t \in Server, RecvResult(s, t)
  PROVE  RoutedInv'
<1> DEFINE i == Head(chan[t][s]).id
           q == Kept(s, i)
           con == q[Place(q, i)].con
           look == LookUp(s, t, i)
<1>1. /\ TypeOK /\ OnEdges /\ AllRouted(asker, chan) /\ AllHomeward(asker, pend)
      /\ chan[t][s] # <<>> /\ Head(chan[t][s]).type = "RESULT"
  BY DEF RoutedInv, SearchInv, RecvResult, Deliver
<1>2. /\ Received(t, s) \in Chans /\ AllRouted(asker, Received(t, s))
      /\ Routed(asker, t, s, Head(chan[t][s])) /\ Head(chan[t][s]) \in Message
  BY <1>1, ReceivedTyped, ReceivedRouted
<1>3. i \in Id
  BY <1>1, <1>2 DEF Message
<1>4. /\ pend' = [pend EXCEPT ![s] = q]
      /\ chan' = IF Found(q, i) /\ con \in Server THEN Send(look, s, {con}, Results(i, 1)) ELSE look
      /\ UNCHANGED <<end, asker>>
  BY DEF RecvResult
<1>5. /\ q \in Seq(Entry) /\ Dropped(s, i) \in Seq(Entry)
      /\ \A k \in DOMAIN q : Homeward(asker, s, q[k])
      /\ \A k \in DOMAIN Dropped(s, i) : Homeward(asker, s, Dropped(s, i)[k])
  BY <1>1, LookUpTyped, LookUpHomeward
<1>6. look \in Chans /\ AllRouted(asker, look)
  <2>1. heard \in Heards
    BY <1>1 DEF TypeOK, Heards
  <2> QED BY <1>2, <1>5, <2>1, EndsTyped, EndsRouted DEF LookUp
<1>7. Found(q, i) => /\ Place(q, i) \in DOMAIN q /\ q[Place(q, i)].id = i
  <2>1. Found(q, i) => Place(q, i) \in DOMAIN q
    BY <1>1, CountedTyped
  <2>2. Place(q, i) <= Len(q) => q[Place(q, i)].id = i
    BY <1>5, PlaceInList
  <2> QED BY <2>1, <2>2 DEF Found
<1> DEFINE p == Place(q, i)
<1> HIDE DEF i, q, look, p
<1>8. AllHomeward(asker, pend')
  BY <1>1, <1>4, <1>5, ListHomeward
<1>9. AllRouted(asker, chan')
  <2>1. CASE Found(q, i) /\ con \in Server
    <3>1. Homeward(asker, s, q[p]) /\ q[p].id = i /\ q[p].con = con /\ con \notin Client
      BY <1>5, <1>7, <2>1, Setting DEF p
    <3> HIDE DEF con
    <3>2. \A k \in DOMAIN Results(i, 1) : Routed(asker, s, con, Results(i, 1)[k])
      BY <3>1 DEF Results, Routed, Homeward
    <3>3. Results(i, 1) \in Seq(Message)
      BY <1>3, ResultsTyped
    <3>4. AllRouted(asker, Send(look, s, {con}, Results(i, 1)))
      BY <1>6, <3>2, <3>3, SendRouted
    <3> QED BY <1>4, <2>1, <3>4
  <2>2. CASE ~(Found(q, i) /\ con \in Server)
    BY <1>4, <1>6, <2>2
  <2> QED BY <2>1, <2>2
<1> QED BY <1>1, <1>4, <1>8, <1>9 DEF RoutedInv, OnEdges

LEMMA EndRouted ==
  ASSUME RoutedInv, SearchInv', NEW s \in Server, NEW t \in Server, RecvEnd(s, t)
  PROVE  RoutedInv'
<1> DEFINE i == Head(chan[t][s]).id
           q == Kept(s, i)
           p == Place(q, i)
           e == [q[p] EXCEPT !.count = @ + 1]
           last == Found(q, i) /\ LastEnd(e)
           more == IF last THEN <<e>> ELSE <<>>
           over == Dropped(s, i) \o more
           new == IF last THEN Sift(q, DOMAIN q \ {p})
                  ELSE IF Found(q, i) THEN [q EXCEPT ![p] = e] ELSE q
<1>1. /\ TypeOK /\ OnEdges /\ AllRouted(asker, chan) /\ AllHomeward(asker, pend)
      /\ chan[t][s] # <<>>
  BY DEF RoutedInv, SearchInv, RecvEnd, Deliver
<1>2. Received(t, s) \in Chans /\ AllRouted(asker, Received(t, s))
  BY <1>1, ReceivedTyped, ReceivedRouted
<1>3. /\ pend' = [pend EXCEPT ![s] = new] /\ chan' = EndsOn(Received(t, s), s, over)
      /\ UNCHANGED <<end, asker>>
  BY DEF RecvEnd
<1>4. /\ q \in Seq(Entry) /\ Dropped(s, i) \in Seq(Entry)
      /\ \A k \in DOMAIN q : Homeward(asker, s, q[k])
      /\ \A k \in DOMAIN Dropped(s, i) : Homeward(asker, s, Dropped(s, i)[k])
  BY <1>1, LookUpTyped, LookUpHomeward
<1>5. Found(q, i) => p \in DOMAIN q /\ q[p] \in Entry /\ e \in Entry
  BY <1>1, CountedTyped
<1> HIDE DEF i, q, p
<1>6. Found(q, i) => Homeward(asker, s, e)
  <2>1. Found(q, i) => e.id = q[p].id /\ e.con = q[p].con
    BY <1>5 DEF Entry
  <2> HIDE DEF e
  <2> QED BY <1>4, <1>5, <2>1 DEF Homeward
<1> HIDE DEF e
<1>7. over \in Seq(Entry) /\ \A k \in DOMAIN over : Homeward(asker, s, over[k])
  <2> DEFINE d == Dropped(s, i)
  <2>1. more \in Seq(Entry) /\ \A k \in DOMAIN more : more[k] = e /\ last
    BY <1>5
  <2> HIDE DEF more, d
  <2>2. d \in Seq(Entry)
    BY <1>4 DEF d
  <2>3. \A k \in DOMAIN (d \o more) : Homeward(asker, s, (d \o more)[k])
    <3> SUFFICES ASSUME NEW k \in DOMAIN (d \o more)
                 PROVE  Homeward(asker, s, (d \o more)[k])
      OBVIOUS
    <3>1. \/ k \in DOMAIN d /\ (d \o more)[k] = d[k]
          \/ k - Len(d) \in DOMAIN more /\ (d \o more)[k] = more[k - Len(d)]
      BY <2>1, <2>2, ConcatElements
    <3> QED BY <1>4, <1>6, <2>1, <3>1 DEF d
  <2> QED BY <2>1, <2>2, <2>3 DEF d
<1>8. \A k \in DOMAIN new : Homeward(asker, s, new[k])
  <2>1. \A k \in DOMAIN Sift(q, DOMAIN q \ {p}) : Homeward(asker, s, Sift(q, DOMAIN q \ {p})[k])
    BY <1>4, SiftHomeward
  <2>2. Found(q, i) => \A k \in DOMAIN [q EXCEPT ![p] = e] : Homeward(asker, s, [q EXCEPT ![p] = e][k])
    BY <1>4, <1>6
  <2> QED BY <1>4, <2>1, <2>2
<1> HIDE DEF new, over
<1>9. AllHomeward(asker, pend')
  BY <1>1, <1>3, <1>8, ListHomeward
<1>10. AllRouted(asker, chan')
  BY <1>2, <1>3, <1>7, EndsRouted
<1> QED BY <1>1, <1>3, <1>9, <1>10 DEF RoutedInv, OnEdges

\* Links and clients come and go.
LEMMA ConnectionRouted ==
  ASSUME RoutedInv, SearchInv', NEW s \in Server, NEW t \in Server, Connects(s, t)
  PROVE  RoutedInv'
<1>1. /\ TypeOK /\ OnEdges /\ AllRouted(asker, chan) /\ AllHomeward(asker, pend)
      /\ end \in [Server -> [Server -> LinkStates]] /\ chan \in Chans
  BY DEF RoutedInv, SearchInv, TypeOK, Chans
<1>2. UNCHANGED <<asker, pend>>
  BY DEF Connects, Link, RecvAck, LinkFails, RecvEof, ServerDisconnect
<1>3. CASE Link(s, t)
  <2>1. /\ t \in Edge[s] /\ s \in Edge[t] /\ chan' = [chan EXCEPT ![s][t] = <<Ack>>]
        /\ end' = [end EXCEPT ![s][t] = "up", ![t][s] = "pending"]
    BY <1>3, Setting DEF Link
  <2>2. \A u, v \in Server : \/ end'[u][v] = end[u][v]
                             \/ u = s /\ v = t
                             \/ u = t /\ v = s
    BY <1>1, <2>1
  <2>3. OnEdges'
    BY <1>1, <2>1, <2>2 DEF OnEdges
  <2>4. \A u, v \in Server : chan'[u][v] = chan[u][v] \/ chan'[u][v] = <<Ack>>
    BY <1>1, <2>1 DEF Chans
  <2>5. \A u, v \in Server, k \in DOMAIN <<Ack>> : Routed(asker, u, v, <<Ack>>[k])
    BY DEF Routed, Ack
  <2> DEFINE ack == <<Ack>>
  <2> HIDE DEF ack
  <2>6. \A u, v \in Server : \A k \in DOMAIN chan'[u][v] : Routed(asker, u, v, chan'[u][v][k])
    BY <1>1, <2>4, <2>5 DEF AllRouted, ack
  <2> QED BY <1>1, <1>2, <2>3, <2>6 DEF RoutedInv, AllRouted
<1>4. CASE RecvAck(s, t) \/ LinkFails(s, t) \/ RecvEof(s, t) \/ ServerDisconnect(s, t)
  <2>1. \E state \in LinkStates : end' = [end EXCEPT ![s][t] = state] /\ end[s][t] # "down"
    BY <1>4 DEF RecvAck, LinkFails, RecvEof, ServerDisconnect, LinkStates
  <2>2. OnEdges'
    BY <1>1, <2>1 DEF OnEdges
  <2>3. chan' = chan \/ (chan[t][s] # <<>> /\ chan' = Received(t, s))
    BY <1>4 DEF RecvAck, LinkFails, RecvEof, ServerDisconnect, Deliver
  <2>4. AllRouted(asker, chan')
    BY <1>1, <2>3, ReceivedRouted
  <2> QED BY <1>1, <1>2, <2>2, <2>4 DEF RoutedInv
<1> QED BY <1>3, <1>4 DEF Connects

LEMMA ReapClientRouted ==
  ASSUME RoutedInv, SearchInv', NEW c \in Client, ReapClient(c) PROVE RoutedInv'
<1> DEFINE s == At[c]
           q == pend[s]
           K == {k \in DOMAIN q : q[k].con # c}
<1>1. /\ TypeOK /\ OnEdges /\ AllRouted(asker, chan) /\ AllHomeward(asker, pend)
      /\ s \in Server /\ q \in Seq(Entry) /\ K \in SUBSET DOMAIN q
  BY Setting DEF RoutedInv, SearchInv, TypeOK
<1>2. pend' = [pend EXCEPT ![s] = Sift(q, K)] /\ UNCHANGED <<end, chan, asker>>
  BY DEF ReapClient, CancelClient
<1>3. \A k \in DOMAIN q : Homeward(asker, s, q[k])
  BY <1>1 DEF AllHomeward
<1> HIDE DEF s, q, K
<1>4. \A k \in DOMAIN Sift(q, K) : Homeward(asker, s, Sift(q, K)[k])
  BY <1>1, <1>3, SiftHomeward
<1>5. AllHomeward(asker, pend')
  BY <1>1, <1>2, <1>4, ListHomeward
<1> QED BY <1>1, <1>2, <1>5 DEF RoutedInv, OnEdges

LEMMA ReapLinkRouted ==
  ASSUME RoutedInv, SearchInv', NEW s \in Server, NEW t \in Server, ReapLink(s, t)
  PROVE  RoutedInv'
<1> DEFINE q == LessLink(s, t)
           stay == {k \in DOMAIN q : q[k].con # t /\ q[k].count < q[k].num}
           out == {k \in DOMAIN q \ stay : q[k].con # t}
           over == Sift(q, out)
           eof == IF end[t][s] = "down" THEN <<>> ELSE <<Eof>>
           ch == EndsOn(chan, s, over)
<1>1. /\ TypeOK /\ OnEdges /\ AllRouted(asker, chan) /\ AllHomeward(asker, pend)
      /\ chan \in Chans /\ heard \in Heards /\ pend[s] \in Seq(Entry)
      /\ end \in [Server -> [Server -> LinkStates]]
  BY DEF RoutedInv, SearchInv, TypeOK, Chans, Heards
<1>2. /\ end' = [end EXCEPT ![s][t] = "down"] /\ asker' = asker
      /\ pend' = [pend EXCEPT ![s] = Sift(q, stay)]
      /\ chan' = [ch EXCEPT ![s][t] = @ \o eof, ![t][s] = <<>>]
  BY DEF ReapLink
<1>3. q \in Seq(Entry)
  BY <1>1, LessTyped
<1>4. ASSUME NEW k \in DOMAIN q PROVE Homeward(asker, s, q[k])
  <2>1. k \in DOMAIN pend[s] /\ q[k] = [pend[s][k] EXCEPT !.num = @ - 1]
    BY DEF LessLink
  <2>2. pend[s][k] \in Entry /\ Homeward(asker, s, pend[s][k])
    BY <1>1, <2>1, ElementOfSeq DEF AllHomeward
  <2>3. q[k].id = pend[s][k].id /\ q[k].con = pend[s][k].con
    BY <2>1, <2>2 DEF Entry
  <2> QED BY <2>2, <2>3 DEF Homeward
<1>5. stay \in SUBSET DOMAIN q /\ out \in SUBSET DOMAIN q
  OBVIOUS
<1>6. \A k \in DOMAIN eof : eof[k] = Eof
  OBVIOUS
<1>7. eof \in Seq(Message)
  <2>1. Eof \in Message
    BY DEF Eof, Message
  <2> QED BY <2>1
<1> HIDE DEF q, stay, out, eof
<1>8. AllHomeward(asker, pend')
  <2>1. \A k \in DOMAIN Sift(q, stay) : Homeward(asker, s, Sift(q, stay)[k])
    BY <1>3, <1>4, <1>5, SiftHomeward
  <2> QED BY <1>1, <1>2, <2>1, ListHomeward
<1>9. ch \in Chans /\ AllRouted(asker, ch)
  <2>1. over \in Seq(Entry) /\ \A k \in DOMAIN over : Homeward(asker, s, over[k])
    BY <1>3, <1>4, <1>5, Sifted, SiftHomeward
  <2> HIDE DEF over
  <2> QED BY <1>1, <2>1, EndsTyped, EndsRouted
<1> HIDE DEF ch
<1>10. ASSUME NEW u \in Server, NEW v \in Server, NEW k \in DOMAIN chan'[u][v]
       PROVE  Routed(asker, u, v, chan'[u][v][k])
  <2> DEFINE filled == [ch EXCEPT ![s][t] = @ \o eof]
  <2>1. chan' = [filled EXCEPT ![t][s] = <<>>]
    BY <1>2
  <2>2. filled \in [Server -> [Server -> Seq(Message)]]
    <3>1. ch[s][t] \in Seq(Message)
      BY <1>9 DEF Chans
    <3>2. ch[s][t] \o eof \in Seq(Message)
      BY <1>7, <3>1
    <3> QED BY <1>9, <3>2 DEF Chans
  <2>3. \/ filled[u][v] = ch[u][v]
        \/ u = s /\ v = t /\ filled[u][v] = ch[s][t] \o eof
    BY <1>9 DEF Chans
  <2> HIDE DEF filled
  <2>4. chan'[u][v] = <<>> \/ chan'[u][v] = filled[u][v]
    BY <2>1, <2>2
  <2>5. chan'[u][v] = filled[u][v]
    BY <1>10, <2>4
  <2>6. CASE filled[u][v] = ch[u][v]
    BY <1>9, <1>10, <2>5, <2>6 DEF AllRouted
  <2>7. CASE u = s /\ v = t /\ filled[u][v] = ch[s][t] \o eof
    <3>1. ch[s][t] \in Seq(Message)
      BY <1>9 DEF Chans
    <3>2. \/ k \in DOMAIN ch[s][t] /\ chan'[u][v][k] = ch[s][t][k]
          \/ k - Len(ch[s][t]) \in DOMAIN eof /\ chan'[u][v][k] = eof[k - Len(ch[s][t])]
      BY <1>7, <1>10, <2>5, <2>7, <3>1, ConcatElements
    <3>3. Routed(asker, s, t, Eof)
      BY DEF Routed, Eof
    <3> QED BY <1>6, <1>9, <2>7, <3>2, <3>3 DEF AllRouted
  <2> QED BY <2>3, <2>6, <2>7
<1>11. OnEdges'
  <2>1. \A u, v \in Server : end'[u][v] = end[u][v] \/ end'[u][v] = "down"
    BY <1>1, <1>2
  <2> QED BY <1>1, <2>1 DEF OnEdges
<1>12. AllRouted(asker, chan')
  BY <1>10 DEF AllRouted
<1> QED BY <1>2, <1>8, <1>11, <1>12 DEF RoutedInv

LEMMA NextRouted == ASSUME RoutedInv, [Next]_vars PROVE RoutedInv'
<1>1. SearchInv'
  BY NextOrdered DEF RoutedInv
<1>2. CASE UNCHANGED vars \/ Tick \/ \E c \in Client : Disconnect(c) \/ Zap(c)
  <2>1. UNCHANGED <<end, chan, pend, asker>>
    BY <1>2 DEF vars, Tick, Disconnect, Zap
  <2> QED BY <1>1, <2>1 DEF RoutedInv, OnEdges
<1>3. ASSUME NEW c \in Client, Ask(c) PROVE RoutedInv'
  BY <1>1, <1>3, AskRouted, Setting DEF Ask
<1>4. ASSUME NEW s \in Server, NEW t \in Server, Receive(s, t) PROVE RoutedInv'
  BY <1>1, <1>4, SearchRouted, ResultRouted, EndRouted, ConnectionRouted DEF Receive, Connects
<1>5. ASSUME NEW s \in Server, NEW t \in Server,
             Link(s, t) \/ LinkFails(s, t) \/ ServerDisconnect(s, t)
      PROVE  RoutedInv'
  BY <1>1, <1>5, ConnectionRouted DEF Connects
<1> QED
  BY <1>1, <1>2, <1>3, <1>4, <1>5, ReapClientRouted, ReapLinkRouted DEF Next

LEMMA AlwaysRouted == Spec => []RoutedInv
<1>1. Init => RoutedInv
  BY InitRouted
<1>2. RoutedInv /\ [Next]_vars => RoutedInv'
  BY NextRouted
<1> QED BY <1>1, <1>2, PTL DEF Spec

\* remote_search_result() never passes a hit, nor remote_search_end() an END, back to
\* the link it came from: in a network without cycles answers go only where the request
\* came from.
THEOREM NeverEchoes == Spec => []NoEcho
<1>1. ASSUME RoutedInv PROVE NoEcho
  <2> SUFFICES ASSUME NEW s \in Server, NEW t \in Server, NEW j \in DOMAIN chan[t][s],
                      chan[t][s][j].type \in {"RESULT", "END"},
                      NEW k \in DOMAIN pend[s], pend[s][k].id = chan[t][s][j].id,
                      pend[s][k].con = t
               PROVE  FALSE
    BY DEF NoEcho
  <2> DEFINE m == chan[t][s][j]
             next == Toward(At[asker[m.id]])
  <2>1. /\ TypeOK /\ OnEdges /\ Routed(asker, t, s, m) /\ Homeward(asker, s, pend[s][k])
        /\ InOrder(client, Links(s), s, pend[s][k])
    BY <1>1 DEF RoutedInv, SearchInv, Ordered, AllRouted, AllHomeward
  <2>2. t \notin Client
    BY Setting
  <2>3. next[t] = s /\ next[s] = t /\ asker[m.id] # None
    BY <2>1, <2>2 DEF Routed, Homeward
  <2>4. t \in Edge[s]
    BY <2>1, <2>2 DEF InOrder, OnEdges, Links
  <2>5. At[asker[m.id]] \in Server
    <3>1. chan[t][s] \in Seq(Message)
      BY <2>1 DEF TypeOK
    <3>2. m \in Message
      BY <3>1, ElementOfSeq
    <3>3. m.id \in Id
      BY <3>2 DEF Message
    <3> QED BY <2>1, <2>3, <3>3, Setting DEF TypeOK
  <2>6. LeadsTo(next, At[asker[m.id]])
    BY <2>5, TowardLeads
  <2> QED BY <2>3, <2>4, <2>6 DEF LeadsTo
<1> QED BY <1>1, AlwaysRouted, PTL

-----------------------------------------------------------------------------
(* What the clients are told *)

\* At most one entry of a list answers a client for an id.
Once(q) ==
  \A j, k \in DOMAIN q :
    (q[j].id = q[k].id /\ q[j].con \in Client /\ q[k].con \in Client) => j = k

\* A search ends once, and then no entry is left that could tell the client more;
\* nothing is heard of an id that is not in use.
HeardOnce(ask, h, pe) ==
  \A i \in Id :
    /\ h[i].ends \in {0, 1}
    /\ ask[i] = None => h[i].hits = 0 /\ h[i].ends = 0
    /\ h[i].ends = 1 => \A s \in Server : \A k \in DOMAIN pe[s] :
                          ~(pe[s][k].id = i /\ pe[s][k].con \in Client)

OnceInv == (\A s \in Server : Once(pend[s])) /\ HeardOnce(asker, heard, pend)

\* The invariant that the refinement of SearchService needs.
ServiceInv == RoutedInv /\ OnceInv

\* The state of search i that SearchService speaks of, and what a step does to it.
Seen(i) == [status |-> Status(i), hits |-> heard[i].hits, ends |-> heard[i].ends]
Serving == \A i \in Id : Seen(i)' = Seen(i) \/ Service!Moves(Seen(i), Seen(i)')

\* Different places of a subsequence are different places of the sequence.
LEMMA SiftApart ==
  ASSUME NEW T, NEW q \in Seq(T), NEW K \in SUBSET DOMAIN q,
         NEW m \in DOMAIN Sift(q, K), NEW n \in DOMAIN Sift(q, K), m # n
  PROVE  \E j, k \in K : j # k /\ Sift(q, K)[m] = q[j] /\ Sift(q, K)[n] = q[k]
<1>1. CASE K = DOMAIN q
  <2>1. Sift(q, K) = q
    BY <1>1 DEF Sift
  <2> QED BY <1>1, <2>1
<1>2. CASE K # DOMAIN q
  <2> DEFINE Rank(k) == Cardinality({j \in K : j <= k})
             At1(l) == CHOOSE k \in K : Rank(k) = l
  <2>1. Sift(q, K) = [l \in 1 .. Cardinality(K) |-> q[At1(l)]]
    BY <1>2 DEF Sift
  <2>2. m \in 1 .. Cardinality(K) /\ n \in 1 .. Cardinality(K)
    BY <2>1
  <2>3. ASSUME NEW l \in 1 .. Cardinality(K) PROVE At1(l) \in K /\ Rank(At1(l)) = l
    <3>1. Ranked(K)
      BY Ranks
    <3>2. \E k \in K : Rank(k) = l
      BY <3>1 DEF Ranked, Upto
    <3> HIDE DEF Rank
    <3> QED BY <3>2
  <2>4. /\ At1(m) \in K /\ Rank(At1(m)) = m
        /\ At1(n) \in K /\ Rank(At1(n)) = n
    BY <2>2, <2>3
  <2>5. Sift(q, K)[m] = q[At1(m)] /\ Sift(q, K)[n] = q[At1(n)]
    BY <2>1, <2>2
  <2> HIDE DEF At1, Rank
  <2>6. At1(m) # At1(n)
    BY <2>4
  <2> QED BY <2>4, <2>5, <2>6
<1> QED BY <1>1, <1>2

\* The entries of q that are kept and those that are answered, without overlap.
Parted(q, kept, over) ==
  /\ Once(kept) /\ Once(over)
  /\ \A n \in DOMAIN kept : \E k \in DOMAIN q : kept[n].id = q[k].id /\ kept[n].con = q[k].con
  /\ \A n \in DOMAIN over : \E k \in DOMAIN q : over[n].id = q[k].id /\ over[n].con = q[k].con
  /\ \A n \in DOMAIN kept, m \in DOMAIN over :
       ~(kept[n].id = over[m].id /\ kept[n].con \in Client /\ over[m].con \in Client)

LEMMA SiftOnce ==
  ASSUME NEW q \in Seq(Entry), Once(q), NEW K \in SUBSET DOMAIN q
  PROVE  Once(Sift(q, K))
<1> SUFFICES ASSUME NEW m \in DOMAIN Sift(q, K), NEW n \in DOMAIN Sift(q, K), m # n,
                    Sift(q, K)[m].id = Sift(q, K)[n].id,
                    Sift(q, K)[m].con \in Client, Sift(q, K)[n].con \in Client
             PROVE  FALSE
  BY DEF Once
<1>1. PICK j \in K, k \in K : j # k /\ Sift(q, K)[m] = q[j] /\ Sift(q, K)[n] = q[k]
  BY SiftApart
<1> QED BY <1>1 DEF Once

LEMMA SiftParted ==
  ASSUME NEW q \in Seq(Entry), Once(q), NEW K \in SUBSET DOMAIN q,
         NEW L \in SUBSET DOMAIN q, K \cap L = {}
  PROVE  Parted(q, Sift(q, K), Sift(q, L))
<1> DEFINE kept == Sift(q, K)
           over == Sift(q, L)
<1>1. Once(kept) /\ Once(over)
  BY SiftOnce
<1>2. /\ \A n \in DOMAIN kept : \E k \in K : kept[n] = q[k]
      /\ \A n \in DOMAIN over : \E k \in L : over[n] = q[k]
  BY Sifted
<1> HIDE DEF kept, over
<1>3. ASSUME NEW n \in DOMAIN kept, NEW m \in DOMAIN over
      PROVE  ~(kept[n].id = over[m].id /\ kept[n].con \in Client /\ over[m].con \in Client)
  <2>1. PICK j \in K : kept[n] = q[j]
    BY <1>2
  <2>2. PICK k \in L : over[m] = q[k]
    BY <1>2
  <2>3. j # k
    OBVIOUS
  <2> QED BY <2>1, <2>2, <2>3 DEF Once
<1>4. Parted(q, kept, over)
  BY <1>1, <1>2, <1>3 DEF Parted
<1> QED BY <1>4 DEF kept, over

\* send_search_end() to the clients of a list in which each client's search is once.
LEMMA EndsOnce ==
  ASSUME NEW h \in Heards, NEW over \in Seq(Entry), Once(over), NEW i \in Id
  PROVE  /\ EndsHeard(h, over)[i].hits = h[i].hits
         /\ EndsHeard(h, over)[i].ends = h[i].ends +
              (IF \E k \in DOMAIN over : /\ over[k].id = i /\ over[k].con \in Client
                                         /\ IsUser(over[k].con) THEN 1 ELSE 0)
<1> DEFINE P == {k \in DOMAIN over : over[k].id = i /\ over[k].con \in Client /\ IsUser(over[k].con)}
<1>1. P = {} \/ \E k \in DOMAIN over : P = {k}
  BY DEF Once
<1>2. Cardinality(P) = IF P = {} THEN 0 ELSE 1
  BY <1>1, FS_EmptySet, FS_Singleton
<1>3. EndsHeard(h, over)[i] = [h[i] EXCEPT !.ends = @ + Cardinality(P)]
  BY DEF EndsHeard
<1>4. h[i] \in [hits : Nat, ends : Nat]
  BY DEF Heards
<1>5. P # {} <=> \E k \in DOMAIN over : over[k].id = i /\ over[k].con \in Client /\ IsUser(over[k].con)
  OBVIOUS
<1> HIDE DEF P
<1> QED BY <1>2, <1>3, <1>4, <1>5

\* A server answers part of its entries and keeps others: who is told of an end is a
\* client still there who has not been told before.
LEMMA PartedOnce ==
  ASSUME ServiceInv, NEW s \in Server, NEW kept, NEW over \in Seq(Entry),
         Parted(pend[s], kept, over), pend' = [pend EXCEPT ![s] = kept]
  PROVE  LET told == EndsHeard(heard, over)
         IN  /\ told \in Heards
             /\ \A u \in Server : Once(pend'[u])
             /\ HeardOnce(asker, told, pend')
             /\ \A i \in Id :
                  /\ told[i].hits = heard[i].hits
                  /\ \/ told[i].ends = heard[i].ends
                     \/ /\ told[i].ends = 1 /\ heard[i].ends = 0
                        /\ asker[i] # None /\ IsUser(asker[i])
<1> DEFINE told == EndsHeard(heard, over)
           Gone(i) == \E k \in DOMAIN over : /\ over[k].id = i /\ over[k].con \in Client
                                             /\ IsUser(over[k].con)
<1>1. /\ TypeOK /\ heard \in Heards /\ chan \in Chans /\ HeardOnce(asker, heard, pend)
      /\ \A u \in Server : Once(pend[u])
      /\ AllHomeward(asker, pend)
      /\ \A u \in Server : Ordered(client, Links(u), u, pend[u])
  BY DEF ServiceInv, RoutedInv, SearchInv, TypeOK, OnceInv, Heards, Chans
<1>2. told \in Heards
  BY <1>1, EndsTyped
<1>3. \A i \in Id : /\ told[i].hits = heard[i].hits
                    /\ told[i].ends = heard[i].ends + (IF Gone(i) THEN 1 ELSE 0)
  BY <1>1, EndsOnce DEF Parted
<1>4. \A u \in Server : pend'[u] = IF u = s THEN kept ELSE pend[u]
  BY <1>1 DEF TypeOK
<1> HIDE DEF told, Gone
<1>5. ASSUME NEW u \in Server, NEW k \in DOMAIN pend[u], pend[u][k].con \in Client
      PROVE  /\ asker[pend[u][k].id] # None /\ pend[u][k].con = asker[pend[u][k].id]
             /\ At[asker[pend[u][k].id]] = u
  <2>1. Homeward(asker, u, pend[u][k]) /\ InOrder(client, Links(u), u, pend[u][k])
    BY <1>1 DEF AllHomeward, Ordered
  <2> QED BY <1>5, <2>1 DEF Homeward, InOrder
<1>6. ASSUME NEW i \in Id, Gone(i)
      PROVE  /\ heard[i].ends = 0 /\ asker[i] # None /\ IsUser(asker[i])
             /\ \A u \in Server : \A k \in DOMAIN pend'[u] :
                  ~(pend'[u][k].id = i /\ pend'[u][k].con \in Client)
  <2>1. PICK m \in DOMAIN over : over[m].id = i /\ over[m].con \in Client /\ IsUser(over[m].con)
    BY <1>6 DEF Gone
  <2>2. PICK j \in DOMAIN pend[s] : pend[s][j].id = i /\ pend[s][j].con = over[m].con
    BY <2>1 DEF Parted
  <2>3. asker[i] # None /\ over[m].con = asker[i] /\ At[asker[i]] = s
    BY <1>5, <2>1, <2>2
  <2>4. heard[i].ends = 0
    BY <1>1, <2>1, <2>2 DEF HeardOnce
  <2>5. ASSUME NEW u \in Server, NEW k \in DOMAIN pend'[u],
               pend'[u][k].id = i, pend'[u][k].con \in Client
        PROVE  FALSE
    <3>1. CASE u = s
      BY <1>4, <2>1, <2>5, <3>1 DEF Parted
    <3>2. CASE u # s
      BY <1>4, <1>5, <2>3, <2>5, <3>2
    <3> QED BY <3>1, <3>2
  <2> QED BY <2>1, <2>3, <2>4, <2>5
<1>7. ASSUME NEW i \in Id, heard[i].ends = 1
      PROVE  \A u \in Server : \A k \in DOMAIN pend'[u] :
               ~(pend'[u][k].id = i /\ pend'[u][k].con \in Client)
  <2> SUFFICES ASSUME NEW u \in Server, NEW k \in DOMAIN pend'[u],
                      pend'[u][k].id = i, pend'[u][k].con \in Client
               PROVE  FALSE
    OBVIOUS
  <2>1. \A v \in Server : \A j \in DOMAIN pend[v] : ~(pend[v][j].id = i /\ pend[v][j].con \in Client)
    BY <1>1, <1>7 DEF HeardOnce
  <2>2. CASE u = s
    BY <1>4, <2>1, <2>2 DEF Parted
  <2>3. CASE u # s
    BY <1>4, <2>1, <2>3
  <2> QED BY <2>2, <2>3
<1>8. \A i \in Id : heard[i].ends \in {0, 1} /\ (asker[i] = None => heard[i].hits = 0 /\ heard[i].ends = 0)
  BY <1>1 DEF HeardOnce
<1>9. HeardOnce(asker, told, pend')
  <2> SUFFICES ASSUME NEW i \in Id
               PROVE  /\ told[i].ends \in {0, 1}
                      /\ asker[i] = None => told[i].hits = 0 /\ told[i].ends = 0
                      /\ told[i].ends = 1 => \A u \in Server : \A k \in DOMAIN pend'[u] :
                           ~(pend'[u][k].id = i /\ pend'[u][k].con \in Client)
    BY DEF HeardOnce
  <2>1. CASE Gone(i)
    BY <1>3, <1>6, <2>1
  <2>2. CASE ~Gone(i)
    BY <1>3, <1>7, <1>8, <2>2
  <2> QED BY <2>1, <2>2
<1>10. \A u \in Server : Once(pend'[u])
  BY <1>1, <1>4 DEF Parted
<1>11. \A i \in Id : /\ told[i].hits = heard[i].hits
                     /\ \/ told[i].ends = heard[i].ends
                        \/ /\ told[i].ends = 1 /\ heard[i].ends = 0
                           /\ asker[i] # None /\ IsUser(asker[i])
  <2> SUFFICES ASSUME NEW i \in Id
               PROVE  /\ told[i].hits = heard[i].hits
                      /\ \/ told[i].ends = heard[i].ends
                         \/ /\ told[i].ends = 1 /\ heard[i].ends = 0
                            /\ asker[i] # None /\ IsUser(asker[i])
    OBVIOUS
  <2>1. CASE Gone(i)
    BY <1>3, <1>6, <2>1
  <2>2. CASE ~Gone(i)
    BY <1>3, <1>8, <2>2
  <2> QED BY <2>1, <2>2
<1> QED BY <1>2, <1>9, <1>10, <1>11 DEF told

\* What a step that tells of ends alone is to the clients.
LEMMA EndsServe ==
  ASSUME ServiceInv, UNCHANGED <<client, asker>>,
         \A i \in Id : /\ heard'[i].hits = heard[i].hits
                       /\ \/ heard'[i].ends = heard[i].ends
                          \/ /\ heard'[i].ends = 1 /\ heard[i].ends = 0
                             /\ asker[i] # None /\ IsUser(asker[i])
  PROVE  Serving
<1> SUFFICES ASSUME NEW i \in Id
             PROVE  Seen(i)' = Seen(i) \/ Service!Moves(Seen(i), Seen(i)')
  BY DEF Serving
<1>1. heard[i].hits \in Nat
  BY DEF ServiceInv, RoutedInv, SearchInv, TypeOK
<1>2. CASE heard'[i].ends = heard[i].ends
  BY <1>2 DEF Seen, Status, IsUser
<1>3. CASE heard'[i].ends = 1 /\ heard[i].ends = 0 /\ asker[i] # None /\ IsUser(asker[i])
  <2>1. Seen(i) = [status |-> "open", hits |-> heard[i].hits, ends |-> 0]
    BY <1>3 DEF Seen, Status
  <2>2. Seen(i)' = [status |-> "done", hits |-> heard[i].hits, ends |-> 1]
    BY <1>3 DEF Seen, Status
  <2> QED BY <1>1, <2>1, <2>2 DEF Service!Moves
<1> QED BY <1>2, <1>3

\* find_search() parts the list.
LEMMA LookUpParted ==
  ASSUME ServiceInv, NEW s \in Server, NEW i
  PROVE  /\ Kept(s, i) \in Seq(Entry) /\ Dropped(s, i) \in Seq(Entry)
         /\ Parted(pend[s], Kept(s, i), Dropped(s, i))
<1> DEFINE q == pend[s]
           K == DOMAIN q \ Passed(s, i)
           L == Passed(s, i)
<1>1. TypeOK /\ q \in Seq(Entry) /\ Once(q)
  BY DEF ServiceInv, RoutedInv, SearchInv, TypeOK, OnceInv
<1>2. K \in SUBSET DOMAIN q /\ L \in SUBSET DOMAIN q /\ K \cap L = {}
  BY <1>1, LookUpTyped
<1>3. Kept(s, i) = Sift(q, K) /\ Dropped(s, i) = Sift(q, L)
  BY DEF Kept, Dropped
<1> HIDE DEF q, K, L
<1>4. Parted(q, Sift(q, K), Sift(q, L))
  BY <1>1, <1>2, SiftParted
<1> QED BY <1>1, <1>3, <1>4, LookUpTyped DEF q

LEMMA InitServes == ASSUME Init PROVE ServiceInv /\ Service!Init
<1>1. RoutedInv
  BY InitRouted
<1>2. OnceInv
  BY DEF Init, OnceInv, Once, HeardOnce
<1>3. \A i \in Id : asker[i] = None /\ heard[i].hits = 0 /\ heard[i].ends = 0
  BY DEF Init
<1>4. Service!Init
  BY <1>3 DEF Service!Init, Service!New, Status
<1> QED BY <1>1, <1>2, <1>4 DEF ServiceInv

\* search(): the id is new, and either all links are asked or the end comes at once.
LEMMA AskServes ==
  ASSUME ServiceInv, RoutedInv', NEW c \in Client, NEW i \in Id, NEW max \in Nat, NEW local,
         StartSearch(c, i, max, local)
  PROVE  OnceInv' /\ Serving
<1> DEFINE s == At[c]
           top == Capped(max)
           n == LocalHits(s, top)
           e == [id |-> i, con |-> c, count |-> 0, num |-> Expected(s, c), ts |-> now]
           fwd == n < top /\ ~local /\ Expected(s, c) > 0
           last == IF fwd THEN 0 ELSE 1
<1>1. /\ TypeOK /\ HeardOnce(asker, heard, pend) /\ AllHomeward(asker, pend)
      /\ \A u \in Server : Once(pend[u])
      /\ \A u \in Server : pend[u] \in Seq(Entry)
  BY DEF ServiceInv, RoutedInv, SearchInv, OnceInv, TypeOK
<1>2. client[c] = "on" /\ asker[i] = None /\ asker' = [asker EXCEPT ![i] = c] /\ client' = client
  BY DEF StartSearch
<1>3. s \in Server /\ top \in Nat /\ n \in Nat
  BY Numbers, Setting
<1>4. /\ pend' = IF fwd THEN [pend EXCEPT ![s] = Append(@, e)] ELSE pend
      /\ heard' = [heard EXCEPT ![i] = [hits |-> n, ends |-> last]]
  BY DEF StartSearch, SearchInternal
<1>5. e.id = i /\ e.con = c
  OBVIOUS
<1> HIDE DEF s, top, n, e
<1>6. \A u \in Server : \A k \in DOMAIN pend[u] : pend[u][k].id # i
  BY <1>1, <1>2 DEF AllHomeward, Homeward
<1>7. \A u \in Server : \/ pend'[u] = pend[u]
                        \/ fwd /\ pend'[u] = Append(pend[u], e)
  BY <1>1, <1>4 DEF TypeOK
<1>8. ASSUME NEW u \in Server, NEW k \in DOMAIN Append(pend[u], e)
      PROVE  \/ k \in DOMAIN pend[u] /\ Append(pend[u], e)[k] = pend[u][k]
             \/ k = Len(pend[u]) + 1 /\ Append(pend[u], e)[k] = e
  BY <1>1
<1>9. ASSUME NEW u \in Server PROVE Once(pend'[u])
  <2>1. CASE pend'[u] = pend[u]
    BY <1>1, <2>1
  <2>2. CASE pend'[u] = Append(pend[u], e)
    BY <1>1, <1>5, <1>6, <1>8, <2>2 DEF Once
  <2> QED BY <1>7, <2>1, <2>2
<1>10. /\ heard'[i].hits = n /\ heard'[i].ends = last /\ asker'[i] = c
       /\ \A j \in Id : j # i => heard'[j] = heard[j] /\ asker'[j] = asker[j]
  BY <1>1, <1>2, <1>4 DEF TypeOK
<1>11. HeardOnce(asker', heard', pend')
  <2> SUFFICES ASSUME NEW j \in Id
               PROVE  /\ heard'[j].ends \in {0, 1}
                      /\ asker'[j] = None => heard'[j].hits = 0 /\ heard'[j].ends = 0
                      /\ heard'[j].ends = 1 => \A u \in Server : \A k \in DOMAIN pend'[u] :
                           ~(pend'[u][k].id = j /\ pend'[u][k].con \in Client)
    BY DEF HeardOnce
  <2>1. CASE j = i
    <3>1. last = 1 => \A u \in Server : pend'[u] = pend[u]
      BY <1>7
    <3> QED BY <1>6, <1>10, <2>1, <3>1, Setting
  <2>2. CASE j # i
    <3>1. \A u \in Server : \A k \in DOMAIN pend'[u] :
            pend'[u][k].id = j => k \in DOMAIN pend[u] /\ pend'[u][k] = pend[u][k]
      BY <1>5, <1>7, <1>8, <2>2
    <3>2. /\ heard[j].ends \in {0, 1}
          /\ asker[j] = None => heard[j].hits = 0 /\ heard[j].ends = 0
          /\ heard[j].ends = 1 => \A u \in Server : \A k \in DOMAIN pend[u] :
               ~(pend[u][k].id = j /\ pend[u][k].con \in Client)
      BY <1>1 DEF HeardOnce
    <3> QED BY <1>10, <2>2, <3>1, <3>2
  <2> QED BY <2>1, <2>2
<1>12. ASSUME NEW j \in Id
       PROVE  Seen(j)' = Seen(j) \/ Service!Moves(Seen(j), Seen(j)')
  <2>1. CASE j = i
    <3>1. Seen(i) = [status |-> "new", hits |-> 0, ends |-> 0]
      BY <1>1, <1>2 DEF Seen, Status, HeardOnce
    <3>2. Status(i)' = IF last = 1 THEN "done" ELSE "open"
      BY <1>2, <1>10, Setting DEF Status, IsUser
    <3>3. Seen(i)' = [status |-> IF last = 1 THEN "done" ELSE "open", hits |-> n, ends |-> last]
      BY <1>10, <3>2 DEF Seen
    <3> QED BY <1>3, <2>1, <3>1, <3>3 DEF Service!Moves
  <2>2. CASE j # i
    BY <1>2, <1>10, <2>2 DEF Seen, Status, IsUser
  <2> QED BY <2>1, <2>2
<1> QED BY <1>9, <1>11, <1>12 DEF OnceInv, Serving

\* remote_search(): the new entry answers a link.
LEMMA SearchServes ==
  ASSUME ServiceInv, RoutedInv', NEW s \in Server, NEW t \in Server, RecvSearch(s, t)
  PROVE  OnceInv' /\ Serving
<1> DEFINE m == Head(chan[t][s])
           e == [id |-> m.id, con |-> t, count |-> 0, num |-> Expected(s, t), ts |-> now]
<1>1. /\ HeardOnce(asker, heard, pend) /\ pend \in [Server -> Seq(Entry)]
      /\ \A u \in Server : Once(pend[u]) /\ pend[u] \in Seq(Entry)
  BY DEF ServiceInv, RoutedInv, SearchInv, OnceInv, TypeOK
<1>2. /\ UNCHANGED <<client, asker, heard>>
      /\ pend' = pend \/ pend' = [pend EXCEPT ![s] = Append(@, e)]
  BY Setting DEF RecvSearch, SearchInternal
<1>3. e.con \notin Client
  BY Setting
<1> HIDE DEF m, e
<1>4. \A u \in Server : pend'[u] = pend[u] \/ pend'[u] = Append(pend[u], e)
  BY <1>1, <1>2
<1>5. ASSUME NEW u \in Server, NEW k \in DOMAIN pend'[u], pend'[u][k].con \in Client
      PROVE  k \in DOMAIN pend[u] /\ pend'[u][k] = pend[u][k]
  <2>1. CASE pend'[u] = pend[u]
    BY <1>5, <2>1
  <2>2. CASE pend'[u] = Append(pend[u], e)
    BY <1>1, <1>3, <1>5, <2>2
  <2> QED BY <1>4, <2>1, <2>2
<1>6. OnceInv'
  BY <1>1, <1>2, <1>5 DEF OnceInv, Once, HeardOnce
<1>7. Serving
  BY <1>2 DEF Serving, Seen, Status, IsUser
<1> QED BY <1>6, <1>7

\* remote_search_result(): a hit is told to a client whose search is still open.
LEMMA ResultServes ==
  ASSUME ServiceInv, RoutedInv', NEW s \in Server, NEW t \in Server, RecvResult(s, t)
  PROVE  OnceInv' /\ Serving
<1> DEFINE i == Head(chan[t][s]).id
           q == Kept(s, i)
           p == Place(q, i)
           told == EndsHeard(heard, Dropped(s, i))
<1>1. /\ TypeOK /\ chan[t][s] # <<>> /\ Head(chan[t][s]).type = "RESULT"
      /\ HeardOnce(asker, heard, pend) /\ AllHomeward(asker, pend)
  BY DEF ServiceInv, RoutedInv, SearchInv, OnceInv, RecvResult, Deliver
<1>2. i \in Id
  <2>1. Head(chan[t][s]) \in Message
    BY <1>1, ReceivedTyped
  <2> QED BY <1>1, <2>1 DEF Message
<1>3. /\ pend' = [pend EXCEPT ![s] = q] /\ UNCHANGED <<client, asker>>
      /\ \/ heard' = told
         \/ /\ Found(q, i) /\ q[p].con \in Client /\ IsUser(q[p].con)
            /\ heard' = [told EXCEPT ![i].hits = @ + 1]
  BY DEF RecvResult
<1>4. q \in Seq(Entry) /\ Dropped(s, i) \in Seq(Entry) /\ Parted(pend[s], q, Dropped(s, i))
  BY LookUpParted
<1>5. Found(q, i) => p \in DOMAIN q /\ q[p].id = i
  <2>1. Found(q, i) => p \in DOMAIN q
    BY <1>1, CountedTyped
  <2>2. p <= Len(q) => q[p].id = i
    BY <1>4, PlaceInList
  <2> QED BY <2>1, <2>2 DEF Found
<1> HIDE DEF i, q, p
<1>6. /\ told \in Heards /\ \A u \in Server : Once(pend'[u])
      /\ HeardOnce(asker, told, pend')
      /\ \A j \in Id :
           /\ told[j].hits = heard[j].hits
           /\ \/ told[j].ends = heard[j].ends
              \/ /\ told[j].ends = 1 /\ heard[j].ends = 0
                 /\ asker[j] # None /\ IsUser(asker[j])
  BY <1>3, <1>4, PartedOnce
<1> HIDE DEF told
<1>7. CASE heard' = told
  <2>1. Serving
    BY <1>3, <1>6, <1>7, EndsServe
  <2>2. OnceInv'
    BY <1>3, <1>6, <1>7 DEF OnceInv
  <2> QED BY <2>1, <2>2
<1>8. CASE /\ Found(q, i) /\ q[p].con \in Client /\ IsUser(q[p].con)
           /\ heard' = [told EXCEPT ![i].hits = @ + 1]
  <2>1. p \in DOMAIN q /\ q[p].id = i /\ pend'[s] = q
    BY <1>1, <1>3, <1>5, <1>8 DEF TypeOK
  <2>2. q[p].con = asker[i] /\ asker[i] # None
    <3>1. Homeward(asker, s, pend'[s][p])
      BY <1>3, <2>1 DEF RoutedInv, AllHomeward
    <3> QED BY <1>8, <2>1, <3>1 DEF Homeward
  <2>3. told[i].ends = 0 /\ heard[i].ends = 0
    <3>1. told[i].ends # 1
      BY <1>2, <1>6, <1>8, <2>1 DEF HeardOnce
    <3>2. told[i].ends \in {0, 1}
      BY <1>2, <1>6 DEF HeardOnce
    <3> QED BY <1>2, <1>6, <3>1, <3>2
  <2>4. /\ heard'[i].hits = heard[i].hits + 1 /\ heard'[i].ends = told[i].ends
        /\ \A j \in Id : j # i => heard'[j] = told[j]
    BY <1>2, <1>6, <1>8 DEF Heards
  <2>5. OnceInv'
    <3> SUFFICES ASSUME NEW j \in Id
                 PROVE  /\ heard'[j].ends \in {0, 1}
                        /\ asker[j] = None => heard'[j].hits = 0 /\ heard'[j].ends = 0
                        /\ heard'[j].ends = 1 => \A u \in Server : \A k \in DOMAIN pend'[u] :
                             ~(pend'[u][k].id = j /\ pend'[u][k].con \in Client)
      BY <1>3, <1>6 DEF OnceInv, HeardOnce
    <3>1. CASE j = i
      BY <2>2, <2>3, <2>4, <3>1
    <3>2. CASE j # i
      BY <1>6, <2>4, <3>2 DEF HeardOnce
    <3> QED BY <3>1, <3>2
  <2>6. ASSUME NEW j \in Id
        PROVE  Seen(j)' = Seen(j) \/ Service!Moves(Seen(j), Seen(j)')
    <3>1. heard[j].hits \in Nat
      BY <1>1 DEF TypeOK
    <3>2. CASE j = i
      <4>1. /\ asker'[j] # None /\ asker'[j] = asker[j] /\ IsUser(asker[j])
            /\ client' = client /\ heard[j].ends = 0
            /\ heard'[j].ends = 0 /\ heard'[j].hits = heard[j].hits + 1
        BY <1>3, <1>8, <2>2, <2>3, <2>4, <3>2
      <4>2. Seen(j) = [status |-> "open", hits |-> heard[j].hits, ends |-> 0]
        BY <4>1 DEF Seen, Status
      <4>3. Status(j)' = "open"
        BY <4>1 DEF Status, IsUser
      <4>4. Seen(j)' = [status |-> "open", hits |-> heard[j].hits + 1, ends |-> 0]
        BY <4>1, <4>3 DEF Seen
      <4> QED BY <3>1, <4>2, <4>4 DEF Service!Moves
    <3>3. CASE j # i /\ heard'[j].ends = heard[j].ends
      <4>1. heard'[j].hits = heard[j].hits
        BY <1>6, <2>4, <3>3
      <4> QED BY <1>3, <3>3, <4>1 DEF Seen, Status, IsUser
    <3>4. CASE j # i /\ heard'[j].ends # heard[j].ends
      <4>1. /\ heard'[j].hits = heard[j].hits /\ heard'[j].ends = 1 /\ heard[j].ends = 0
            /\ asker[j] # None /\ IsUser(asker[j])
        BY <1>6, <2>4, <3>4
      <4>2. Seen(j) = [status |-> "open", hits |-> heard[j].hits, ends |-> 0]
        BY <4>1 DEF Seen, Status
      <4>3. Seen(j)' = [status |-> "done", hits |-> heard[j].hits, ends |-> 1]
        BY <1>3, <4>1 DEF Seen, Status
      <4> QED BY <3>1, <4>2, <4>3 DEF Service!Moves
    <3> QED BY <3>2, <3>3, <3>4
  <2> QED BY <2>5, <2>6 DEF Serving
<1> QED BY <1>3, <1>7, <1>8

\* What remote_search_end() keeps and answers.
LEMMA EndParted ==
  ASSUME NEW q0, NEW q \in Seq(Entry), NEW d \in Seq(Entry), Parted(q0, q, d),
         NEW p \in DOMAIN q, NEW e \in Entry, e.id = q[p].id, e.con = q[p].con
  PROVE  /\ Parted(q0, [q EXCEPT ![p] = e], d)
         /\ Parted(q0, Sift(q, DOMAIN q \ {p}), d \o <<e>>)
<1>1. Parted(q0, [q EXCEPT ![p] = e], d)
  <2> DEFINE new == [q EXCEPT ![p] = e]
  <2>1. DOMAIN new = DOMAIN q /\ \A k \in DOMAIN q : new[k].id = q[k].id /\ new[k].con = q[k].con
    OBVIOUS
  <2> HIDE DEF new
  <2>2. Parted(q0, new, d)
    BY <2>1 DEF Parted, Once
  <2> QED BY <2>2 DEF new
<1>2. Parted(q0, Sift(q, DOMAIN q \ {p}), d \o <<e>>)
  <2> DEFINE K == DOMAIN q \ {p}
             kept == Sift(q, K)
             over == d \o <<e>>
  <2>1. \A n \in DOMAIN over : \/ n \in DOMAIN d /\ over[n] = d[n]
                               \/ n = Len(d) + 1 /\ over[n] = e
    OBVIOUS
  <2>2. p \notin K /\ K \in SUBSET DOMAIN q
    OBVIOUS
  <2> HIDE DEF K
  <2>3. Once(kept) /\ \A n \in DOMAIN kept : \E k \in K : kept[n] = q[k]
    BY <2>2, SiftOnce, Sifted DEF Parted
  <2> HIDE DEF kept, over
  <2>4. Once(over)
    <3> SUFFICES ASSUME NEW m \in DOMAIN over, NEW n \in DOMAIN over, m # n,
                        over[m].id = over[n].id, over[m].con \in Client, over[n].con \in Client
                 PROVE  FALSE
      BY DEF Once
    <3>1. CASE m \in DOMAIN d /\ over[m] = d[m] /\ n \in DOMAIN d /\ over[n] = d[n]
      BY <3>1 DEF Parted, Once
    <3>2. CASE m \in DOMAIN d /\ over[m] = d[m] /\ over[n] = e
      BY <3>2 DEF Parted
    <3>3. CASE n \in DOMAIN d /\ over[n] = d[n] /\ over[m] = e
      BY <3>3 DEF Parted
    <3> QED BY <2>1, <3>1, <3>2, <3>3
  <2>5. \A n \in DOMAIN kept : \E k \in DOMAIN q0 : kept[n].id = q0[k].id /\ kept[n].con = q0[k].con
    BY <2>3, <2>2 DEF Parted
  <2>6. \A n \in DOMAIN over : \E k \in DOMAIN q0 : over[n].id = q0[k].id /\ over[n].con = q0[k].con
    BY <2>1 DEF Parted
  <2>7. ASSUME NEW n \in DOMAIN kept, NEW m \in DOMAIN over,
               kept[n].id = over[m].id, kept[n].con \in Client, over[m].con \in Client
        PROVE  FALSE
    <3>1. PICK k \in K : kept[n] = q[k]
      BY <2>3
    <3>2. CASE m \in DOMAIN d /\ over[m] = d[m]
      BY <2>2, <2>7, <3>1, <3>2 DEF Parted
    <3>3. CASE over[m] = e
      BY <2>2, <2>7, <3>1, <3>3 DEF Parted, Once
    <3> QED BY <2>1, <3>2, <3>3
  <2>8. Parted(q0, kept, over)
    BY <2>3, <2>4, <2>5, <2>6, <2>7 DEF Parted
  <2> QED BY <2>8 DEF K, kept, over
<1> QED BY <1>1, <1>2

LEMMA EndServes ==
  ASSUME ServiceInv, RoutedInv', NEW s \in Server, NEW t \in Server, RecvEnd(s, t)
  PROVE  OnceInv' /\ Serving
<1> DEFINE i == Head(chan[t][s]).id
           q == Kept(s, i)
           p == Place(q, i)
           e == [q[p] EXCEPT !.count = @ + 1]
           last == Found(q, i) /\ LastEnd(e)
           d == Dropped(s, i)
           over == d \o (IF last THEN <<e>> ELSE <<>>)
           new == IF last THEN Sift(q, DOMAIN q \ {p})
                  ELSE IF Found(q, i) THEN [q EXCEPT ![p] = e] ELSE q
<1>1. TypeOK
  BY DEF ServiceInv, RoutedInv, SearchInv
<1>2. /\ pend' = [pend EXCEPT ![s] = new] /\ heard' = EndsHeard(heard, over)
      /\ UNCHANGED <<client, asker>>
  BY DEF RecvEnd
<1>3. q \in Seq(Entry) /\ d \in Seq(Entry) /\ Parted(pend[s], q, d)
  BY LookUpParted
<1>4. Found(q, i) => /\ p \in DOMAIN q /\ q[p] \in Entry /\ e \in Entry
  BY <1>1, CountedTyped
<1> HIDE DEF i, q, p, d
<1>5. Found(q, i) => e.id = q[p].id /\ e.con = q[p].con
  BY <1>4 DEF Entry
<1> HIDE DEF e
<1>6. over \in Seq(Entry)
  BY <1>3, <1>4
<1>7. Parted(pend[s], new, over)
  <2>1. CASE last
    BY <1>3, <1>4, <1>5, <2>1, EndParted
  <2>2. CASE ~last /\ Found(q, i)
    <3>1. over = d
      BY <1>3, <2>2
    <3> QED BY <1>3, <1>4, <1>5, <2>2, <3>1, EndParted
  <2>3. CASE ~Found(q, i)
    <3>1. over = d /\ new = q
      BY <1>3, <2>3
    <3> QED BY <1>3, <3>1
  <2> QED BY <2>1, <2>2, <2>3
<1> HIDE DEF new, over
<1>8. /\ \A u \in Server : Once(pend'[u])
      /\ HeardOnce(asker, heard', pend')
      /\ \A j \in Id :
           /\ heard'[j].hits = heard[j].hits
           /\ \/ heard'[j].ends = heard[j].ends
              \/ /\ heard'[j].ends = 1 /\ heard[j].ends = 0
                 /\ asker[j] # None /\ IsUser(asker[j])
  BY <1>2, <1>6, <1>7, PartedOnce
<1>9. Serving
  BY <1>2, <1>8, EndsServe
<1> QED BY <1>2, <1>8, <1>9 DEF OnceInv

LEMMA ReapLinkServes ==
  ASSUME ServiceInv, RoutedInv', NEW s \in Server, NEW t \in Server, ReapLink(s, t)
  PROVE  OnceInv' /\ Serving
<1> DEFINE q == LessLink(s, t)
           stay == {k \in DOMAIN q : q[k].con # t /\ q[k].count < q[k].num}
           out == {k \in DOMAIN q \ stay : q[k].con # t}
           over == Sift(q, out)
           kept == Sift(q, stay)
<1>1. TypeOK /\ pend[s] \in Seq(Entry) /\ Once(pend[s])
  BY DEF ServiceInv, RoutedInv, SearchInv, OnceInv, TypeOK
<1>2. /\ pend' = [pend EXCEPT ![s] = kept] /\ heard' = EndsHeard(heard, over)
      /\ UNCHANGED <<client, asker>>
  BY DEF ReapLink
<1>3. q \in Seq(Entry)
  BY <1>1, LessTyped
<1>4. DOMAIN q = DOMAIN pend[s] /\ \A k \in DOMAIN q : q[k].id = pend[s][k].id /\ q[k].con = pend[s][k].con
  <2>1. DOMAIN q = DOMAIN pend[s]
    BY DEF LessLink
  <2>2. ASSUME NEW k \in DOMAIN q
        PROVE  q[k].id = pend[s][k].id /\ q[k].con = pend[s][k].con
    <3>1. k \in DOMAIN pend[s] /\ q[k] = [pend[s][k] EXCEPT !.num = @ - 1]
      BY DEF LessLink
    <3>2. pend[s][k] \in Entry
      BY <1>1, <3>1, ElementOfSeq
    <3> QED BY <3>1, <3>2 DEF Entry
  <2> QED BY <2>1, <2>2
<1>5. stay \in SUBSET DOMAIN q /\ out \in SUBSET DOMAIN q /\ stay \cap out = {}
  OBVIOUS
<1> HIDE DEF q, stay, out
<1>6. Once(q)
  BY <1>1, <1>4 DEF Once
<1>7. Parted(q, kept, over) /\ over \in Seq(Entry)
  BY <1>3, <1>5, <1>6, SiftParted, Sifted
<1> HIDE DEF kept, over
<1>8. Parted(pend[s], kept, over)
  BY <1>4, <1>7 DEF Parted
<1>9. /\ \A u \in Server : Once(pend'[u])
      /\ HeardOnce(asker, heard', pend')
      /\ \A j \in Id :
           /\ heard'[j].hits = heard[j].hits
           /\ \/ heard'[j].ends = heard[j].ends
              \/ /\ heard'[j].ends = 1 /\ heard[j].ends = 0
                 /\ asker[j] # None /\ IsUser(asker[j])
  BY <1>2, <1>7, <1>8, PartedOnce
<1>10. Serving
  BY <1>2, <1>9, EndsServe
<1> QED BY <1>2, <1>9, <1>10 DEF OnceInv

\* Clients that leave are told nothing more, and do not come back.
LEMMA ClientServes ==
  ASSUME ServiceInv, RoutedInv', NEW c \in Client,
         Disconnect(c) \/ Zap(c) \/ ReapClient(c)
  PROVE  OnceInv' /\ Serving
<1>1. /\ TypeOK /\ HeardOnce(asker, heard, pend)
      /\ \A u \in Server : Once(pend[u]) /\ pend[u] \in Seq(Entry)
  BY DEF ServiceInv, RoutedInv, SearchInv, OnceInv, TypeOK
<1>2. UNCHANGED <<asker, heard>>
  BY DEF Disconnect, Zap, ReapClient
<1>3. ASSUME NEW b \in Client, IsUser(b)' PROVE IsUser(b)
  BY <1>1, <1>3 DEF Disconnect, Zap, ReapClient, IsUser, TypeOK
<1>4. OnceInv'
  <2>1. CASE pend' = pend
    BY <1>1, <1>2, <2>1 DEF OnceInv
  <2>2. CASE ReapClient(c)
    <3> DEFINE s == At[c]
               q == pend[s]
               K == {k \in DOMAIN q : q[k].con # c}
               kept == Sift(q, K)
    <3>1. s \in Server /\ q \in Seq(Entry) /\ Once(q) /\ K \in SUBSET DOMAIN q
      BY <1>1, Setting
    <3>2. \A u \in Server : pend'[u] = IF u = s THEN kept ELSE pend[u]
      BY <1>1, <2>2 DEF ReapClient, CancelClient, TypeOK
    <3> HIDE DEF s, q, K
    <3>3. Once(kept) /\ \A n \in DOMAIN kept : \E k \in K : kept[n] = q[k]
      BY <3>1, SiftOnce, Sifted
    <3> HIDE DEF kept
    <3>4. \A u \in Server : \A n \in DOMAIN pend'[u] : \E k \in DOMAIN pend[u] : pend'[u][n] = pend[u][k]
      BY <3>1, <3>2, <3>3 DEF q
    <3>5. HeardOnce(asker, heard, pend')
      BY <1>1, <3>4 DEF HeardOnce
    <3>6. \A u \in Server : Once(pend'[u])
      BY <1>1, <3>2, <3>3
    <3> QED BY <1>2, <3>5, <3>6 DEF OnceInv
  <2>3. Disconnect(c) \/ Zap(c) => pend' = pend
    BY DEF Disconnect, Zap
  <2> QED BY <2>1, <2>2, <2>3
<1>5. Serving
  <2> SUFFICES ASSUME NEW i \in Id
               PROVE  Seen(i)' = Seen(i) \/ Service!Moves(Seen(i), Seen(i)')
    BY DEF Serving
  <2>1. heard[i].hits \in Nat /\ heard[i].ends \in {0, 1} /\ asker[i] \in Client \cup {None}
    BY <1>1 DEF TypeOK, HeardOnce
  <2>2. CASE asker[i] = None \/ heard[i].ends = 1
    BY <1>2, <2>1, <2>2 DEF Seen, Status
  <2>3. CASE asker[i] # None /\ heard[i].ends = 0 /\ (IsUser(asker[i])' <=> IsUser(asker[i]))
    BY <1>2, <2>1, <2>3 DEF Seen, Status, IsUser
  <2>4. CASE asker[i] # None /\ heard[i].ends = 0 /\ IsUser(asker[i]) /\ ~IsUser(asker[i])'
    <3>1. Seen(i) = [status |-> "open", hits |-> heard[i].hits, ends |-> 0]
      BY <2>4 DEF Seen, Status
    <3>2. Seen(i)' = [status |-> "dropped", hits |-> heard[i].hits, ends |-> 0]
      BY <1>2, <2>4 DEF Seen, Status, IsUser
    <3> QED BY <2>1, <3>1, <3>2 DEF Service!Moves
  <2>5. asker[i] # None /\ IsUser(asker[i])' => IsUser(asker[i])
    BY <1>2, <1>3, <2>1
  <2> QED BY <2>1, <2>2, <2>3, <2>4, <2>5
<1> QED BY <1>4, <1>5

LEMMA NextServes == ASSUME ServiceInv, [Next]_vars PROVE ServiceInv' /\ Serving
<1>1. RoutedInv'
  BY NextRouted DEF ServiceInv
<1>2. ASSUME UNCHANGED <<client, pend, asker, heard>> PROVE OnceInv' /\ Serving
  BY <1>2 DEF ServiceInv, OnceInv, Serving, Seen, Status, IsUser
<1>3. UNCHANGED vars \/ Tick => UNCHANGED <<client, pend, asker, heard>>
  BY DEF vars, Tick
<1>4. ASSUME NEW c \in Client, Ask(c) PROVE OnceInv' /\ Serving
  BY <1>1, <1>4, AskServes, Setting DEF Ask
<1>5. ASSUME NEW s \in Server, NEW t \in Server, Receive(s, t) \/ Connects(s, t)
      PROVE  OnceInv' /\ Serving
  <2>1. CASE RecvSearch(s, t) \/ RecvResult(s, t) \/ RecvEnd(s, t)
    BY <1>1, <2>1, SearchServes, ResultServes, EndServes
  <2>2. CASE Connects(s, t)
    BY <1>2, <2>2 DEF Connects, RecvAck, RecvEof, Link, LinkFails, ServerDisconnect
  <2> QED BY <1>5, <2>1, <2>2 DEF Receive, Connects
<1>6. OnceInv' /\ Serving
  BY <1>1, <1>2, <1>3, <1>4, <1>5, ClientServes, ReapLinkServes DEF Next, Connects
<1> QED BY <1>1, <1>6 DEF ServiceInv

\* A search keeps the promises of SearchService that are safety, in any network without
\* cycles: hits only between the request and its one end, whatever is dropped, times
\* out, splits or leaves; each step of the servers is one of that service or none.
THEOREM SearchServesSafely == Spec => ServesSafely
<1>1. Init => ServiceInv /\ Service!Init
  BY InitServes
<1>2. ServiceInv /\ [Next]_vars => ServiceInv' /\ Serving
  BY NextServes
<1>3. ServiceInv /\ ServiceInv' /\ Serving => Service!Next
  <2> SUFFICES ASSUME ServiceInv', Serving PROVE Service!Next
    OBVIOUS
  <2>1. \A i \in Id : Seen(i)' \in Service!States
    BY DEF ServiceInv, RoutedInv, SearchInv, OnceInv, TypeOK, HeardOnce, Seen, Status, Service!States
  <2> QED BY <2>1 DEF Serving, Seen, Service!Next
<1>4. QED
  BY <1>1, <1>2, <1>3, PTL DEF Spec, ServesSafely, Service!Safety

-----------------------------------------------------------------------------
(* The ends of a search come from all peers *)

\* No link fails and no entry times out: what the comment in remote_search_end()
\* supposes.  (SearchPeers shows what becomes of it where a link fails.)
Undisturbed == MaxSplits = 0 /\ MaxTime <= Search_Timeout

\* There is a message of this type for search i in q, and there is but one.
Has(q, type, i)    == \E k \in DOMAIN q : q[k].type = type /\ q[k].id = i
Single(q, type, i) ==
  \A j, k \in DOMAIN q :
    q[j].type = type /\ q[j].id = i /\ q[k].type = type /\ q[k].id = i => j = k
Singles(ch) == \A s, t \in Server, i \in Id :
                 Single(ch[s][t], "SEARCH", i) /\ Single(ch[s][t], "END", i)

\* s has asked t and the request is on its way, t has an entry for it, or the END is on
\* its way.
Held(pe, s, t, i)     == \E k \in DOMAIN pe[t] : pe[t][k].id = i /\ pe[t][k].con = s
Open(ch, pe, s, t, i) ==
  Has(ch[s][t], "SEARCH", i) \/ Held(pe, s, t, i) \/ Has(ch[t][s], "END", i)

\* A request is at one of these places.
Exclusive(ch, pe) ==
  \A s, t \in Server, i \in Id :
    /\ ~(Has(ch[s][t], "SEARCH", i) /\ Held(pe, s, t, i))
    /\ ~(Has(ch[s][t], "SEARCH", i) /\ Has(ch[t][s], "END", i))
    /\ ~(Held(pe, s, t, i) /\ Has(ch[t][s], "END", i))

\* One entry for a search on each server.
Sole(q) == \A j, k \in DOMAIN q : q[j].id = q[k].id => j = k

\* All links are up, and nothing but searches is sent on them.
Plain(q)   == \A k \in DOMAIN q : q[k].type \in {"SEARCH", "RESULT", "END"}
Plains(ch) == \A s, t \in Server : Plain(ch[s][t]) /\ (t \notin Edge[s] => ch[s][t] = <<>>)
AllUp      == \A s, t \in Server : end[s][t] = IF t \in Edge[s] THEN "up" ELSE "down"

\* An open request belongs to an entry, except where the asker is.
Rooted(ask, ch, pe) ==
  \A s, t \in Server, i \in Id :
    Open(ch, pe, s, t, i) => (\E k \in DOMAIN pe[s] : pe[s][k].id = i) \/ At[ask[i]] = s

\* The links that entry e of s waits for are those with an open request.
Waiting(ch, pe, s, e) == {t \in Edge[s] \ {e.con} : Open(ch, pe, s, t, e.id)}
Counts(ch, pe) ==
  \A s \in Server : \A k \in DOMAIN pe[s] :
    pe[s][k].num - pe[s][k].count = Cardinality(Waiting(ch, pe, s, pe[s][k]))

\* Who has heard of the end has no open request.
Over(ask, h, ch, pe) ==
  \A i \in Id : h[i].ends > 0 =>
    \A t \in Edge[At[ask[i]]] : ~Open(ch, pe, At[ask[i]], t, i)

AnsweredInv ==
  /\ ServiceInv /\ AllUp /\ Plains(chan) /\ now <= MaxTime /\ Singles(chan) /\ Exclusive(chan, pend)
  /\ \A s \in Server : Sole(pend[s])
  /\ Rooted(asker, chan, pend) /\ Counts(chan, pend) /\ Over(asker, heard, chan, pend)

\* Reading a message takes it away and no other.
LEMMA TailHas ==
  ASSUME NEW T, NEW q \in Seq(T), q # <<>>, NEW type, NEW i, Single(q, type, i)
  PROVE  /\ Has(Tail(q), type, i) <=> Has(q, type, i) /\ ~(Head(q).type = type /\ Head(q).id = i)
         /\ Single(Tail(q), type, i)
<1> DEFINE r == Tail(q)
<1>1. /\ \A k \in DOMAIN r : k + 1 \in DOMAIN q /\ r[k] = q[k + 1] /\ k \in Nat /\ k # 0
      /\ \A k \in DOMAIN q : k = 1 \/ (k - 1 \in DOMAIN r /\ r[k - 1] = q[k])
      /\ 1 \in DOMAIN q /\ Head(q) = q[1]
  OBVIOUS
<1> HIDE DEF r
<1>2. Single(r, type, i)
  <2> SUFFICES ASSUME NEW j \in DOMAIN r, NEW k \in DOMAIN r, r[j].type = type, r[j].id = i,
                      r[k].type = type, r[k].id = i
               PROVE  j = k
    BY DEF Single
  <2>1. j + 1 = k + 1
    BY <1>1 DEF Single
  <2> QED BY <1>1, <2>1
<1>3. Has(r, type, i) => Has(q, type, i) /\ ~(Head(q).type = type /\ Head(q).id = i)
  <2> SUFFICES ASSUME NEW k \in DOMAIN r, r[k].type = type, r[k].id = i
               PROVE  Has(q, type, i) /\ ~(Head(q).type = type /\ Head(q).id = i)
    BY DEF Has
  <2>1. k + 1 \in DOMAIN q /\ q[k + 1].type = type /\ q[k + 1].id = i /\ k + 1 # 1
    BY <1>1
  <2> QED BY <1>1, <2>1 DEF Has, Single
<1>4. Has(q, type, i) /\ ~(Head(q).type = type /\ Head(q).id = i) => Has(r, type, i)
  BY <1>1 DEF Has
<1> QED BY <1>2, <1>3, <1>4 DEF r

\* What two sequences in a row have.
LEMMA ConcatHas ==
  ASSUME NEW T, NEW p \in Seq(T), NEW q \in Seq(T), NEW type, NEW i
  PROVE  /\ Has(p \o q, type, i) <=> Has(p, type, i) \/ Has(q, type, i)
         /\ Single(p, type, i) /\ Single(q, type, i) /\ ~(Has(p, type, i) /\ Has(q, type, i))
              => Single(p \o q, type, i)
<1> DEFINE r == p \o q
<1>1. /\ \A k \in DOMAIN p : k \in DOMAIN r /\ r[k] = p[k]
      /\ \A k \in DOMAIN q : k + Len(p) \in DOMAIN r /\ r[k + Len(p)] = q[k]
      /\ DOMAIN r \subseteq Int /\ Len(p) \in Int
  OBVIOUS
<1>2. \A k \in DOMAIN r : \/ k \in DOMAIN p /\ r[k] = p[k]
                          \/ k - Len(p) \in DOMAIN q /\ r[k] = q[k - Len(p)]
  BY ConcatElements
<1> HIDE DEF r
<1>3. Has(r, type, i) <=> Has(p, type, i) \/ Has(q, type, i)
  BY <1>1, <1>2 DEF Has
<1>4. ASSUME Single(p, type, i), Single(q, type, i), ~(Has(p, type, i) /\ Has(q, type, i)),
             NEW j \in DOMAIN r, NEW k \in DOMAIN r, r[j].type = type, r[j].id = i,
             r[k].type = type, r[k].id = i
      PROVE  j = k
  <2>1. CASE Has(p, type, i)
    <3>1. ~Has(q, type, i)
      BY <1>4, <2>1
    <3> QED BY <1>2, <1>4, <3>1 DEF Has, Single
  <2>2. CASE ~Has(p, type, i)
    <3>1. j - Len(p) = k - Len(p)
      BY <1>2, <1>4, <2>2 DEF Has, Single
    <3> QED BY <1>1, <3>1
  <2> QED BY <2>1, <2>2
<1> QED BY <1>3, <1>4 DEF Single, r

\* In a whole network the links of s are its edges, and all messages sent arrive.
LEMMA WholeLinks ==
  ASSUME AllUp, NEW s \in Server
  PROVE  /\ Links(s) = Edge[s] /\ Servers(s) = Edge[s] /\ s \notin Edge[s]
         /\ \A t \in Edge[s] : t \in Server /\ s \in Edge[t] /\ end[t][s] = "up" /\ end[s][t] = "up"
<1>1. Edge[s] \subseteq Server /\ s \notin Edge[s] /\ \A t \in Edge[s] : s \in Edge[t]
  BY Setting
<1>2. \A t \in Server : end[s][t] = (IF t \in Edge[s] THEN "up" ELSE "down")
                        /\ end[t][s] = (IF s \in Edge[t] THEN "up" ELSE "down")
  BY DEF AllUp
<1> QED BY <1>1, <1>2 DEF Links, Servers

\* What links have after something has been sent.
Sent(ch, new, s, S, msgs) ==
  \A u, v \in Server :
    new[u][v] = IF u = s /\ v \in S \cap Edge[s] THEN ch[u][v] \o msgs ELSE ch[u][v]

LEMMA SendSent ==
  ASSUME AllUp, NEW ch \in Chans, NEW s \in Server, NEW S, NEW msgs
  PROVE  Sent(ch, Send(ch, s, S, msgs), s, S, msgs)
<1>1. Links(s) = Edge[s] /\ \A t \in Edge[s] : end[t][s] = "up"
  BY WholeLinks
<1>2. \A u, v \in Server : Send(ch, s, S, msgs)[u][v] =
        IF u = s /\ v \in S \cap Links(s) /\ end[v][s] # "down" THEN ch[s][v] \o msgs ELSE ch[u][v]
  BY DEF Send, Chans
<1> QED BY <1>1, <1>2 DEF Sent

\* The kinds of messages that count here.
Kinds == {"SEARCH", "END"}

\* One link more may have message m of a search.
LEMMA SentHas ==
  ASSUME NEW ch \in Chans, NEW new, NEW s \in Server, NEW S, NEW msgs \in Seq(Message),
         Sent(ch, new, s, S, msgs), NEW u \in Server, NEW v \in Server, NEW type \in Kinds,
         NEW i \in Id
  PROVE  /\ Has(new[u][v], type, i) <=>
              Has(ch[u][v], type, i) \/ (u = s /\ v \in S \cap Edge[s] /\ Has(msgs, type, i))
         /\ Single(ch[u][v], type, i) /\ Single(msgs, type, i)
              /\ ~(u = s /\ v \in S \cap Edge[s] /\ Has(ch[u][v], type, i) /\ Has(msgs, type, i))
              => Single(new[u][v], type, i)
<1>1. ch[u][v] \in Seq(Message)
  BY DEF Chans
<1>2. CASE u = s /\ v \in S \cap Edge[s]
  <2>1. new[u][v] = ch[u][v] \o msgs
    BY <1>2 DEF Sent
  <2> QED BY <1>1, <1>2, <2>1, ConcatHas
<1>3. CASE ~(u = s /\ v \in S \cap Edge[s])
  <2>1. new[u][v] = ch[u][v]
    BY <1>3 DEF Sent
  <2> QED BY <1>3, <2>1
<1> QED BY <1>2, <1>3

LEMMA SentPlain ==
  ASSUME NEW ch \in Chans, NEW new, NEW s \in Server, NEW S, NEW msgs \in Seq(Message),
         Sent(ch, new, s, S, msgs), Plains(ch), Plain(msgs)
  PROVE  Plains(new)
<1>0. \A u, v \in Server : v \notin Edge[u] => new[u][v] = <<>>
  BY DEF Plains, Sent
<1> SUFFICES ASSUME NEW u \in Server, NEW v \in Server PROVE Plain(new[u][v])
  BY <1>0 DEF Plains
<1>1. ch[u][v] \in Seq(Message) /\ Plain(ch[u][v])
  BY DEF Chans, Plains
<1>2. CASE new[u][v] = ch[u][v]
  BY <1>1, <1>2
<1>3. CASE new[u][v] = ch[u][v] \o msgs
  <2>1. \A k \in DOMAIN (ch[u][v] \o msgs) :
          \/ k \in DOMAIN ch[u][v] /\ (ch[u][v] \o msgs)[k] = ch[u][v][k]
          \/ k - Len(ch[u][v]) \in DOMAIN msgs /\ (ch[u][v] \o msgs)[k] = msgs[k - Len(ch[u][v])]
    BY <1>1, ConcatElements
  <2> QED BY <1>1, <1>3, <2>1 DEF Plain
<1> QED BY <1>2, <1>3 DEF Sent

\* What links have after a message has been read.
LEMMA ReadHas ==
  ASSUME TypeOK, Singles(chan), NEW s \in Server, NEW t \in Server, chan[t][s] # <<>>,
         NEW u \in Server, NEW v \in Server, NEW type \in Kinds, NEW i \in Id
  PROVE  /\ Has(Received(t, s)[u][v], type, i) <=>
              /\ Has(chan[u][v], type, i)
              /\ ~(u = t /\ v = s /\ Head(chan[t][s]).type = type /\ Head(chan[t][s]).id = i)
         /\ Single(Received(t, s)[u][v], type, i)
<1>1. chan \in Chans /\ chan[t][s] \in Seq(Message)
  BY DEF TypeOK, Chans
<1>2. Received(t, s)[u][v] = IF u = t /\ v = s THEN Tail(chan[t][s]) ELSE chan[u][v]
  BY <1>1 DEF Received, Chans
<1>3. Single(chan[u][v], type, i) /\ Single(chan[t][s], type, i)
  BY DEF Singles, Kinds
<1>4. CASE u = t /\ v = s
  <2>1. /\ Has(Tail(chan[t][s]), type, i) <=>
             Has(chan[t][s], type, i) /\ ~(Head(chan[t][s]).type = type /\ Head(chan[t][s]).id = i)
        /\ Single(Tail(chan[t][s]), type, i)
    BY <1>1, <1>3, TailHas
  <2> QED BY <1>2, <1>4, <2>1
<1>5. CASE ~(u = t /\ v = s)
  BY <1>2, <1>3, <1>5
<1> QED BY <1>4, <1>5

\* q has no request and no END, and it has that of search i alone.
Bare(q)          == \A type \in Kinds, j \in Id : ~Has(q, type, j) /\ Single(q, type, j)
Bears(q, one, i) == \A type \in Kinds, j \in Id :
                      (Has(q, type, j) <=> type = one /\ j = i) /\ Single(q, type, j)

\* What is sent for a request.
LEMMA SendsBear ==
  ASSUME NEW i \in Id
  PROVE  /\ \A n \in Nat : Bare(Results(i, n))
         /\ \A max \in Int : Bears(<<Request(i, max)>>, "SEARCH", i)
         /\ Bears(<<End(i)>>, "END", i) /\ Bare(<<>>)
<1>1. ASSUME NEW n \in Nat PROVE Bare(Results(i, n))
  <2>1. \A k \in DOMAIN Results(i, n) : Results(i, n)[k].type = "RESULT"
    BY DEF Results
  <2> QED BY <2>1 DEF Bare, Has, Single, Kinds
<1>2. ASSUME NEW max \in Int PROVE Bears(<<Request(i, max)>>, "SEARCH", i)
  <2> DEFINE q == <<Request(i, max)>>
  <2>1. DOMAIN q = {1} /\ q[1].type = "SEARCH" /\ q[1].id = i
    BY DEF Request
  <2> HIDE DEF q
  <2>2. Bears(q, "SEARCH", i)
    BY <2>1 DEF Bears, Has, Single, Kinds
  <2> QED BY <2>2 DEF q
<1>3. Bears(<<End(i)>>, "END", i)
  <2> DEFINE q == <<End(i)>>
  <2>1. DOMAIN q = {1} /\ q[1].type = "END" /\ q[1].id = i
    BY DEF End
  <2> HIDE DEF q
  <2>2. Bears(q, "END", i)
    BY <2>1 DEF Bears, Has, Single, Kinds
  <2> QED BY <2>2 DEF q
<1>4. Bare(<<>>)
  BY DEF Bare, Has, Single
<1> QED BY <1>1, <1>2, <1>3, <1>4

\* While it is early a look-up finds all entries and drops none.
LEMMA NothingExpires ==
  ASSUME AnsweredInv, Undisturbed, NEW s \in Server, NEW i
  PROVE  Kept(s, i) = pend[s] /\ Dropped(s, i) = <<>>
<1> DEFINE q == pend[s]
<1>1. TypeOK /\ q \in Seq(Entry) /\ now \in Nat /\ now <= MaxTime
  BY DEF AnsweredInv, ServiceInv, RoutedInv, SearchInv, TypeOK
<1>2. MaxTime \in Nat /\ Search_Timeout \in Nat
  BY Setting
<1>3. Passed(s, i) \in SUBSET DOMAIN q
  BY <1>1, LookUpTyped
<1>4. \A k \in DOMAIN q : ~Expired(q[k])
  <2> SUFFICES ASSUME NEW k \in DOMAIN q PROVE ~Expired(q[k])
    OBVIOUS
  <2>1. q[k].ts \in Nat
    <3>1. q[k] \in Entry
      BY <1>1, ElementOfSeq
    <3> QED BY <3>1 DEF Entry
  <2> QED BY <1>1, <1>2, <2>1 DEF Expired, Undisturbed
<1>5. Passed(s, i) = {}
  BY <1>3, <1>4 DEF Passed
<1>6. Sift(q, {}) = <<>>
  <2>1. CASE DOMAIN q = {}
    <3>1. Len(q) \in Nat /\ DOMAIN q = 1 .. Len(q)
      BY <1>1
    <3> HIDE DEF q
    <3>2. Len(q) = 0
      <4>1. 1 \notin 1 .. Len(q)
        BY <2>1, <3>1
      <4> QED BY <3>1, <4>1
    <3>3. q # <<>> => Len(q) \in Nat \ {0}
      BY <1>1, EmptySeq
    <3>4. q = <<>>
      BY <3>2, <3>3
    <3> QED BY <2>1, <3>4 DEF Sift
  <2>2. CASE DOMAIN q # {}
    <3>1. Cardinality({}) = 0
      BY FS_EmptySet
    <3> QED BY <2>2, <3>1 DEF Sift
  <2> QED BY <2>1, <2>2
<1>7. Sift(q, DOMAIN q) = q
  BY DEF Sift
<1> QED BY <1>5, <1>6, <1>7 DEF Kept, Dropped

\* The requests for search i that a server s leaves open which is asked by con: that of con,
\* and those it sends if it passes the request on.
Opened(fwd, s, con, i, u, v, j) ==
  j = i /\ ((u = con /\ v = s) \/ (fwd /\ u = s /\ v \in Edge[s] \ {con}))

\* s answers the request of con for search i with msgs, or passes it on as req and keeps
\* an entry e; ch is what is in flight without the request.
Replied(fwd, s, con, i, ch, msgs, req, e) ==
  /\ Plain(msgs) /\ Plain(req) /\ Bears(req, "SEARCH", i)
  /\ (fwd => Bare(msgs)) /\ (~fwd => Bears(msgs, "END", i))
  /\ e.id = i /\ e.con = con
  /\ pend' = IF fwd THEN [pend EXCEPT ![s] = Append(@, e)] ELSE pend
  /\ LET back == IF con \in Client THEN ch ELSE Send(ch, s, {con}, msgs)
     IN  chan' = IF fwd THEN Send(back, s, Edge[s] \ {con}, req) ELSE back

\* What then is in flight and open.
Opens(fwd, s, con, i, ch) ==
  /\ Plains(chan') /\ Singles(chan') /\ Exclusive(chan', pend')
  /\ \A u, v \in Server, j \in Id :
       Open(chan', pend', u, v, j) <=> Open(ch, pend, u, v, j) \/ Opened(fwd, s, con, i, u, v, j)

\* An element comes last.
LEMMA AppendPlaces ==
  ASSUME NEW T, NEW q \in Seq(T), NEW e \in T
  PROVE  /\ \A k \in DOMAIN Append(q, e) : \/ k \in DOMAIN q /\ Append(q, e)[k] = q[k]
                                           \/ k = Len(q) + 1 /\ Append(q, e)[k] = e
         /\ \A k \in DOMAIN q : k \in DOMAIN Append(q, e) /\ Append(q, e)[k] = q[k]
         /\ Len(q) + 1 \in DOMAIN Append(q, e) /\ Append(q, e)[Len(q) + 1] = e
         /\ Len(q) + 1 \notin DOMAIN q
<1>1. Len(q) \in Nat /\ DOMAIN q = 1 .. Len(q) /\ DOMAIN Append(q, e) = 1 .. Len(q) + 1
  OBVIOUS
<1>2. \A k \in 1 .. Len(q) : Append(q, e)[k] = q[k]
  OBVIOUS
<1>3. Append(q, e)[Len(q) + 1] = e
  OBVIOUS
<1>4. \A k \in 1 .. Len(q) + 1 : k \in 1 .. Len(q) \/ k = Len(q) + 1
  BY <1>1
<1>5. Len(q) + 1 \in 1 .. Len(q) + 1 /\ Len(q) + 1 \notin 1 .. Len(q)
      /\ \A k \in 1 .. Len(q) : k \in 1 .. Len(q) + 1
  BY <1>1
<1> QED BY <1>1, <1>2, <1>3, <1>4, <1>5

LEMMA RequestOpens ==
  ASSUME TypeOK, AllUp, NEW ch \in Chans, Plains(ch), Singles(ch),
         Exclusive(ch, pend), NEW s \in Server, NEW con \in Client \cup Server, NEW i \in Id,
         NEW fwd \in BOOLEAN, NEW msgs \in Seq(Message), NEW req \in Seq(Message), NEW e \in Entry,
         Replied(fwd, s, con, i, ch, msgs, req, e),
         con \in Server => con \in Edge[s] /\ ~Open(ch, pend, con, s, i),
         \A t \in Server : ~Open(ch, pend, s, t, i)
  PROVE  Opens(fwd, s, con, i, ch)
<1> DEFINE back == IF con \in Client THEN ch ELSE Send(ch, s, {con}, msgs)
<1>1. /\ Plain(msgs) /\ Plain(req) /\ Bears(req, "SEARCH", i)
      /\ (fwd => Bare(msgs)) /\ (~fwd => Bears(msgs, "END", i))
      /\ e.id = i /\ e.con = con
  BY DEF Replied
<1> DEFINE peers == Edge[s] \ {con}
<1>2. Links(s) = Edge[s] /\ Edge[s] \subseteq Server /\ s \notin Edge[s]
  BY WholeLinks, Setting
<1>4. /\ pend' = IF fwd THEN [pend EXCEPT ![s] = Append(@, e)] ELSE pend
      /\ chan' = IF fwd THEN Send(back, s, peers, req) ELSE back
  BY DEF Replied
<1>6. ASSUME NEW type \in Kinds, NEW j \in Id
      PROVE  /\ Has(msgs, type, j) <=> ~fwd /\ type = "END" /\ j = i
             /\ Single(msgs, type, j)
             /\ Has(req, type, j) <=> type = "SEARCH" /\ j = i
             /\ Single(req, type, j)
  BY <1>1 DEF Bare, Bears
<1>5. back = IF con \in Client THEN ch ELSE Send(ch, s, {con}, msgs)
  OBVIOUS
<1> HIDE DEF back
<1>7. /\ back \in Chans
      /\ \A u, v \in Server, type \in Kinds, j \in Id :
           /\ Has(back[u][v], type, j) <=>
                \/ Has(ch[u][v], type, j)
                \/ ~fwd /\ u = s /\ v = con /\ type = "END" /\ j = i
           /\ Single(back[u][v], type, j)
  <2>1. CASE con \in Client
    <3>1. con \notin Server /\ back = ch
      BY <1>5, <2>1, Setting
    <3>2. \A u, v \in Server, type \in Kinds, j \in Id : Single(ch[u][v], type, j)
      BY DEF Singles, Kinds
    <3> QED BY <3>1, <3>2
  <2>2. CASE con \notin Client
    <3>1. con \in Server /\ con \in Edge[s] /\ ~Open(ch, pend, con, s, i) /\ back = Send(ch, s, {con}, msgs)
      BY <1>5, <2>2
    <3>2. back \in Chans /\ Sent(ch, back, s, {con}, msgs)
      BY <3>1, SendTyped, SendSent
    <3>3. ASSUME NEW u \in Server, NEW v \in Server, NEW type \in Kinds, NEW j \in Id
          PROVE  /\ Has(back[u][v], type, j) <=>
                      \/ Has(ch[u][v], type, j)
                      \/ ~fwd /\ u = s /\ v = con /\ type = "END" /\ j = i
                 /\ Single(back[u][v], type, j)
      <4>1. /\ Has(back[u][v], type, j) <=>
                 Has(ch[u][v], type, j) \/ (u = s /\ v \in {con} \cap Edge[s] /\ Has(msgs, type, j))
            /\ Single(ch[u][v], type, j) /\ Single(msgs, type, j)
                 /\ ~(u = s /\ v \in {con} \cap Edge[s] /\ Has(ch[u][v], type, j) /\ Has(msgs, type, j))
                 => Single(back[u][v], type, j)
        BY <3>2, SentHas
      <4>2. Single(ch[u][v], type, j)
        BY DEF Singles, Kinds
      <4>3. ~Has(ch[s][con], "END", i)
        BY <3>1 DEF Open
      <4> QED BY <1>6, <3>1, <4>1, <4>2, <4>3
    <3> QED BY <3>2, <3>3
  <2> QED BY <2>1, <2>2
<1>8. \A u, v \in Server, type \in Kinds, j \in Id :
        /\ Has(chan'[u][v], type, j) <=>
             \/ Has(ch[u][v], type, j)
             \/ ~fwd /\ u = s /\ v = con /\ type = "END" /\ j = i
             \/ fwd /\ u = s /\ v \in peers /\ type = "SEARCH" /\ j = i
        /\ Single(chan'[u][v], type, j)
  <2>1. CASE ~fwd
    BY <1>4, <1>7, <2>1
  <2>2. CASE fwd
    <3>1. Sent(back, chan', s, peers, req)
      BY <1>4, <1>7, <2>2, SendSent
    <3>2. ASSUME NEW u \in Server, NEW v \in Server, NEW type \in Kinds, NEW j \in Id
          PROVE  /\ Has(chan'[u][v], type, j) <=>
                      \/ Has(ch[u][v], type, j)
                      \/ u = s /\ v \in peers /\ type = "SEARCH" /\ j = i
                 /\ Single(chan'[u][v], type, j)
      <4>1. /\ Has(chan'[u][v], type, j) <=>
                 Has(back[u][v], type, j) \/ (u = s /\ v \in peers \cap Edge[s] /\ Has(req, type, j))
            /\ Single(back[u][v], type, j) /\ Single(req, type, j)
                 /\ ~(u = s /\ v \in peers \cap Edge[s] /\ Has(back[u][v], type, j) /\ Has(req, type, j))
                 => Single(chan'[u][v], type, j)
        BY <1>7, <2>2, <3>1, SentHas
      <4>2. ~Has(ch[s][v], "SEARCH", i)
        BY DEF Open
      <4>3. /\ Has(back[u][v], type, j) <=> Has(ch[u][v], type, j)
            /\ Single(back[u][v], type, j) /\ Single(req, type, j)
            /\ Has(req, type, j) <=> type = "SEARCH" /\ j = i
        BY <1>6, <1>7, <2>2
      <4>4. v \in peers \cap Edge[s] <=> v \in peers
        OBVIOUS
      <4> HIDE DEF peers
      <4> QED BY <4>1, <4>2, <4>3, <4>4
    <3> QED BY <2>2, <3>2
  <2> QED BY <2>1, <2>2
<1>9. \A u, v \in Server, j \in Id :
        Held(pend', u, v, j) <=> Held(pend, u, v, j) \/ (fwd /\ v = s /\ u = con /\ j = i)
  <2>1. CASE ~fwd
    BY <1>4, <2>1
  <2>2. CASE fwd
    <3>1. \A v \in Server : pend'[v] = IF v = s THEN Append(pend[v], e) ELSE pend[v]
      BY <1>4, <2>2 DEF TypeOK
    <3>2. pend[s] \in Seq(Entry)
      BY DEF TypeOK
    <3>3. e.id = i /\ e.con = con
      BY <1>1
    <3>4. /\ \A k \in DOMAIN Append(pend[s], e) :
               \/ k \in DOMAIN pend[s] /\ Append(pend[s], e)[k] = pend[s][k]
               \/ Append(pend[s], e)[k] = e
          /\ \A k \in DOMAIN pend[s] : /\ k \in DOMAIN Append(pend[s], e)
                                       /\ Append(pend[s], e)[k] = pend[s][k]
          /\ \E k \in DOMAIN Append(pend[s], e) : Append(pend[s], e)[k] = e
      BY <3>2, AppendPlaces
    <3>5. ASSUME NEW u \in Server, NEW v \in Server, NEW j \in Id
          PROVE  Held(pend', u, v, j) <=> Held(pend, u, v, j) \/ (v = s /\ u = con /\ j = i)
      <4>1. CASE v = s
        <5> DEFINE new == Append(pend[s], e)
        <5>1. pend'[v] = new /\ pend[v] = pend[s]
          BY <3>1, <4>1
        <5> HIDE DEF new
        <5>2. Held(pend', u, v, j) => Held(pend, u, v, j) \/ (u = con /\ j = i)
          BY <3>3, <3>4, <5>1 DEF Held, new
        <5>3. Held(pend, u, v, j) => Held(pend', u, v, j)
          BY <3>4, <5>1 DEF Held, new
        <5>4. u = con /\ j = i => Held(pend', u, v, j)
          BY <3>3, <3>4, <5>1 DEF Held, new
        <5> QED BY <4>1, <5>2, <5>3, <5>4
      <4>2. CASE v # s
        BY <3>1, <4>2 DEF Held
      <4> QED BY <4>1, <4>2
    <3> QED BY <2>2, <3>5
  <2> QED BY <2>1, <2>2
<1>16. Plains(chan')
  <2>1. Plains(back)
    <3>1. con \notin Client => Sent(ch, back, s, {con}, msgs)
      BY <1>5, SendSent
    <3> QED BY <1>1, <1>5, <3>1, SentPlain
  <2>2. fwd => Sent(back, chan', s, Edge[s] \ {con}, req)
    BY <1>4, <1>7, SendSent
  <2> QED BY <1>1, <1>4, <1>7, <2>1, <2>2, SentPlain
<1>10. "SEARCH" \in Kinds /\ "END" \in Kinds
  BY DEF Kinds
<1>11. Singles(chan')
  BY <1>8, <1>10 DEF Singles
<1>12. ASSUME NEW u \in Server, NEW v \in Server, NEW j \in Id
       PROVE  /\ Has(chan'[u][v], "SEARCH", j) <=>
                   Has(ch[u][v], "SEARCH", j) \/ (fwd /\ u = s /\ v \in peers /\ j = i)
              /\ Has(chan'[v][u], "END", j) <=>
                   Has(ch[v][u], "END", j) \/ (~fwd /\ v = s /\ u = con /\ j = i)
              /\ Held(pend', u, v, j) <=> Held(pend, u, v, j) \/ (fwd /\ v = s /\ u = con /\ j = i)
  BY <1>8, <1>9, <1>10
<1> HIDE DEF peers
<1>13. peers = Edge[s] \ {con} /\ (s \notin peers)
  BY <1>2 DEF peers
<1>14. Exclusive(chan', pend')
  <2> SUFFICES ASSUME NEW u \in Server, NEW v \in Server, NEW j \in Id
               PROVE  /\ ~(Has(chan'[u][v], "SEARCH", j) /\ Held(pend', u, v, j))
                      /\ ~(Has(chan'[u][v], "SEARCH", j) /\ Has(chan'[v][u], "END", j))
                      /\ ~(Held(pend', u, v, j) /\ Has(chan'[v][u], "END", j))
    BY DEF Exclusive
  <2>1. /\ ~(Has(ch[u][v], "SEARCH", j) /\ Held(pend, u, v, j))
        /\ ~(Has(ch[u][v], "SEARCH", j) /\ Has(ch[v][u], "END", j))
        /\ ~(Held(pend, u, v, j) /\ Has(ch[v][u], "END", j))
    BY DEF Exclusive
  <2>2. u = con /\ v = s /\ j = i =>
          ~Has(ch[u][v], "SEARCH", j) /\ ~Held(pend, u, v, j) /\ ~Has(ch[v][u], "END", j)
    BY DEF Open
  <2>3. u = s /\ j = i =>
          ~Has(ch[u][v], "SEARCH", j) /\ ~Held(pend, u, v, j) /\ ~Has(ch[v][u], "END", j)
    BY DEF Open
  <2> QED BY <1>12, <1>13, <2>1, <2>2, <2>3
<1>15. ASSUME NEW u \in Server, NEW v \in Server, NEW j \in Id
       PROVE  Open(chan', pend', u, v, j) <=>
                Open(ch, pend, u, v, j) \/ Opened(fwd, s, con, i, u, v, j)
  BY <1>12, <1>13 DEF Open, Opened
<1> QED BY <1>11, <1>14, <1>15, <1>16 DEF Opens

LEMMA ReadPlain ==
  ASSUME TypeOK, Plains(chan), NEW s \in Server, NEW t \in Server, chan[t][s] # <<>>
  PROVE  Plains(Received(t, s))
<1>0. \A u, v \in Server : v \notin Edge[u] => Received(t, s)[u][v] = <<>>
  BY DEF Plains, Received, TypeOK
<1> SUFFICES ASSUME NEW u \in Server, NEW v \in Server PROVE Plain(Received(t, s)[u][v])
  BY <1>0 DEF Plains
<1>1. chan \in Chans /\ chan[t][s] \in Seq(Message) /\ Plain(chan[t][s]) /\ Plain(chan[u][v])
  BY DEF TypeOK, Chans, Plains
<1>2. Received(t, s)[u][v] = IF u = t /\ v = s THEN Tail(chan[t][s]) ELSE chan[u][v]
  BY <1>1 DEF Received, Chans
<1>3. \A k \in DOMAIN Tail(chan[t][s]) : k + 1 \in DOMAIN chan[t][s]
                                         /\ Tail(chan[t][s])[k] = chan[t][s][k + 1]
  BY <1>1
<1> QED BY <1>1, <1>2, <1>3 DEF Plain

LEMMA SendsPlain ==
  ASSUME NEW i \in Id
  PROVE  /\ \A n \in Nat : Plain(Results(i, n))
         /\ \A max \in Int : Plain(<<Request(i, max)>>)
         /\ Plain(<<End(i)>>) /\ Plain(<<>>)
<1>1. ASSUME NEW n \in Nat PROVE Plain(Results(i, n))
  BY DEF Plain, Results
<1>2. ASSUME NEW max \in Int PROVE Plain(<<Request(i, max)>>)
  BY DEF Plain, Request
<1>3. Plain(<<End(i)>>)
  BY DEF Plain, End
<1>4. Plain(<<>>)
  BY DEF Plain
<1> QED BY <1>1, <1>2, <1>3, <1>4

\* The entry s keeps for it.
New(s, con, i) ==
  [id |-> i, con |-> con, count |-> 0, num |-> Cardinality(Edge[s] \ {con}), ts |-> now]
Served(fwd, s, con, i, ch) ==
  /\ Opens(fwd, s, con, i, ch)
  /\ pend' = IF fwd THEN [pend EXCEPT ![s] = Append(@, New(s, con, i))] ELSE pend
  /\ IF con \notin Client THEN heard' = heard
     ELSE \E n \in Nat : heard' = [heard EXCEPT ![i] = [hits |-> n, ends |-> IF fwd THEN 0 ELSE 1]]

\* search_internal() passes the request on or answers it.
LEMMA InternalOpens ==
  ASSUME TypeOK, AllUp, NEW ch \in Chans, Plains(ch), Singles(ch),
         Exclusive(ch, pend), NEW s \in Server, NEW con \in Client \cup Server, NEW i \in Id,
         NEW max \in Nat, NEW local \in BOOLEAN, SearchInternal(s, con, i, max, local, ch),
         con \in Server => con \in Edge[s] /\ ~Open(ch, pend, con, s, i),
         \A t \in Server : ~Open(ch, pend, s, t, i)
  PROVE  \E fwd \in BOOLEAN : Served(fwd, s, con, i, ch)
<1> DEFINE n == LocalHits(s, max)
           fwd == n < max /\ ~local /\ Expected(s, con) > 0
           ends == IF fwd THEN <<>> ELSE <<End(i)>>
           msgs == Results(i, n) \o ends
           back == IF con \in Client THEN ch ELSE Send(ch, s, {con}, msgs)
           req == IF fwd THEN <<Request(i, max - n)>> ELSE <<Request(i, 0)>>
           e == New(s, con, i)
<1>1. n \in Nat /\ (n < max => max - n \in Nat) /\ max - n \in Int /\ 0 \in Nat
  BY Numbers
<1>2. /\ Links(s) = Edge[s] /\ Peers(s, con) = Edge[s] \ {con}
      /\ Expected(s, con) = Cardinality(Edge[s] \ {con})
  <2>1. Links(s) = Edge[s] /\ Servers(s) = Edge[s]
    BY WholeLinks
  <2>2. IsFiniteSet(Edge[s]) /\ Cardinality(Edge[s]) \in Nat
    BY <2>1, LinksFinite
  <2> DEFINE all == Cardinality(Edge[s])
  <2>3. Expected(s, con) = all - (IF con \in Server THEN 1 ELSE 0) /\ Peers(s, con) = Edge[s] \ {con}
    BY <2>1 DEF Expected, Peers
  <2>4. CASE con \in Server
    <3>0. con \in Edge[s]
      BY <2>4
    <3>1. Cardinality(Edge[s] \ {con}) = all - 1
      BY <2>2, <3>0, FS_RemoveElement
    <3> QED BY <2>1, <2>3, <2>4, <3>1
  <2>5. CASE con \notin Server
    <3>1. Edge[s] \ {con} = Edge[s]
      BY <2>5, Setting
    <3>2. Cardinality(Edge[s] \ {con}) = all
      BY <3>1
    <3> HIDE DEF all
    <3>3. all - 0 = all
      BY <2>2 DEF all
    <3> QED BY <2>1, <2>3, <2>5, <3>2, <3>3
  <2> QED BY <2>4, <2>5
<1>3. /\ pend' = IF fwd THEN [pend EXCEPT ![s] = Append(@, e)] ELSE pend
      /\ chan' = IF fwd THEN Send(back, s, Edge[s] \ {con}, req) ELSE back
      /\ IF con \notin Client THEN heard' = heard
         ELSE heard' = [heard EXCEPT ![i] = [hits |-> n, ends |-> IF fwd THEN 0 ELSE 1]]
  BY <1>2 DEF SearchInternal, New
<1>4. /\ Results(i, n) \in Seq(Message) /\ ends \in Seq(Message) /\ req \in Seq(Message)
  <2>1. \A k \in Nat : <<Request(i, k)>> \in Seq(Message)
    BY DEF Request, Message
  <2>2. <<End(i)>> \in Seq(Message) /\ <<>> \in Seq(Message)
    BY DEF End, Message
  <2> HIDE DEF n
  <2>3. Results(i, n) \in Seq(Message)
    BY <1>1, ResultsTyped
  <2>4. ends \in Seq(Message)
    BY <2>2
  <2>5. fwd => n < max
    OBVIOUS
  <2>6. <<Request(i, 0)>> \in Seq(Message) /\ (n < max => <<Request(i, max - n)>> \in Seq(Message))
    BY <1>1, <2>1
  <2> HIDE DEF fwd
  <2>7. req \in Seq(Message)
    BY <2>5, <2>6
  <2> QED BY <2>3, <2>4, <2>7
<1>5. fwd \in BOOLEAN /\ e.id = i /\ e.con = con
  BY DEF New
<1>6. /\ Bare(Results(i, n)) /\ Plain(Results(i, n)) /\ Plain(ends)
      /\ Plain(req) /\ Bears(req, "SEARCH", i)
      /\ fwd => Bare(ends)
      /\ ~fwd => Bears(ends, "END", i)
  <2> HIDE DEF n
  <2>0. \A k \in Int : Bears(<<Request(i, k)>>, "SEARCH", i) /\ Plain(<<Request(i, k)>>)
    BY SendsBear, SendsPlain
  <2>1. /\ Bears(<<Request(i, max - n)>>, "SEARCH", i) /\ Plain(<<Request(i, max - n)>>)
        /\ Bears(<<Request(i, 0)>>, "SEARCH", i) /\ Plain(<<Request(i, 0)>>)
    BY <1>1, <2>0
  <2>2. Bare(Results(i, n)) /\ Plain(Results(i, n))
    BY <1>1, SendsBear, SendsPlain
  <2>3. Bears(<<End(i)>>, "END", i) /\ Bare(<<>>) /\ Plain(<<End(i)>>) /\ Plain(<<>>)
    BY SendsBear, SendsPlain
  <2> QED BY <2>1, <2>2, <2>3
<1> HIDE DEF n, fwd, ends, req, e, back
<1>7. /\ msgs \in Seq(Message) /\ Plain(msgs)
      /\ fwd => Bare(msgs)
      /\ ~fwd => Bears(msgs, "END", i)
  <2> DEFINE r == Results(i, n)
  <2>1. r \in Seq(Message) /\ Bare(r) /\ Plain(r)
    BY <1>4, <1>6
  <2> HIDE DEF r
  <2>2. ASSUME NEW type \in Kinds, NEW j \in Id
        PROVE  /\ Has(r \o ends, type, j) <=> Has(ends, type, j)
               /\ Single(ends, type, j) => Single(r \o ends, type, j)
    <3>1. ~Has(r, type, j) /\ Single(r, type, j)
      BY <2>1 DEF Bare
    <3> QED BY <1>4, <2>1, <3>1, ConcatHas
  <2>3. (fwd => Bare(r \o ends)) /\ (~fwd => Bears(r \o ends, "END", i))
    BY <1>6, <2>2 DEF Bare, Bears
  <2>4. r \o ends \in Seq(Message)
    BY <1>4, <2>1
  <2>5. Plain(r \o ends)
    <3>1. \A k \in DOMAIN (r \o ends) :
            \/ k \in DOMAIN r /\ (r \o ends)[k] = r[k]
            \/ k - Len(r) \in DOMAIN ends /\ (r \o ends)[k] = ends[k - Len(r)]
      BY <1>4, <2>1, ConcatElements
    <3> QED BY <1>6, <2>1, <3>1 DEF Plain
  <2> QED BY <2>3, <2>4, <2>5 DEF r
<1>8. e \in Entry
  <2>1. Cardinality(Edge[s] \ {con}) \in Nat /\ now \in Nat
    BY <1>2, LinksFinite DEF TypeOK
  <2> QED BY <2>1 DEF Entry, New, e
<1>9. Replied(fwd, s, con, i, ch, msgs, req, e)
  BY <1>3, <1>5, <1>6, <1>7 DEF Replied, back
<1>10. Opens(fwd, s, con, i, ch)
  <2> HIDE DEF msgs
  <2> QED BY <1>4, <1>5, <1>7, <1>8, <1>9, RequestOpens
<1>11. Served(fwd, s, con, i, ch)
  BY <1>1, <1>3, <1>10 DEF e, Served
<1> QED BY <1>5, <1>11

\* A request that s passes on has become one entry, and one open request for each link
\* it was passed to.
Grown(fwd, s, con, i) ==
  /\ pend' = IF fwd THEN [pend EXCEPT ![s] = Append(@, New(s, con, i))] ELSE pend
  /\ \A u, v \in Server, j \in Id :
       Open(chan', pend', u, v, j) <=>
         Open(chan, pend, u, v, j) \/ (fwd /\ j = i /\ u = s /\ v \in Edge[s] \ {con})
  /\ \A k \in DOMAIN pend[s] : pend[s][k].id # i
  /\ \A u, v \in Server, j \in Id : Open(chan, pend, u, v, j) => asker'[j] = asker[j]
Counted(ask, ch, pe) ==
  (\A u \in Server : Sole(pe[u])) /\ Rooted(ask, ch, pe) /\ Counts(ch, pe)

\* A new entry at s waits for the links that were asked, and no other entry is concerned.
LEMMA GrowAnswers ==
  ASSUME AnsweredInv, NEW s \in Server, NEW con \in Client \cup Server, NEW i \in Id,
         NEW fwd \in BOOLEAN, Grown(fwd, s, con, i)
  PROVE  Counted(asker', chan', pend')
<1>0. /\ pend' = IF fwd THEN [pend EXCEPT ![s] = Append(@, New(s, con, i))] ELSE pend
      /\ \A u, v \in Server, j \in Id :
           Open(chan', pend', u, v, j) <=>
             Open(chan, pend, u, v, j) \/ (fwd /\ j = i /\ u = s /\ v \in Edge[s] \ {con})
      /\ \A k \in DOMAIN pend[s] : pend[s][k].id # i
      /\ \A u, v \in Server, j \in Id : Open(chan, pend, u, v, j) => asker'[j] = asker[j]
  BY DEF Grown
<1> DEFINE e == New(s, con, i)
<1>1. /\ TypeOK /\ AllUp /\ (\A u \in Server : Sole(pend[u]) /\ pend[u] \in Seq(Entry))
      /\ Rooted(asker, chan, pend) /\ Counts(chan, pend)
  BY DEF AnsweredInv, ServiceInv, RoutedInv, SearchInv, TypeOK
<1>2. Links(s) = Edge[s] /\ \A u \in Server : Edge[u] \subseteq Server
  BY <1>1, WholeLinks, Setting
<1>3. /\ e \in Entry /\ e.id = i /\ e.con = con
      /\ e.num - e.count = Cardinality(Edge[s] \ {con})
  <2>1. Cardinality(Edge[s] \ {con}) \in Nat /\ now \in Nat
    BY <1>1, <1>2, LinksFinite DEF TypeOK
  <2> QED BY <2>1 DEF Entry, New
<1> HIDE DEF e
<1>4. \A u \in Server :
        /\ \A k \in DOMAIN pend'[u] :
             \/ k \in DOMAIN pend[u] /\ pend'[u][k] = pend[u][k]
             \/ fwd /\ u = s /\ k = Len(pend[s]) + 1 /\ pend'[u][k] = e
        /\ \A k \in DOMAIN pend[u] : k \in DOMAIN pend'[u] /\ pend'[u][k] = pend[u][k]
        /\ fwd /\ u = s => \E k \in DOMAIN pend'[u] : pend'[u][k] = e
  <2>1. CASE ~fwd
    BY <1>0, <2>1
  <2>2. CASE fwd
    <3>1. \A u \in Server : pend'[u] = IF u = s THEN Append(pend[s], e) ELSE pend[u]
      BY <1>0, <1>1, <2>2 DEF TypeOK, e
    <3>2. pend[s] \in Seq(Entry)
      BY <1>1
    <3>3. /\ \A k \in DOMAIN Append(pend[s], e) :
               \/ k \in DOMAIN pend[s] /\ Append(pend[s], e)[k] = pend[s][k]
               \/ k = Len(pend[s]) + 1 /\ Append(pend[s], e)[k] = e
          /\ \A k \in DOMAIN pend[s] : /\ k \in DOMAIN Append(pend[s], e)
                                       /\ Append(pend[s], e)[k] = pend[s][k]
          /\ \E k \in DOMAIN Append(pend[s], e) : Append(pend[s], e)[k] = e
      BY <1>3, <3>2, AppendPlaces
    <3>4. ASSUME NEW u \in Server
          PROVE  /\ \A k \in DOMAIN pend'[u] :
                      \/ k \in DOMAIN pend[u] /\ pend'[u][k] = pend[u][k]
                      \/ u = s /\ k = Len(pend[s]) + 1 /\ pend'[u][k] = e
                 /\ \A k \in DOMAIN pend[u] : k \in DOMAIN pend'[u] /\ pend'[u][k] = pend[u][k]
                 /\ u = s => \E k \in DOMAIN pend'[u] : pend'[u][k] = e
      <4>1. CASE u = s
        BY <3>1, <3>3, <4>1
      <4>2. CASE u # s
        BY <3>1, <4>2
      <4> QED BY <4>1, <4>2
    <3> QED BY <2>2, <3>4
  <2> QED BY <2>1, <2>2
<1>5. ASSUME NEW u \in Server PROVE Sole(pend'[u])
  <2> SUFFICES ASSUME NEW j \in DOMAIN pend'[u], NEW k \in DOMAIN pend'[u],
                      pend'[u][j].id = pend'[u][k].id
               PROVE  j = k
    BY DEF Sole
  <2>1. \/ j \in DOMAIN pend[u] /\ pend'[u][j] = pend[u][j]
        \/ fwd /\ u = s /\ j = Len(pend[s]) + 1 /\ pend'[u][j] = e
    BY <1>4
  <2>2. \/ k \in DOMAIN pend[u] /\ pend'[u][k] = pend[u][k]
        \/ fwd /\ u = s /\ k = Len(pend[s]) + 1 /\ pend'[u][k] = e
    BY <1>4
  <2> QED BY <1>0, <1>1, <1>3, <2>1, <2>2 DEF Sole
<1>6. Rooted(asker', chan', pend')
  <2> SUFFICES ASSUME NEW u \in Server, NEW v \in Server, NEW j \in Id,
                      Open(chan', pend', u, v, j)
               PROVE  (\E k \in DOMAIN pend'[u] : pend'[u][k].id = j) \/ At[asker'[j]] = u
    BY DEF Rooted
  <2>1. CASE Open(chan, pend, u, v, j)
    <3>1. (\E k \in DOMAIN pend[u] : pend[u][k].id = j) \/ At[asker[j]] = u
      BY <1>1, <2>1 DEF Rooted
    <3>2. asker'[j] = asker[j]
      BY <1>0, <2>1
    <3> QED BY <1>4, <3>1, <3>2
  <2>2. CASE fwd /\ j = i /\ u = s
    BY <1>3, <1>4, <2>2
  <2> QED BY <1>0, <2>1, <2>2
<1>7. Counts(chan', pend')
  <2> SUFFICES ASSUME NEW u \in Server, NEW k \in DOMAIN pend'[u]
               PROVE  pend'[u][k].num - pend'[u][k].count =
                        Cardinality(Waiting(chan', pend', u, pend'[u][k]))
    BY DEF Counts
  <2>1. CASE k \in DOMAIN pend[u] /\ pend'[u][k] = pend[u][k]
    <3> DEFINE x == pend[u][k]
    <3>1. x \in Entry
      BY <1>1, <2>1, ElementOfSeq
    <3>2. x.id \in Id /\ (u = s => x.id # i)
      BY <1>0, <2>1, <3>1 DEF Entry
    <3>3. x.num - x.count = Cardinality(Waiting(chan, pend, u, x))
      BY <1>1, <2>1 DEF Counts
    <3> HIDE DEF x
    <3>4. \A v \in Edge[u] : Open(chan', pend', u, v, x.id) <=> Open(chan, pend, u, v, x.id)
      BY <1>0, <1>2, <3>2
    <3>5. Waiting(chan', pend', u, x) = Waiting(chan, pend, u, x)
      BY <3>4 DEF Waiting
    <3> QED BY <2>1, <3>3, <3>5 DEF x
  <2>2. CASE fwd /\ u = s /\ pend'[u][k] = e
    <3>1. \A v \in Edge[s] \ {con} : Open(chan', pend', s, v, i)
      BY <1>0, <1>2, <2>2
    <3>2. Waiting(chan', pend', s, e) = Edge[s] \ {con}
      BY <1>3, <3>1 DEF Waiting
    <3> QED BY <1>3, <2>2, <3>2
  <2> QED BY <1>4, <2>1, <2>2
<1> QED BY <1>5, <1>6, <1>7 DEF Counted

\* Nothing is open for an id that is not in use.
LEMMA NewIdClosed ==
  ASSUME RoutedInv, NEW i \in Id, asker[i] = None, NEW u \in Server, NEW v \in Server
  PROVE  ~Open(chan, pend, u, v, i) /\ \A k \in DOMAIN pend[u] : pend[u][k].id # i
<1>1. AllRouted(asker, chan) /\ AllHomeward(asker, pend)
  BY DEF RoutedInv
<1>2. /\ \A k \in DOMAIN pend[u] : pend[u][k].id # i
      /\ \A k \in DOMAIN pend[v] : pend[v][k].id # i
  BY <1>1 DEF AllHomeward, Homeward
<1>3. ~Has(chan[u][v], "SEARCH", i)
  BY <1>1 DEF AllRouted, Routed, Has
<1>4. ~Has(chan[v][u], "END", i)
  BY <1>1 DEF AllRouted, Routed, Has
<1> QED BY <1>2, <1>3, <1>4 DEF Open, Held

LEMMA AskAnswers ==
  ASSUME AnsweredInv, ServiceInv', NEW c \in Client, NEW i \in Id, NEW max \in Nat, NEW local \in BOOLEAN,
         StartSearch(c, i, max, local)
  PROVE  AnsweredInv'
<1> DEFINE s == At[c]
           m == Capped(max)
<1>1. /\ TypeOK /\ RoutedInv /\ AllUp /\ Plains(chan) /\ Singles(chan) /\ Exclusive(chan, pend)
      /\ chan \in Chans /\ now <= MaxTime /\ Over(asker, heard, chan, pend)
  BY DEF AnsweredInv, ServiceInv, RoutedInv, SearchInv, TypeOK, Chans
<1>2. /\ asker[i] = None /\ asker' = [asker EXCEPT ![i] = c] /\ UNCHANGED <<end, now>>
      /\ SearchInternal(s, c, i, m, local, chan)
  BY DEF StartSearch
<1>3. s \in Server /\ m \in Nat /\ c \notin Server
  BY Numbers, Setting
<1> HIDE DEF s, m
<1>4. \A u, v \in Server : ~Open(chan, pend, u, v, i)
  BY <1>1, <1>2, NewIdClosed
<1>5. PICK fwd \in BOOLEAN :
        /\ Opens(fwd, s, c, i, chan)
        /\ pend' = IF fwd THEN [pend EXCEPT ![s] = Append(@, New(s, c, i))] ELSE pend
        /\ \E n \in Nat : heard' = [heard EXCEPT ![i] = [hits |-> n, ends |-> IF fwd THEN 0 ELSE 1]]
  <2>1. \A t \in Server : ~Open(chan, pend, s, t, i)
    BY <1>3, <1>4
  <2>2. c \in Client \cup Server
    OBVIOUS
  <2>3. PICK fwd \in BOOLEAN : Served(fwd, s, c, i, chan)
    BY <1>1, <1>2, <1>3, <2>1, <2>2, InternalOpens
  <2> QED BY <2>3 DEF Served
<1>6. /\ Plains(chan') /\ Singles(chan') /\ Exclusive(chan', pend')
      /\ \A u, v \in Server, j \in Id :
           Open(chan', pend', u, v, j) <=>
             Open(chan, pend, u, v, j) \/ (fwd /\ j = i /\ u = s /\ v \in Edge[s] \ {c})
  BY <1>3, <1>5 DEF Opens, Opened
<1>7. /\ asker'[i] = c /\ \A j \in Id : j # i => asker'[j] = asker[j] /\ heard'[j] = heard[j]
      /\ heard'[i].ends > 0 => ~fwd
  BY <1>1, <1>2, <1>5 DEF TypeOK
<1>8. \A k \in DOMAIN pend[s] : pend[s][k].id # i
  BY <1>1, <1>2, <1>3, NewIdClosed
<1>9. \A u, v \in Server, j \in Id : Open(chan, pend, u, v, j) => asker'[j] = asker[j]
  BY <1>4, <1>7
<1>10. Counted(asker', chan', pend')
  <2>1. Grown(fwd, s, c, i)
    BY <1>5, <1>6, <1>8, <1>9 DEF Grown
  <2> QED BY <1>3, <2>1, GrowAnswers
<1>11. Over(asker', heard', chan', pend')
  <2> SUFFICES ASSUME NEW j \in Id, heard'[j].ends > 0, NEW t \in Edge[At[asker'[j]]]
               PROVE  ~Open(chan', pend', At[asker'[j]], t, j)
    BY DEF Over
  <2>1. CASE j = i
    <3>1. At[asker'[j]] = s /\ t \in Server
      BY <1>3, <1>7, <2>1, Setting DEF s
    <3> QED BY <1>3, <1>4, <1>6, <1>7, <2>1, <3>1
  <2>2. CASE j # i
    <3>1. /\ ~Open(chan, pend, At[asker[j]], t, j) /\ asker'[j] = asker[j]
          /\ heard[j].ends > 0
      BY <1>1, <1>7, <2>2 DEF Over
    <3>2. asker[j] # None
      BY <3>1 DEF AnsweredInv, ServiceInv, OnceInv, HeardOnce
    <3>3. At[asker[j]] \in Server /\ t \in Server
      BY <1>1, <3>1, <3>2, Setting DEF TypeOK
    <3> QED BY <1>6, <2>2, <3>1, <3>3
  <2> QED BY <2>1, <2>2
<1>12. AllUp'
  BY <1>1, <1>2 DEF AllUp
<1> QED BY <1>1, <1>2, <1>6, <1>10, <1>11, <1>12 DEF AnsweredInv, Counted

\* The message at the head of a link: it is of a search that a client asked for.
LEMMA HeadOfSearch ==
  ASSUME AnsweredInv, NEW s \in Server, NEW t \in Server, chan[t][s] # <<>>
  PROVE  LET m == Head(chan[t][s])
         IN  /\ t \in Edge[s] => s # t
             /\ m \in Message /\ m.type \in {"SEARCH", "RESULT", "END"} /\ m.id \in Id
             /\ asker[m.id] \in Client /\ At[asker[m.id]] \in Server
             /\ LeadsTo(Toward(At[asker[m.id]]), At[asker[m.id]])
             /\ Routed(asker, t, s, m)
             /\ Has(chan[t][s], m.type, m.id)
<1> DEFINE q == chan[t][s]
           m == Head(q)
<1>1. /\ TypeOK /\ AllRouted(asker, chan) /\ Plain(q) /\ q \in Seq(Message) /\ q # <<>>
  BY DEF AnsweredInv, ServiceInv, RoutedInv, SearchInv, TypeOK, Plains
<1> HIDE DEF q
<1>2. 1 \in DOMAIN q /\ m = q[1] /\ m \in Message
  BY <1>1
<1>3. Routed(asker, t, s, m)
  BY <1>1, <1>2 DEF AllRouted, q
<1>4. m.type \in {"SEARCH", "RESULT", "END"} /\ Has(q, m.type, m.id)
  BY <1>1, <1>2 DEF Plain, Has
<1> HIDE DEF m
<1>5. m.id \in Id
  BY <1>2, <1>4 DEF Message
<1>6. asker[m.id] \in Client
  BY <1>1, <1>3, <1>4, <1>5 DEF TypeOK, Routed
<1>7. At[asker[m.id]] \in Server
  BY <1>6, Setting
<1>8. LeadsTo(Toward(At[asker[m.id]]), At[asker[m.id]])
  BY <1>7, TowardLeads
<1>9. t \in Edge[s] => s # t
  BY Setting
<1> QED BY <1>2, <1>3, <1>4, <1>5, <1>6, <1>7, <1>8, <1>9 DEF m, q

\* Reading a request or an END closes one request.
Closed(s, t, u, v, j) ==
  LET m == Head(chan[t][s])
  IN  \/ m.type = "SEARCH" /\ u = t /\ v = s /\ j = m.id
      \/ m.type = "END" /\ u = s /\ v = t /\ j = m.id
ReadOpen(s, t) ==
  /\ Plains(Received(t, s)) /\ Singles(Received(t, s)) /\ Exclusive(Received(t, s), pend)
  /\ \A u, v \in Server, j \in Id :
       Open(Received(t, s), pend, u, v, j) <=>
         Open(chan, pend, u, v, j) /\ ~Closed(s, t, u, v, j)

LEMMA ReadOpens ==
  ASSUME AnsweredInv, NEW s \in Server, NEW t \in Server, chan[t][s] # <<>>
  PROVE  ReadOpen(s, t)
<1> DEFINE m == Head(chan[t][s])
           ch == Received(t, s)
<1>1. TypeOK /\ Singles(chan) /\ Exclusive(chan, pend) /\ Plains(chan)
  BY DEF AnsweredInv, ServiceInv, RoutedInv, SearchInv
<1>2. m.id \in Id /\ Has(chan[t][s], m.type, m.id)
  BY HeadOfSearch
<1>3. "SEARCH" \in Kinds /\ "END" \in Kinds
  BY DEF Kinds
<1>4. \A u, v \in Server, type \in Kinds, j \in Id :
        /\ Has(ch[u][v], type, j) <=>
             Has(chan[u][v], type, j) /\ ~(u = t /\ v = s /\ m.type = type /\ m.id = j)
        /\ Single(ch[u][v], type, j)
  BY <1>1, ReadHas
<1>5. Plains(ch)
  BY <1>1, ReadPlain
<1> HIDE DEF ch
<1>6. Singles(ch)
  BY <1>3, <1>4 DEF Singles
<1>7. \A u, v \in Server, j \in Id :
        /\ Has(ch[u][v], "SEARCH", j) <=>
             Has(chan[u][v], "SEARCH", j) /\ ~(u = t /\ v = s /\ m.type = "SEARCH" /\ m.id = j)
        /\ Has(ch[v][u], "END", j) <=>
             Has(chan[v][u], "END", j) /\ ~(v = t /\ u = s /\ m.type = "END" /\ m.id = j)
  BY <1>3, <1>4
<1> DEFINE Shut(u, v, j) == \/ m.type = "SEARCH" /\ u = t /\ v = s /\ j = m.id
                            \/ m.type = "END" /\ u = s /\ v = t /\ j = m.id
<1>8. \A u, v, j : Closed(s, t, u, v, j) <=> Shut(u, v, j)
  BY DEF Closed
<1> HIDE DEF m
<1>9. Exclusive(ch, pend)
  BY <1>1, <1>7 DEF Exclusive
<1>10. ASSUME NEW u \in Server, NEW v \in Server, NEW j \in Id
       PROVE  Open(ch, pend, u, v, j) <=> Open(chan, pend, u, v, j) /\ ~Shut(u, v, j)
  <2>1. /\ ~(Has(chan[u][v], "SEARCH", j) /\ Held(pend, u, v, j))
        /\ ~(Has(chan[u][v], "SEARCH", j) /\ Has(chan[v][u], "END", j))
        /\ ~(Held(pend, u, v, j) /\ Has(chan[v][u], "END", j))
    BY <1>1 DEF Exclusive
  <2>2. m.type = "SEARCH" /\ u = t /\ v = s /\ j = m.id => Has(chan[u][v], "SEARCH", j)
    BY <1>2
  <2>3. m.type = "END" /\ u = s /\ v = t /\ j = m.id => Has(chan[v][u], "END", j)
    BY <1>2
  <2> QED BY <1>7, <2>1, <2>2, <2>3 DEF Open
<1> QED BY <1>5, <1>6, <1>8, <1>9, <1>10 DEF ReadOpen, ch

\* A request finds no entry for its search where it arrives.
LEMMA RequestNew ==
  ASSUME AnsweredInv, NEW s \in Server, NEW t \in Edge[s], t \in Server, chan[t][s] # <<>>,
         Head(chan[t][s]).type = "SEARCH"
  PROVE  LET i == Head(chan[t][s]).id
         IN  /\ At[asker[i]] # s
             /\ \A k \in DOMAIN pend[s] : pend[s][k].id # i
             /\ \A v \in Server : ~Open(chan, pend, s, v, i)
             /\ Open(chan, pend, t, s, i)
<1> DEFINE m == Head(chan[t][s])
           i == m.id
           next == Toward(At[asker[i]])
<1>1. /\ i \in Id /\ asker[i] \in Client /\ At[asker[i]] \in Server /\ LeadsTo(next, At[asker[i]])
      /\ Routed(asker, t, s, m) /\ Has(chan[t][s], "SEARCH", i) /\ m.type = "SEARCH"
  BY HeadOfSearch
<1> HIDE DEF m
<1>2. next[s] = t
  BY <1>1 DEF Routed
<1>3. At[asker[i]] # s
  BY <1>1, <1>2 DEF LeadsTo
<1>4. /\ TypeOK /\ Exclusive(chan, pend) /\ Rooted(asker, chan, pend)
      /\ Ordered(client, Links(s), s, pend[s]) /\ AllHomeward(asker, pend)
  BY DEF AnsweredInv, ServiceInv, RoutedInv, SearchInv
<1>5. ASSUME NEW k \in DOMAIN pend[s], pend[s][k].id = i PROVE FALSE
  <2>1. InOrder(client, Links(s), s, pend[s][k]) /\ Homeward(asker, s, pend[s][k])
    BY <1>4 DEF Ordered, AllHomeward
  <2>2. CASE pend[s][k].con \in Client
    BY <1>3, <1>5, <2>1, <2>2 DEF InOrder, Homeward
  <2>3. CASE pend[s][k].con \notin Client
    <3>1. pend[s][k].con = t
      BY <1>2, <1>5, <2>1, <2>3 DEF Homeward
    <3>2. Held(pend, t, s, i)
      BY <1>5, <3>1 DEF Held
    <3> QED BY <1>1, <1>4, <3>2 DEF Exclusive
  <2> QED BY <2>2, <2>3
<1>6. \A v \in Server : ~Open(chan, pend, s, v, i)
  BY <1>1, <1>3, <1>4, <1>5 DEF Rooted
<1>7. Open(chan, pend, t, s, i)
  BY <1>1 DEF Open
<1> QED BY <1>3, <1>5, <1>6, <1>7 DEF m

LEMMA SearchAnswers ==
  ASSUME AnsweredInv, ServiceInv', NEW s \in Server, NEW t \in Server, RecvSearch(s, t)
  PROVE  AnsweredInv'
<1> DEFINE m == Head(chan[t][s])
           i == m.id
           ch == Received(t, s)
<1>1. /\ TypeOK /\ AllUp /\ now <= MaxTime /\ Over(asker, heard, chan, pend)
      /\ chan[t][s] # <<>> /\ m.type = "SEARCH" /\ end[s][t] # "down"
      /\ UNCHANGED <<end, asker, now>>
  BY DEF AnsweredInv, ServiceInv, RoutedInv, SearchInv, RecvSearch, Deliver
<1>2. t \in Edge[s] /\ t \notin Client
  BY <1>1, Setting DEF AllUp
<1>3. m \in Message /\ i \in Id /\ s # t /\ ch \in Chans
  BY <1>1, <1>2, HeadOfSearch, ReceivedTyped
<1>4. /\ At[asker[i]] # s /\ (\A k \in DOMAIN pend[s] : pend[s][k].id # i)
      /\ (\A v \in Server : ~Open(chan, pend, s, v, i)) /\ Open(chan, pend, t, s, i)
  BY <1>1, <1>2, RequestNew
<1>5. /\ Plains(ch) /\ Singles(ch) /\ Exclusive(ch, pend)
      /\ \A u, v \in Server, j \in Id :
           Open(ch, pend, u, v, j) <=> Open(chan, pend, u, v, j) /\ ~(u = t /\ v = s /\ j = i)
  BY <1>1, ReadOpens DEF ReadOpen, Closed
<1>6. m.max \in Nat
  BY <1>1, <1>3 DEF Message
<1>7. \/ SearchInternal(s, t, i, Capped(m.max), FALSE, ch)
      \/ chan' = Send(ch, s, {t}, <<End(i)>>) /\ pend' = pend /\ heard' = heard
  BY DEF RecvSearch
<1>8. /\ t \in Client \cup Server /\ (t \in Server => t \in Edge[s] /\ ~Open(ch, pend, t, s, i))
      /\ \A v \in Server : ~Open(ch, pend, s, v, i)
  BY <1>2, <1>3, <1>4, <1>5
<1> HIDE DEF m, ch, i
<1>9. PICK fwd \in BOOLEAN : Served(fwd, s, t, i, ch)
  <2>1. CASE SearchInternal(s, t, i, Capped(m.max), FALSE, ch)
    <3>1. Capped(m.max) \in Nat /\ FALSE \in BOOLEAN
      BY <1>6, Numbers
    <3>2. \E fwd \in BOOLEAN : Served(fwd, s, t, i, ch)
      BY <1>1, <1>3, <1>5, <1>8, <2>1, <3>1, InternalOpens
    <3> QED BY <3>2
  <2>2. CASE chan' = Send(ch, s, {t}, <<End(i)>>) /\ pend' = pend /\ heard' = heard
    <3> DEFINE msgs == <<End(i)>>
               req == <<Request(i, 0)>>
               e == New(s, t, i)
    <3>1. /\ msgs \in Seq(Message) /\ Plain(msgs) /\ Bears(msgs, "END", i)
          /\ Plain(req) /\ Bears(req, "SEARCH", i)
      <4>1. <<End(i)>> \in Seq(Message)
        BY <1>3 DEF End, Message
      <4>2. 0 \in Int
        OBVIOUS
      <4>3. Plain(<<End(i)>>) /\ Plain(<<Request(i, 0)>>)
        BY <1>3, <4>2, SendsPlain
      <4>4. Bears(<<End(i)>>, "END", i) /\ Bears(<<Request(i, 0)>>, "SEARCH", i)
        BY <1>3, <4>2, SendsBear
      <4> QED BY <4>1, <4>3, <4>4
    <3>2. req \in Seq(Message)
      BY <1>3 DEF Request, Message
    <3>3. e \in Entry /\ e.id = i /\ e.con = t
      <4>1. Links(s) = Edge[s]
        BY <1>1, WholeLinks
      <4>2. Cardinality(Edge[s] \ {t}) \in Nat /\ now \in Nat
        BY <1>1, <4>1, LinksFinite DEF TypeOK
      <4> QED BY <1>3, <4>2 DEF Entry, New
    <3>4. Replied(FALSE, s, t, i, ch, msgs, req, e)
      BY <1>2, <2>2, <3>1, <3>3 DEF Replied
    <3>5. FALSE \in BOOLEAN
      OBVIOUS
    <3> HIDE DEF msgs, req, e
    <3>6. Opens(FALSE, s, t, i, ch)
      BY <1>1, <1>3, <1>5, <1>8, <3>1, <3>2, <3>3, <3>4, <3>5, RequestOpens
    <3>7. Served(FALSE, s, t, i, ch)
      BY <1>2, <2>2, <3>6 DEF Served
    <3> QED BY <3>5, <3>7
  <2> QED BY <1>7, <2>1, <2>2
<1>10. /\ Plains(chan') /\ Singles(chan') /\ Exclusive(chan', pend') /\ heard' = heard
       /\ pend' = IF fwd THEN [pend EXCEPT ![s] = Append(@, New(s, t, i))] ELSE pend
       /\ \A u, v \in Server, j \in Id :
            Open(chan', pend', u, v, j) <=>
              Open(chan, pend, u, v, j) \/ (fwd /\ j = i /\ u = s /\ v \in Edge[s] \ {t})
  <2>1. \A u, v \in Server, j \in Id :
          Open(chan', pend', u, v, j) <=> Open(ch, pend, u, v, j) \/ Opened(fwd, s, t, i, u, v, j)
    BY <1>9 DEF Served, Opens
  <2>2. \A u, v \in Server, j \in Id :
          Open(chan', pend', u, v, j) <=>
            Open(chan, pend, u, v, j) \/ (fwd /\ j = i /\ u = s /\ v \in Edge[s] \ {t})
    BY <1>4, <1>5, <2>1 DEF Opened
  <2> QED BY <1>2, <1>9, <2>2 DEF Served, Opens
<1>11. Counted(asker', chan', pend')
  <2>1. Grown(fwd, s, t, i)
    BY <1>1, <1>4, <1>10 DEF Grown
  <2> QED BY <1>3, <2>1, GrowAnswers
<1>12. Over(asker', heard', chan', pend')
  <2> SUFFICES ASSUME NEW j \in Id, heard[j].ends > 0, NEW v \in Edge[At[asker[j]]]
               PROVE  ~Open(chan', pend', At[asker[j]], v, j)
    BY <1>1, <1>10 DEF Over
  <2>1. ~Open(chan, pend, At[asker[j]], v, j)
    BY <1>1 DEF Over
  <2>2. asker[j] # None
    BY DEF AnsweredInv, ServiceInv, OnceInv, HeardOnce
  <2>3. At[asker[j]] \in Server /\ v \in Server
    BY <1>1, <2>2, Setting DEF TypeOK
  <2> QED BY <1>4, <1>10, <2>1, <2>3
<1>13. AllUp'
  BY <1>1 DEF AllUp
<1> QED BY <1>1, <1>10, <1>11, <1>12, <1>13 DEF AnsweredInv, Counted

\* An open request goes away from the asker, along an edge.
LEMMA OpenAway ==
  ASSUME AnsweredInv, NEW u \in Server, NEW v \in Server, NEW i \in Id, Open(chan, pend, u, v, i)
  PROVE  LET next == Toward(At[asker[i]])
         IN  /\ asker[i] \in Client /\ At[asker[i]] \in Server
             /\ v \in Edge[u] /\ u \in Edge[v] /\ next[v] = u /\ next[u] # v
<1> DEFINE next == Toward(At[asker[i]])
<1>1. /\ TypeOK /\ AllUp /\ Plains(chan) /\ AllRouted(asker, chan) /\ AllHomeward(asker, pend)
      /\ Ordered(client, Links(v), v, pend[v])
  BY DEF AnsweredInv, ServiceInv, RoutedInv, SearchInv
<1>2. asker[i] # None /\ next[v] = u /\ (u \in Edge[v] \/ v \in Edge[u])
  <2>1. CASE Has(chan[u][v], "SEARCH", i)
    <3>1. PICK k \in DOMAIN chan[u][v] : chan[u][v][k].type = "SEARCH" /\ chan[u][v][k].id = i
      BY <2>1 DEF Has
    <3>2. Routed(asker, u, v, chan[u][v][k])
      BY <1>1 DEF AllRouted
    <3>3. v \in Edge[u]
      BY <1>1, <3>1 DEF Plains
    <3> QED BY <3>1, <3>2, <3>3 DEF Routed
  <2>2. CASE Held(pend, u, v, i)
    <3>1. PICK k \in DOMAIN pend[v] : pend[v][k].id = i /\ pend[v][k].con = u
      BY <2>2 DEF Held
    <3>2. Homeward(asker, v, pend[v][k]) /\ InOrder(client, Links(v), v, pend[v][k])
      BY <1>1 DEF AllHomeward, Ordered
    <3>3. u \notin Client /\ Links(v) = Edge[v]
      BY <1>1, WholeLinks, Setting
    <3> QED BY <3>1, <3>2, <3>3 DEF Homeward, InOrder
  <2>3. CASE Has(chan[v][u], "END", i)
    <3>1. PICK k \in DOMAIN chan[v][u] : chan[v][u][k].type = "END" /\ chan[v][u][k].id = i
      BY <2>3 DEF Has
    <3>2. Routed(asker, v, u, chan[v][u][k])
      BY <1>1 DEF AllRouted
    <3>3. u \in Edge[v]
      BY <1>1, <3>1 DEF Plains
    <3> QED BY <3>1, <3>2, <3>3 DEF Routed
  <2> QED BY <2>1, <2>2, <2>3 DEF Open
<1>3. asker[i] \in Client /\ At[asker[i]] \in Server
  BY <1>1, <1>2, Setting DEF TypeOK
<1>4. v \in Edge[u] /\ u \in Edge[v]
  BY <1>2, Setting
<1>5. LeadsTo(next, At[asker[i]])
  BY <1>3, TowardLeads
<1> HIDE DEF next
<1>6. next[u] # v
  BY <1>2, <1>4, <1>5 DEF LeadsTo
<1> QED BY <1>2, <1>3, <1>4, <1>6 DEF next

\* send_search_end() for one entry, or for none.
LEMMA OneEnd ==
  ASSUME AllUp, NEW ch \in Chans, NEW h \in Heards, NEW s \in Server, NEW e \in Entry
  PROVE  /\ EndsOn(ch, s, <<>>) = ch
         /\ \A j \in Id : EndsHeard(h, <<>>)[j].ends = h[j].ends
         /\ Sent(ch, EndsOn(ch, s, <<e>>), s, {e.con}, <<End(e.id)>>)
         /\ \A j \in Id : EndsHeard(h, <<e>>)[j].ends > 0 =>
                            h[j].ends > 0 \/ (j = e.id /\ e.con \in Client)
<1>1. Links(s) = Edge[s] /\ \A t \in Edge[s] : end[t][s] = "up"
  BY WholeLinks
<1>2. Cardinality({}) = 0
  BY FS_EmptySet
<1>3. \A t \in Server : ch[s][t] \in Seq(Message) /\ ch[s][t] \o <<>> = ch[s][t]
  BY DEF Chans
<1> DEFINE Mine(q, t) == Sift(q, {k \in DOMAIN q : q[k].con = t})
           Line(q, t) == LET mine == Mine(q, t) IN [k \in DOMAIN mine |-> End(mine[k].id)]
<1>4. \A q : \A u, v \in Server :
        EndsOn(ch, s, q)[u][v] = IF u = s /\ v \in Edge[s] THEN ch[s][v] \o Line(q, v) ELSE ch[u][v]
  <2> SUFFICES ASSUME NEW q, NEW u \in Server, NEW v \in Server
               PROVE  EndsOn(ch, s, q)[u][v] =
                        IF u = s /\ v \in Edge[s] THEN ch[s][v] \o Line(q, v) ELSE ch[u][v]
    OBVIOUS
  <2>1. ch \in [Server -> [Server -> Seq(Message)]]
    BY DEF Chans
  <2>2. EndsOn(ch, s, q)[u] =
          IF u = s THEN [t \in Server |-> IF t \in Links(s) /\ end[t][s] # "down"
                                          THEN ch[s][t] \o Line(q, t) ELSE ch[s][t]]
          ELSE ch[u]
    BY <2>1 DEF EndsOn
  <2> HIDE DEF Line
  <2> QED BY <1>1, <2>2
<1>5. \A t \in Server : Line(<<>>, t) = <<>>
  <2> SUFFICES ASSUME NEW t \in Server PROVE Line(<<>>, t) = <<>>
    OBVIOUS
  <2>1. Mine(<<>>, t) = <<>>
    BY DEF Sift
  <2> QED BY <2>1
<1>6. EndsOn(ch, s, <<>>) = ch
  <2>1. /\ EndsOn(ch, s, <<>>) = [u \in Server |-> EndsOn(ch, s, <<>>)[u]]
        /\ DOMAIN EndsOn(ch, s, <<>>) = Server
    BY DEF EndsOn, Chans
  <2>2. ASSUME NEW u \in Server PROVE EndsOn(ch, s, <<>>)[u] = ch[u]
    <3> DEFINE new == EndsOn(ch, s, <<>>)[u]
    <3>1. \A v \in Server : new[v] = ch[u][v]
      <4> SUFFICES ASSUME NEW v \in Server PROVE new[v] = ch[u][v]
        OBVIOUS
      <4>1. new[v] = IF u = s /\ v \in Edge[s] THEN ch[s][v] \o Line(<<>>, v) ELSE ch[u][v]
        BY <1>4
      <4>2. Line(<<>>, v) = <<>> /\ ch[s][v] \o <<>> = ch[s][v]
        BY <1>3, <1>5
      <4> HIDE DEF Line, new
      <4> QED BY <4>1, <4>2
    <3>2. new = [v \in Server |-> new[v]]
      BY DEF EndsOn, Chans
    <3>3. ch[u] = [v \in Server |-> ch[u][v]]
      BY DEF Chans
    <3> HIDE DEF new
    <3>4. new = ch[u]
      BY <3>1, <3>2, <3>3
    <3> QED BY <3>4 DEF new
  <2>3. ch = [u \in Server |-> ch[u]]
    BY DEF Chans
  <2> QED BY <2>1, <2>2, <2>3
<1>7. \A t \in Server : Line(<<e>>, t) = IF t = e.con THEN <<End(e.id)>> ELSE <<>>
  <2> SUFFICES ASSUME NEW t \in Server
               PROVE  Line(<<e>>, t) = IF t = e.con THEN <<End(e.id)>> ELSE <<>>
    OBVIOUS
  <2> DEFINE q == <<e>>
  <2>1. DOMAIN q = {1} /\ q[1] = e
    OBVIOUS
  <2>2. CASE t = e.con
    <3> HIDE DEF q
    <3>1. {k \in DOMAIN q : q[k].con = t} = DOMAIN q
      BY <2>1, <2>2
    <3>2. Mine(q, t) = q
      BY <3>1 DEF Sift
    <3>3. Line(q, t) = [k \in {1} |-> End(e.id)]
      BY <2>1, <3>2
    <3>4. [k \in {1} |-> End(e.id)] = <<End(e.id)>>
      OBVIOUS
    <3> QED BY <2>2, <3>3, <3>4 DEF q
  <2>3. CASE t # e.con
    <3> HIDE DEF q
    <3> DEFINE K == {k \in DOMAIN q : q[k].con = t}
               mine == Sift(q, K)
    <3>1. K = {} /\ DOMAIN q # {}
      BY <2>1, <2>3
    <3>2. Sift(q, {}) = <<>>
      BY <1>2, <3>1 DEF Sift
    <3>3. Line(q, t) = [k \in DOMAIN mine |-> End(mine[k].id)]
      OBVIOUS
    <3> HIDE DEF K
    <3>4. mine = <<>>
      BY <3>1, <3>2
    <3> HIDE DEF mine, Line
    <3>5. Line(q, t) = <<>>
      BY <3>3, <3>4
    <3> QED BY <2>3, <3>5 DEF q
  <2> QED BY <2>2, <2>3
<1>8. Sent(ch, EndsOn(ch, s, <<e>>), s, {e.con}, <<End(e.id)>>)
  <2> HIDE DEF Line
  <2>1. ASSUME NEW u \in Server, NEW v \in Server
        PROVE  EndsOn(ch, s, <<e>>)[u][v] =
                 IF u = s /\ v \in {e.con} \cap Edge[s] THEN ch[u][v] \o <<End(e.id)>> ELSE ch[u][v]
    <3>1. EndsOn(ch, s, <<e>>)[u][v] =
            IF u = s /\ v \in Edge[s] THEN ch[s][v] \o Line(<<e>>, v) ELSE ch[u][v]
      BY <1>4
    <3>2. Line(<<e>>, v) = IF v = e.con THEN <<End(e.id)>> ELSE <<>>
      BY <1>7
    <3> QED BY <1>3, <3>1, <3>2
  <2> QED BY <2>1 DEF Sent
<1>9. ASSUME NEW q, NEW j \in Id
      PROVE  EndsHeard(h, q)[j].ends = h[j].ends + Cardinality({k \in DOMAIN q :
                   q[k].id = j /\ q[k].con \in Client /\ IsUser(q[k].con)})
  BY DEF EndsHeard, Heards
<1>10. \A j \in Id : h[j].ends \in Nat
  BY DEF Heards
<1>11. ASSUME NEW j \in Id PROVE EndsHeard(h, <<>>)[j].ends = h[j].ends
  <2> DEFINE q == <<>>
             K == {k \in DOMAIN q : q[k].id = j /\ q[k].con \in Client /\ IsUser(q[k].con)}
  <2>1. K = {}
    OBVIOUS
  <2>2. EndsHeard(h, q)[j].ends = h[j].ends + Cardinality(K)
    BY <1>9
  <2> HIDE DEF K
  <2>3. EndsHeard(h, q)[j].ends = h[j].ends + 0
    BY <1>2, <2>1, <2>2
  <2> QED BY <1>10, <2>3
<1>12. ASSUME NEW j \in Id, EndsHeard(h, <<e>>)[j].ends > 0, ~(j = e.id /\ e.con \in Client)
       PROVE  h[j].ends > 0
  <2> DEFINE q == <<e>>
             K == {k \in DOMAIN q : q[k].id = j /\ q[k].con \in Client /\ IsUser(q[k].con)}
  <2>1. DOMAIN q = {1} /\ q[1] = e
    OBVIOUS
  <2>2. EndsHeard(h, q)[j].ends = h[j].ends + Cardinality(K) /\ EndsHeard(h, q)[j].ends > 0
    BY <1>9, <1>12
  <2> HIDE DEF q
  <2>3. K = {}
    BY <1>12, <2>1
  <2> HIDE DEF K
  <2>4. EndsHeard(h, q)[j].ends = h[j].ends + 0 /\ EndsHeard(h, q)[j].ends > 0
    BY <1>2, <2>2, <2>3
  <2> QED BY <1>10, <2>4
<1> QED BY <1>6, <1>8, <1>11, <1>12

\* find_search() finds an entry if there is one.
LEMMA FoundPlace ==
  ASSUME NEW q \in Seq(Entry), NEW i
  PROVE  /\ Found(q, i) => Place(q, i) \in DOMAIN q /\ q[Place(q, i)].id = i
         /\ ~Found(q, i) => \A k \in DOMAIN q : q[k].id # i
<1> DEFINE p == Place(q, i)
           Ends == {k \in 1 .. Len(q) + 1 : k <= Len(q) => q[k].id = i}
<1>1. Len(q) \in Nat /\ DOMAIN q = 1 .. Len(q)
  OBVIOUS
<1>2. p \in 1 .. Len(q) + 1 /\ (p <= Len(q) => q[p].id = i)
  BY PlaceInList
<1>3. ASSUME ~Found(q, i), NEW l \in DOMAIN q, q[l].id = i PROVE FALSE
  <2>1. Ends \subseteq Nat /\ Ends # {}
    BY <1>1, <1>3
  <2>2. PICK k \in Ends : \A j \in Ends : <<j, k>> \notin OpToRel(<, Nat)
    BY <2>1, NatLessThanWellFounded, WFMin
  <2>3. \A j \in Ends : ~ (j < k)
    BY <2>1, <2>2 DEF OpToRel
  <2>4. \A j \in 1 .. k - 1 : q[j].id # i
    BY <1>1, <2>3
  <2>5. \E n \in 1 .. Len(q) + 1 : /\ n <= Len(q) => q[n].id = i
                                   /\ \A j \in 1 .. n - 1 : q[j].id # i
    BY <2>4
  <2>6. \A j \in 1 .. p - 1 : q[j].id # i
    BY <2>5 DEF Place
  <2>7. p = Len(q) + 1
    BY <1>1, <1>2, <1>3 DEF Found
  <2> QED BY <1>1, <1>3, <2>6, <2>7
<1> QED BY <1>1, <1>2, <1>3 DEF Found

\* Requests and answers are as they were, whatever hits are on their way.
SameOpen ==
  /\ UNCHANGED <<end, pend, asker>> /\ now' <= MaxTime
  /\ Plains(chan') /\ Singles(chan')
  /\ \A u, v \in Server, type \in Kinds, j \in Id :
       Has(chan'[u][v], type, j) <=> Has(chan[u][v], type, j)
  /\ \A j \in Id : heard'[j].ends > 0 => heard[j].ends > 0

LEMMA SameAnswers ==
  ASSUME AnsweredInv, ServiceInv', SameOpen
  PROVE  AnsweredInv'
<1>1. /\ AllUp /\ Exclusive(chan, pend) /\ (\A s \in Server : Sole(pend[s])) /\ TypeOK
      /\ Rooted(asker, chan, pend) /\ Counts(chan, pend) /\ Over(asker, heard, chan, pend)
      /\ \A u \in Server : pend[u] \in Seq(Entry)
  BY DEF AnsweredInv, ServiceInv, RoutedInv, SearchInv, TypeOK
<1>2. "SEARCH" \in Kinds /\ "END" \in Kinds
  BY DEF Kinds
<1>3. \A u, v \in Server, j \in Id :
        /\ Has(chan'[u][v], "SEARCH", j) <=> Has(chan[u][v], "SEARCH", j)
        /\ Has(chan'[v][u], "END", j) <=> Has(chan[v][u], "END", j)
        /\ Held(pend', u, v, j) <=> Held(pend, u, v, j)
  BY <1>2 DEF SameOpen
<1>4. \A u, v \in Server, j \in Id : Open(chan', pend', u, v, j) <=> Open(chan, pend, u, v, j)
  BY <1>3 DEF Open
<1>5. UNCHANGED <<end, pend, asker>> /\ \A j \in Id : heard'[j].ends > 0 => heard[j].ends > 0
  BY DEF SameOpen
<1>6. Exclusive(chan', pend')
  BY <1>1, <1>3 DEF Exclusive
<1>7. Rooted(asker', chan', pend')
  BY <1>1, <1>4, <1>5 DEF Rooted
<1>8. Counts(chan', pend')
  <2> SUFFICES ASSUME NEW u \in Server, NEW k \in DOMAIN pend[u]
               PROVE  pend[u][k].num - pend[u][k].count =
                        Cardinality(Waiting(chan', pend', u, pend[u][k]))
    BY <1>5 DEF Counts
  <2>1. pend[u][k].num - pend[u][k].count = Cardinality(Waiting(chan, pend, u, pend[u][k]))
    BY <1>1 DEF Counts
  <2>2. pend[u][k].id \in Id /\ Edge[u] \subseteq Server
    <3>1. pend[u][k] \in Entry
      BY <1>1, ElementOfSeq
    <3> QED BY <3>1, Setting DEF Entry
  <2>3. Waiting(chan', pend', u, pend[u][k]) = Waiting(chan, pend, u, pend[u][k])
    BY <1>4, <2>2 DEF Waiting
  <2> QED BY <2>1, <2>3
<1>9. Over(asker', heard', chan', pend')
  <2> SUFFICES ASSUME NEW j \in Id, heard'[j].ends > 0, NEW v \in Edge[At[asker[j]]]
               PROVE  ~Open(chan', pend', At[asker[j]], v, j)
    BY <1>5 DEF Over
  <2>1. heard[j].ends > 0 /\ ~Open(chan, pend, At[asker[j]], v, j)
    BY <1>1, <1>5 DEF Over
  <2>2. asker[j] # None
    BY <2>1 DEF AnsweredInv, ServiceInv, OnceInv, HeardOnce
  <2>3. At[asker[j]] \in Server /\ v \in Server
    BY <1>1, <2>2, Setting DEF TypeOK
  <2> QED BY <1>4, <2>1, <2>3
<1>10. AllUp'
  BY <1>1, <1>5 DEF AllUp
<1> QED BY <1>1, <1>5, <1>6, <1>7, <1>8, <1>9, <1>10 DEF AnsweredInv, SameOpen

LEMMA ResultAnswers ==
  ASSUME AnsweredInv, Undisturbed, ServiceInv', NEW s \in Server, NEW t \in Server, RecvResult(s, t)
  PROVE  AnsweredInv'
<1> DEFINE m == Head(chan[t][s])
           i == m.id
           q == pend[s]
           con == q[Place(q, i)].con
           ch == Received(t, s)
           back == Found(q, i) /\ con \in Server
<1>1. /\ TypeOK /\ AllUp /\ now <= MaxTime /\ chan[t][s] # <<>> /\ m.type = "RESULT"
      /\ heard \in Heards /\ Singles(chan) /\ q \in Seq(Entry)
      /\ UNCHANGED <<end, asker, now>>
  BY DEF AnsweredInv, ServiceInv, RoutedInv, SearchInv, RecvResult, Deliver, TypeOK, Heards
<1>2. Kept(s, i) = q /\ Dropped(s, i) = <<>>
  BY NothingExpires
<1>3. m \in Message /\ i \in Id /\ ch \in Chans
  BY <1>1, HeadOfSearch, ReceivedTyped
<1>4. \E e : e \in Entry
  <2>1. [id |-> i, con |-> s, count |-> 0, num |-> 0, ts |-> 0] \in Entry
    BY <1>3 DEF Entry
  <2> QED BY <2>1
<1>5. EndsOn(ch, s, <<>>) = ch /\ \A j \in Id : EndsHeard(heard, <<>>)[j].ends = heard[j].ends
  BY <1>1, <1>3, <1>4, OneEnd
<1>6. /\ pend' = [pend EXCEPT ![s] = q]
      /\ chan' = IF back THEN Send(ch, s, {con}, Results(i, 1)) ELSE ch
  BY <1>2, <1>5 DEF RecvResult, LookUp
<1>7. pend' = pend
  BY <1>1, <1>6 DEF TypeOK
<1>8. \A j \in Id : heard'[j].ends > 0 => heard[j].ends > 0
  <2> DEFINE told == EndsHeard(heard, <<>>)
  <2>1. heard' = told \/ heard' = [told EXCEPT ![i].hits = @ + 1]
    BY <1>2 DEF RecvResult
  <2>2. told \in Heards
    <3>1. <<>> \in Seq(Entry)
      OBVIOUS
    <3> HIDE DEF ch
    <3> QED BY <1>1, <1>3, <3>1, EndsTyped
  <2> HIDE DEF told
  <2>3. \A j \in Id : heard'[j].ends = told[j].ends
    BY <2>1, <2>2 DEF Heards
  <2> QED BY <1>5, <2>3 DEF told
<1>9. Plains(ch) /\ Singles(ch)
  BY <1>1, ReadOpens DEF ReadOpen
<1>10. \A u, v \in Server, type \in Kinds, j \in Id :
         Has(ch[u][v], type, j) <=> Has(chan[u][v], type, j)
  <2>1. \A u, v \in Server, type \in Kinds, j \in Id :
          Has(ch[u][v], type, j) <=>
            Has(chan[u][v], type, j) /\ ~(u = t /\ v = s /\ m.type = type /\ m.id = j)
    BY <1>1, ReadHas
  <2> QED BY <1>1, <2>1 DEF Kinds
<1> HIDE DEF ch, i, con
<1>11. /\ Plains(chan') /\ Singles(chan')
       /\ \A u, v \in Server, type \in Kinds, j \in Id :
            Has(chan'[u][v], type, j) <=> Has(chan[u][v], type, j)
  <2>1. CASE back
    <3> DEFINE msgs == Results(i, 1)
    <3>1. 1 \in Nat /\ "SEARCH" \in Kinds /\ "END" \in Kinds
      BY DEF Kinds
    <3>2. msgs \in Seq(Message) /\ Bare(msgs) /\ Plain(msgs)
      BY <1>3, <3>1, ResultsTyped, SendsBear, SendsPlain
    <3> HIDE DEF msgs
    <3>3. Sent(ch, chan', s, {con}, msgs)
      BY <1>1, <1>3, <1>6, <2>1, SendSent DEF msgs
    <3>4. Plains(chan')
      BY <1>3, <1>9, <3>2, <3>3, SentPlain
    <3>5. ASSUME NEW u \in Server, NEW v \in Server, NEW type \in Kinds, NEW j \in Id
          PROVE  /\ Has(chan'[u][v], type, j) <=> Has(ch[u][v], type, j)
                 /\ Single(chan'[u][v], type, j)
      <4>1. /\ Has(chan'[u][v], type, j) <=>
                 Has(ch[u][v], type, j) \/ (u = s /\ v \in {con} \cap Edge[s] /\ Has(msgs, type, j))
            /\ Single(ch[u][v], type, j) /\ Single(msgs, type, j)
                 /\ ~(u = s /\ v \in {con} \cap Edge[s] /\ Has(ch[u][v], type, j) /\ Has(msgs, type, j))
                 => Single(chan'[u][v], type, j)
        BY <1>3, <3>2, <3>3, SentHas
      <4>2. Single(ch[u][v], type, j) /\ ~Has(msgs, type, j) /\ Single(msgs, type, j)
        BY <1>9, <3>2 DEF Singles, Bare, Kinds
      <4> QED BY <4>1, <4>2
    <3>6. Singles(chan')
      BY <3>1, <3>5 DEF Singles
    <3> QED BY <1>10, <3>4, <3>5, <3>6
  <2>2. CASE ~back
    BY <1>6, <1>9, <1>10, <2>2
  <2> QED BY <2>1, <2>2
<1>12. SameOpen
  BY <1>1, <1>7, <1>8, <1>11 DEF SameOpen
<1> QED BY <1>12, SameAnswers

\* The clock, and clients that go: nothing is read or sent.
LEMMA QuietAnswers ==
  ASSUME AnsweredInv, ServiceInv', UNCHANGED <<end, chan, pend, asker, heard>>, now' <= MaxTime
  PROVE  AnsweredInv'
<1>1. Plains(chan) /\ Singles(chan)
  BY DEF AnsweredInv
<1>2. SameOpen
  BY <1>1 DEF SameOpen
<1> QED BY <1>2, SameAnswers

\* The request for search i that s sent to t is answered, and no other; entries for i at s
\* count one END more, and are gone if it was the last.
Answered(s, t, i) ==
  /\ asker' = asker
  /\ Open(chan, pend, s, t, i)
  /\ \A u, v \in Server, j \in Id :
       Open(chan', pend', u, v, j) <=> Open(chan, pend, u, v, j) /\ ~(u = s /\ v = t /\ j = i)
  /\ \A u \in Server : \A k \in DOMAIN pend'[u] : \E l \in DOMAIN pend[u] :
       LET x == pend[u][l]
       IN  /\ pend'[u][k].id = x.id /\ pend'[u][k].con = x.con /\ pend'[u][k].num = x.num
           /\ pend'[u][k].count = IF u = s /\ x.id = i THEN x.count + 1 ELSE x.count
  /\ \A u \in Server : Sole(pend'[u])
  /\ \A u \in Server : \A l \in DOMAIN pend[u] :
       LET x == pend[u][l]
       IN  (\E k \in DOMAIN pend'[u] : pend'[u][k].id = x.id)
             \/ (u = s /\ x.id = i /\ x.count + 1 = x.num)
  /\ \A j \in Id : heard'[j].ends > 0 =>
       \/ heard[j].ends > 0
       \/ j = i /\ \E l \in DOMAIN pend[s] :
            LET x == pend[s][l] IN x.id = i /\ x.con \in Client /\ x.count + 1 = x.num

\* An entry for an answered request waits for one link less.
LEMMA WaitsForLess ==
  ASSUME AnsweredInv, NEW s \in Server, NEW t \in Server, NEW i \in Id,
         Open(chan, pend, s, t, i), NEW l \in DOMAIN pend[s], pend[s][l].id = i,
         \A v \in Server :
           Open(chan', pend', s, v, i) <=> Open(chan, pend, s, v, i) /\ v # t
  PROVE  LET x == pend[s][l]
             W == {v \in Edge[s] \ {x.con} : Open(chan', pend', s, v, i)}
         IN  /\ IsFiniteSet(W) /\ x.num - (x.count + 1) = Cardinality(W)
             /\ \A v \in Server : v \notin W => ~Open(chan', pend', s, v, i)
<1> DEFINE x == pend[s][l]
           next == Toward(At[asker[i]])
           V == Waiting(chan, pend, s, x)
           W == {v \in Edge[s] \ {x.con} : Open(chan', pend', s, v, i)}
<1>1. /\ AllUp /\ TypeOK /\ Counts(chan, pend) /\ AllHomeward(asker, pend)
      /\ Ordered(client, Links(s), s, pend[s]) /\ x \in Entry
  <2>1. TypeOK
    BY DEF AnsweredInv, ServiceInv, RoutedInv, SearchInv
  <2>2. x \in Entry
    <3>1. pend[s] \in Seq(Entry)
      BY <2>1 DEF TypeOK
    <3> QED BY <3>1, ElementOfSeq
  <2> QED BY <2>1, <2>2 DEF AnsweredInv, ServiceInv, RoutedInv, SearchInv
<1>2. x.num - x.count = Cardinality(V) /\ Homeward(asker, s, x)
  BY <1>1 DEF Counts, AllHomeward
<1>3. x.num \in Int /\ x.count \in Nat /\ x.id = i
  BY <1>1 DEF Entry
<1>4. \A v \in Server : Open(chan, pend, s, v, i) => v \in Edge[s] /\ next[s] # v
  BY OpenAway
<1>5. \A v \in Server : Open(chan, pend, s, v, i) => v # x.con
  <2>1. \A v \in Server : v \notin Client
    BY Setting
  <2> QED BY <1>2, <1>3, <1>4, <2>1 DEF Homeward
<1>6. Edge[s] \subseteq Server
  BY Setting
<1> HIDE DEF x, next
<1>7. V = {v \in Edge[s] \ {x.con} : Open(chan, pend, s, v, i)}
  BY <1>3 DEF Waiting
<1> HIDE DEF V, W
<1>8. t \in V /\ W = V \ {t}
  <2>1. t \in V
    BY <1>4, <1>5, <1>7
  <2>2. \A v : v \in W <=> v \in V /\ v # t
    BY <1>6, <1>7 DEF W
  <2> QED BY <2>1, <2>2
<1>9. IsFiniteSet(V)
  <2>1. Server # {} => IsFiniteSet(Server)
    BY FiniteNet
  <2>2. V \subseteq Server
    BY <1>6, <1>7
  <2> QED BY <2>1, <2>2, FS_Subset
<1>10. IsFiniteSet(W) /\ Cardinality(W) = Cardinality(V) - 1 /\ Cardinality(V) \in Nat
  BY <1>8, <1>9, FS_RemoveElement, FS_CardinalityType
<1>11. x.num - (x.count + 1) = Cardinality(W)
  BY <1>2, <1>3, <1>10
<1>12. \A v \in Server : v \notin W => ~Open(chan', pend', s, v, i)
  BY <1>4, <1>5 DEF W
<1> QED BY <1>10, <1>11, <1>12 DEF x, W

LEMMA CloseAnswers ==
  ASSUME AnsweredInv, NEW s \in Server, NEW t \in Server, NEW i \in Id, Answered(s, t, i)
  PROVE  Counted(asker', chan', pend') /\ Over(asker', heard', chan', pend')
<1>1. /\ TypeOK /\ AllUp /\ Rooted(asker, chan, pend) /\ Counts(chan, pend)
      /\ Over(asker, heard, chan, pend) /\ AllHomeward(asker, pend)
      /\ (\A u \in Server : Sole(pend[u]) /\ pend[u] \in Seq(Entry))
      /\ Ordered(client, Links(s), s, pend[s])
  BY DEF AnsweredInv, ServiceInv, RoutedInv, SearchInv, TypeOK
<1>2. /\ asker' = asker /\ Open(chan, pend, s, t, i)
      /\ \A u, v \in Server, j \in Id :
           Open(chan', pend', u, v, j) <=> Open(chan, pend, u, v, j) /\ ~(u = s /\ v = t /\ j = i)
      /\ \A u \in Server : Sole(pend'[u])
  BY DEF Answered
<1>3. ASSUME NEW l \in DOMAIN pend[s], pend[s][l].id = i
      PROVE  LET x == pend[s][l]
                 W == {v \in Edge[s] \ {x.con} : Open(chan', pend', s, v, i)}
             IN  /\ IsFiniteSet(W) /\ x.num - (x.count + 1) = Cardinality(W)
                 /\ \A v \in Server : v \notin W => ~Open(chan', pend', s, v, i)
  <2>1. \A v \in Server :
          Open(chan', pend', s, v, i) <=> Open(chan, pend, s, v, i) /\ v # t
    BY <1>2
  <2> QED BY <1>2, <1>3, <2>1, WaitsForLess
<1>4. ASSUME NEW l \in DOMAIN pend[s], pend[s][l].id = i, pend[s][l].count + 1 = pend[s][l].num,
             NEW v \in Server
      PROVE  ~Open(chan', pend', s, v, i)
  <2> DEFINE x == pend[s][l]
             W == {w \in Edge[s] \ {x.con} : Open(chan', pend', s, w, i)}
  <2>1. /\ IsFiniteSet(W) /\ x.num - (x.count + 1) = Cardinality(W)
        /\ (v \notin W => ~Open(chan', pend', s, v, i))
    BY <1>3, <1>4
  <2>2. x.num \in Int /\ x.count + 1 = x.num
    <3>1. x \in Entry
      BY <1>1, ElementOfSeq
    <3> QED BY <1>4, <3>1 DEF Entry
  <2> HIDE DEF x, W
  <2>3. Cardinality(W) = 0
    BY <2>1, <2>2
  <2>4. W = {}
    BY <2>1, <2>3, FS_EmptySet
  <2> QED BY <2>1, <2>4
<1>5. Rooted(asker', chan', pend')
  <2> SUFFICES ASSUME NEW u \in Server, NEW v \in Server, NEW j \in Id,
                      Open(chan', pend', u, v, j), At[asker[j]] # u
               PROVE  \E k \in DOMAIN pend'[u] : pend'[u][k].id = j
    BY <1>2 DEF Rooted
  <2>1. Open(chan, pend, u, v, j)
    BY <1>2
  <2>2. PICK l \in DOMAIN pend[u] : pend[u][l].id = j
    BY <1>1, <2>1 DEF Rooted
  <2>3. ~(u = s /\ j = i /\ pend[u][l].count + 1 = pend[u][l].num)
    BY <1>4, <2>2
  <2> QED BY <2>2, <2>3 DEF Answered
<1>6. Counts(chan', pend')
  <2> SUFFICES ASSUME NEW u \in Server, NEW k \in DOMAIN pend'[u]
               PROVE  pend'[u][k].num - pend'[u][k].count =
                        Cardinality(Waiting(chan', pend', u, pend'[u][k]))
    BY DEF Counts
  <2> DEFINE y == pend'[u][k]
  <2>1. PICK l \in DOMAIN pend[u] :
          LET x == pend[u][l]
          IN  /\ y.id = x.id /\ y.con = x.con /\ y.num = x.num
              /\ y.count = IF u = s /\ x.id = i THEN x.count + 1 ELSE x.count
    BY DEF Answered
  <2> DEFINE x == pend[u][l]
  <2>2. x \in Entry /\ Edge[u] \subseteq Server
    BY <1>1, ElementOfSeq, Setting
  <2> HIDE DEF y
  <2>3. CASE u = s /\ x.id = i
    <3> DEFINE W == {v \in Edge[s] \ {x.con} : Open(chan', pend', s, v, i)}
    <3>1. x.num - (x.count + 1) = Cardinality(W)
      BY <1>3, <2>3
    <3>2. Waiting(chan', pend', u, y) = W
      BY <2>1, <2>3 DEF Waiting
    <3> QED BY <2>1, <2>3, <3>1, <3>2 DEF y
  <2>4. CASE ~(u = s /\ x.id = i)
    <3>1. x.num - x.count = Cardinality(Waiting(chan, pend, u, x))
      BY <1>1 DEF Counts
    <3>2. x.id \in Id
      BY <2>2 DEF Entry
    <3>3. y.id = x.id /\ y.con = x.con /\ y.num = x.num /\ y.count = x.count
      BY <2>1, <2>4
    <3> HIDE DEF x
    <3>4. \A v \in Edge[u] : Open(chan', pend', u, v, x.id) <=> Open(chan, pend, u, v, x.id)
      BY <1>2, <2>2, <2>4, <3>2
    <3>5. Waiting(chan', pend', u, y) = Waiting(chan, pend, u, x)
      BY <3>3, <3>4 DEF Waiting
    <3> QED BY <3>1, <3>3, <3>5 DEF y
  <2> QED BY <2>3, <2>4
<1>7. Over(asker', heard', chan', pend')
  <2> SUFFICES ASSUME NEW j \in Id, heard'[j].ends > 0, NEW v \in Edge[At[asker[j]]]
               PROVE  ~Open(chan', pend', At[asker[j]], v, j)
    BY <1>2 DEF Over
  <2>1. CASE heard[j].ends > 0
    <3>1. ~Open(chan, pend, At[asker[j]], v, j)
      BY <1>1, <2>1 DEF Over
    <3>2. asker[j] # None
      BY <2>1 DEF AnsweredInv, ServiceInv, OnceInv, HeardOnce
    <3>3. At[asker[j]] \in Server /\ v \in Server
      BY <1>1, <3>2, Setting DEF TypeOK
    <3> QED BY <1>2, <3>1, <3>3
  <2>2. CASE ~(heard[j].ends > 0)
    <3>1. PICK l \in DOMAIN pend[s] :
            /\ j = i /\ pend[s][l].id = i /\ pend[s][l].con \in Client
            /\ pend[s][l].count + 1 = pend[s][l].num
      BY <2>2 DEF Answered
    <3>2. Homeward(asker, s, pend[s][l]) /\ InOrder(client, Links(s), s, pend[s][l])
      BY <1>1 DEF AllHomeward, Ordered
    <3>3. At[asker[j]] = s
      BY <3>1, <3>2 DEF Homeward, InOrder
    <3>4. v \in Server
      BY <3>3, Setting
    <3> QED BY <1>4, <3>1, <3>3, <3>4
  <2> QED BY <2>1, <2>2
<1> QED BY <1>2, <1>5, <1>6, <1>7 DEF Counted

\* The last END for an entry: it leaves the list, and its own END is sent on.
Ending(ch, s, p, e) ==
  /\ Plains(ch) /\ Singles(ch) /\ Exclusive(ch, pend) /\ Sole(pend[s])
  /\ e.id = pend[s][p].id /\ e.con = pend[s][p].con /\ (e.con \in Client \/ e.con \in Edge[s])
  /\ pend' = [pend EXCEPT ![s] = Sift(pend[s], DOMAIN pend[s] \ {p})]
  /\ Sent(ch, chan', s, {e.con}, <<End(e.id)>>)
Ended(ch, s, p, e) ==
  /\ Plains(chan') /\ Singles(chan') /\ Exclusive(chan', pend')
  /\ \A u, v \in Server, j \in Id :
       Open(chan', pend', u, v, j) <=> Open(ch, pend, u, v, j)
  /\ \A u \in Server : \A k \in DOMAIN pend'[u] : \E l \in DOMAIN pend[u] :
       pend'[u][k] = pend[u][l] /\ (u = s => pend[u][l].id # e.id)
  /\ Sole(pend'[s])
  /\ \A u \in Server : \A l \in DOMAIN pend[u] :
       (\E k \in DOMAIN pend'[u] : pend'[u][k] = pend[u][l]) \/ (u = s /\ l = p)

LEMMA LastAnswers ==
  ASSUME TypeOK, AllUp, NEW ch \in Chans, NEW s \in Server, NEW p \in DOMAIN pend[s],
         NEW e \in Entry, Ending(ch, s, p, e)
  PROVE  Ended(ch, s, p, e)
<1>0. /\ Plains(ch) /\ Singles(ch) /\ Exclusive(ch, pend) /\ Sole(pend[s])
      /\ e.id = pend[s][p].id /\ e.con = pend[s][p].con /\ (e.con \in Client \/ e.con \in Edge[s])
      /\ pend' = [pend EXCEPT ![s] = Sift(pend[s], DOMAIN pend[s] \ {p})]
      /\ Sent(ch, chan', s, {e.con}, <<End(e.id)>>)
  BY DEF Ending
<1> DEFINE q == pend[s]
           K == DOMAIN q \ {p}
           new == Sift(q, K)
           i == e.id
           con == e.con
           msgs == <<End(i)>>
<1>1. q \in Seq(Entry) /\ i \in Id /\ con \in Client \cup Server /\ q[p].id = i /\ q[p].con = con
  BY <1>0 DEF TypeOK, Entry
<1>2. K \in SUBSET DOMAIN q /\ p \in DOMAIN q /\ (\A k : k \in K <=> k \in DOMAIN q /\ k # p) /\ Sole(q)
  BY <1>0
<1>3. \A u \in Server : pend'[u] = IF u = s THEN new ELSE pend[u]
  BY <1>0 DEF TypeOK
<1> HIDE DEF q, K
<1>4. /\ \A n \in DOMAIN new : \E k \in K : new[n] = q[k]
      /\ \A k \in K : \E n \in DOMAIN new : new[n] = q[k]
  <2>1. \A n \in DOMAIN new : \E k \in K : new[n] = q[k]
    BY <1>1, <1>2, Sifted
  <2>2. ASSUME NEW k \in K PROVE \E n \in DOMAIN new : new[n] = q[k]
    BY <1>1, <1>2, SiftAll
  <2> QED BY <2>1, <2>2
<1>5. \A k \in K : k \in DOMAIN q /\ q[k].id # i
  BY <1>1, <1>2 DEF Sole
<1>6. Sole(new)
  <2> SUFFICES ASSUME NEW m \in DOMAIN new, NEW n \in DOMAIN new, m # n, new[m].id = new[n].id
               PROVE  FALSE
    BY DEF Sole
  <2>1. PICK j \in K, k \in K : j # k /\ new[m] = q[j] /\ new[n] = q[k]
    BY <1>1, <1>2, SiftApart
  <2> QED BY <1>2, <2>1 DEF Sole
<1> HIDE DEF new, i, con
<1>7. ASSUME NEW u \in Server, NEW k \in DOMAIN pend'[u]
      PROVE  \E l \in DOMAIN pend[u] : pend'[u][k] = pend[u][l] /\ (u = s => pend[u][l].id # i)
  <2>1. CASE u = s
    <3>1. PICK l \in K : new[k] = q[l]
      BY <1>3, <1>4, <2>1
    <3>2. l \in DOMAIN q /\ q[l].id # i
      BY <1>5
    <3> QED BY <1>3, <2>1, <3>1, <3>2 DEF q
  <2>2. CASE u # s
    BY <1>3, <2>2
  <2> QED BY <2>1, <2>2
<1>8. ASSUME NEW u \in Server, NEW l \in DOMAIN pend[u]
      PROVE  (\E k \in DOMAIN pend'[u] : pend'[u][k] = pend[u][l]) \/ (u = s /\ l = p)
  <2>1. CASE u = s /\ l # p
    <3>1. l \in K
      BY <1>2, <2>1 DEF q
    <3>2. PICK k \in DOMAIN new : new[k] = q[l]
      BY <1>4, <3>1
    <3> QED BY <1>3, <2>1, <3>2 DEF q
  <2>2. CASE u # s
    BY <1>3, <2>2
  <2> QED BY <2>1, <2>2
<1>9. Sole(pend'[s])
  BY <1>3, <1>6
<1>10. ASSUME NEW u \in Server, NEW v \in Server, NEW j \in Id
       PROVE  Held(pend', u, v, j) <=> Held(pend, u, v, j) /\ ~(v = s /\ u = con /\ j = i)
  <2>1. ASSUME Held(pend', u, v, j) PROVE Held(pend, u, v, j) /\ ~(v = s /\ u = con /\ j = i)
    <3>1. PICK k \in DOMAIN pend'[v] : pend'[v][k].id = j /\ pend'[v][k].con = u
      BY <2>1 DEF Held
    <3>2. PICK l \in DOMAIN pend[v] : pend'[v][k] = pend[v][l] /\ (v = s => pend[v][l].id # i)
      BY <1>7
    <3> QED BY <3>1, <3>2 DEF Held
  <2>2. ASSUME Held(pend, u, v, j), ~(v = s /\ u = con /\ j = i) PROVE Held(pend', u, v, j)
    <3>1. PICK l \in DOMAIN pend[v] : pend[v][l].id = j /\ pend[v][l].con = u
      BY <2>2 DEF Held
    <3>2. ~(v = s /\ l = p)
      BY <1>1, <2>2, <3>1 DEF q
    <3>3. PICK k \in DOMAIN pend'[v] : pend'[v][k] = pend[v][l]
      BY <1>8, <3>2
    <3> QED BY <3>1, <3>3 DEF Held
  <2> QED BY <2>1, <2>2
<1>11. /\ msgs \in Seq(Message) /\ Bears(msgs, "END", i) /\ Plain(msgs)
  <2>1. msgs \in Seq(Message)
    BY <1>1 DEF End, Message, i
  <2>2. Bears(msgs, "END", i)
    BY <1>1, SendsBear
  <2>3. Plain(msgs)
    BY <1>1, SendsPlain
  <2> QED BY <2>1, <2>2, <2>3
<1> DEFINE to == con \in Edge[s]
<1>12. "SEARCH" \in Kinds /\ "END" \in Kinds /\ Edge[s] \subseteq Server
       /\ \A v \in Server : v \notin Client
  BY Setting DEF Kinds
<1>13. to => Held(pend, con, s, i)
  BY <1>1 DEF Held, q
<1>14. to => ~Has(ch[s][con], "END", i) /\ ~Has(ch[con][s], "SEARCH", i)
  BY <1>0, <1>1, <1>12, <1>13 DEF Exclusive
<1> HIDE DEF msgs
<1>15. Sent(ch, chan', s, {con}, msgs)
  BY <1>0 DEF con, i, msgs
<1>16. Plains(chan')
  BY <1>0, <1>11, <1>15, SentPlain
<1>17. ASSUME NEW u \in Server, NEW v \in Server, NEW type \in Kinds, NEW j \in Id
       PROVE  /\ Has(chan'[u][v], type, j) <=>
                   \/ Has(ch[u][v], type, j)
                   \/ to /\ u = s /\ v = con /\ type = "END" /\ j = i
              /\ Single(chan'[u][v], type, j)
  <2>1. /\ Has(chan'[u][v], type, j) <=>
             Has(ch[u][v], type, j) \/ (u = s /\ v \in {con} \cap Edge[s] /\ Has(msgs, type, j))
        /\ Single(ch[u][v], type, j) /\ Single(msgs, type, j)
             /\ ~(u = s /\ v \in {con} \cap Edge[s] /\ Has(ch[u][v], type, j) /\ Has(msgs, type, j))
             => Single(chan'[u][v], type, j)
    BY <1>11, <1>15, SentHas
  <2>2. Single(ch[u][v], type, j) /\ Single(msgs, type, j)
        /\ (Has(msgs, type, j) <=> type = "END" /\ j = i)
    BY <1>0, <1>11 DEF Singles, Bears, Kinds
  <2> QED BY <1>14, <2>1, <2>2
<1>18. Singles(chan')
  BY <1>12, <1>17 DEF Singles
<1>19. \A u, v \in Server, j \in Id :
         /\ Has(chan'[u][v], "SEARCH", j) <=> Has(ch[u][v], "SEARCH", j)
         /\ Has(chan'[v][u], "END", j) <=>
              Has(ch[v][u], "END", j) \/ (to /\ v = s /\ u = con /\ j = i)
         /\ Held(pend', u, v, j) <=> Held(pend, u, v, j) /\ ~(to /\ v = s /\ u = con /\ j = i)
  <2>1. \A u \in Server : u = con => to
    BY <1>0, <1>12 DEF con
  <2> QED BY <1>10, <1>12, <1>17, <2>1
<1>20. ASSUME NEW u \in Server, NEW v \in Server, NEW j \in Id
       PROVE  /\ Open(chan', pend', u, v, j) <=> Open(ch, pend, u, v, j)
              /\ ~(Has(chan'[u][v], "SEARCH", j) /\ Held(pend', u, v, j))
              /\ ~(Has(chan'[u][v], "SEARCH", j) /\ Has(chan'[v][u], "END", j))
              /\ ~(Held(pend', u, v, j) /\ Has(chan'[v][u], "END", j))
  <2>1. /\ ~(Has(ch[u][v], "SEARCH", j) /\ Held(pend, u, v, j))
        /\ ~(Has(ch[u][v], "SEARCH", j) /\ Has(ch[v][u], "END", j))
        /\ ~(Held(pend, u, v, j) /\ Has(ch[v][u], "END", j))
    BY <1>0 DEF Exclusive
  <2> HIDE DEF to
  <2> QED BY <1>13, <1>14, <1>19, <2>1 DEF Open
<1>21. Exclusive(chan', pend')
  BY <1>20 DEF Exclusive
<1> QED BY <1>7, <1>8, <1>9, <1>16, <1>18, <1>20, <1>21 DEF i, Ended

LEMMA EndAnswers ==
  ASSUME AnsweredInv, Undisturbed, ServiceInv', NEW s \in Server, NEW t \in Server, RecvEnd(s, t)
  PROVE  AnsweredInv'
<1> DEFINE m == Head(chan[t][s])
           i == m.id
           q == pend[s]
           p == Place(q, i)
           e == [q[p] EXCEPT !.count = @ + 1]
           last == Found(q, i) /\ LastEnd(e)
           more == IF last THEN <<e>> ELSE <<>>
           ch == Received(t, s)
<1>1. /\ TypeOK /\ AllUp /\ now <= MaxTime /\ chan[t][s] # <<>> /\ m.type = "END"
      /\ heard \in Heards /\ q \in Seq(Entry) /\ (\A u \in Server : Sole(pend[u]))
      /\ Ordered(client, Links(s), s, q)
      /\ UNCHANGED <<end, asker, now>>
  BY DEF AnsweredInv, ServiceInv, RoutedInv, SearchInv, RecvEnd, Deliver, TypeOK, Heards
<1>2. Kept(s, i) = q /\ Dropped(s, i) = <<>>
  BY NothingExpires
<1>3. m \in Message /\ i \in Id /\ ch \in Chans /\ Has(chan[t][s], "END", i)
  BY <1>1, HeadOfSearch, ReceivedTyped
<1>4. <<>> \o more = more
  OBVIOUS
<1>5. /\ pend' = [pend EXCEPT ![s] = IF last THEN Sift(q, DOMAIN q \ {p})
                                     ELSE IF Found(q, i) THEN [q EXCEPT ![p] = e] ELSE q]
      /\ chan' = EndsOn(ch, s, more) /\ heard' = EndsHeard(heard, more)
  BY <1>2, <1>4 DEF RecvEnd
<1>6. Found(q, i) => p \in DOMAIN q /\ q[p].id = i
  BY <1>1, FoundPlace
<1>7. ~Found(q, i) => \A k \in DOMAIN q : q[k].id # i
  BY <1>1, FoundPlace
<1>8. /\ Plains(ch) /\ Singles(ch) /\ Exclusive(ch, pend)
      /\ \A u, v \in Server, j \in Id :
           Open(ch, pend, u, v, j) <=> Open(chan, pend, u, v, j) /\ ~(u = s /\ v = t /\ j = i)
  BY <1>1, ReadOpens DEF ReadOpen, Closed
<1>9. Open(chan, pend, s, t, i)
  BY <1>3 DEF Open
<1>10. Found(q, i) => q[p] \in Entry
  BY <1>1, <1>6, ElementOfSeq
<1>11. Found(q, i) => /\ e \in Entry /\ e.id = i /\ e.con = q[p].con /\ e.num = q[p].num
                      /\ e.count = q[p].count + 1
  <2>1. ASSUME NEW x \in Entry, NEW y, y = [x EXCEPT !.count = @ + 1]
        PROVE  y \in Entry /\ y.id = x.id /\ y.con = x.con /\ y.num = x.num /\ y.count = x.count + 1
    BY <2>1 DEF Entry
  <2>2. e = [q[p] EXCEPT !.count = @ + 1]
    OBVIOUS
  <2> HIDE DEF e, p, q
  <2> QED BY <1>6, <1>10, <2>1, <2>2
<1>12. \E x : x \in Entry
  <2>1. [id |-> i, con |-> s, count |-> 0, num |-> 0, ts |-> 0] \in Entry
    BY <1>3 DEF Entry
  <2> QED BY <2>1
<1>13. EndsOn(ch, s, <<>>) = ch /\ \A j \in Id : EndsHeard(heard, <<>>)[j].ends = heard[j].ends
  BY <1>1, <1>3, <1>12, OneEnd
<1> HIDE DEF ch, e, p, m, i
<1>14. /\ Plains(chan') /\ Singles(chan') /\ Exclusive(chan', pend') /\ Answered(s, t, i)
  <2>1. CASE ~Found(q, i)
    <3>1. pend' = pend /\ chan' = ch /\ \A j \in Id : heard'[j].ends = heard[j].ends
      BY <1>1, <1>5, <1>13, <2>1 DEF TypeOK
    <3>2. Answered(s, t, i)
      BY <1>1, <1>7, <1>8, <1>9, <2>1, <3>1 DEF Answered
    <3> QED BY <1>8, <3>1, <3>2
  <2>2. CASE Found(q, i) /\ ~last
    <3>1. /\ pend' = [pend EXCEPT ![s] = [q EXCEPT ![p] = e]] /\ chan' = ch
          /\ \A j \in Id : heard'[j].ends = heard[j].ends
      BY <1>5, <1>13, <2>2
    <3>2. \A u \in Server : /\ DOMAIN pend'[u] = DOMAIN pend[u]
                            /\ \A k \in DOMAIN pend[u] :
                                 pend'[u][k] = IF u = s /\ k = p THEN e ELSE pend[u][k]
      BY <1>1, <3>1 DEF TypeOK
    <3>3. \A k \in DOMAIN q : q[k].id = i => k = p
      BY <1>1, <1>6, <2>2 DEF Sole
    <3>4. \A u \in Server : \A k \in DOMAIN pend[u] :
            /\ pend'[u][k].id = pend[u][k].id /\ pend'[u][k].con = pend[u][k].con
            /\ pend'[u][k].num = pend[u][k].num
            /\ pend'[u][k].count = IF u = s /\ pend[u][k].id = i THEN pend[u][k].count + 1
                                   ELSE pend[u][k].count
      BY <1>6, <1>11, <2>2, <3>2, <3>3
    <3>5. \A u \in Server : Sole(pend'[u])
      BY <1>1, <3>2, <3>4 DEF Sole
    <3>6. \A u, v \in Server, j \in Id : Held(pend', u, v, j) <=> Held(pend, u, v, j)
      BY <3>2, <3>4 DEF Held
    <3>7. Exclusive(chan', pend')
      BY <1>8, <3>1, <3>6 DEF Exclusive
    <3>8. \A u, v \in Server, j \in Id : Open(chan', pend', u, v, j) <=> Open(ch, pend, u, v, j)
      BY <3>1, <3>6 DEF Open
    <3>9. Answered(s, t, i)
      <4>1. asker' = asker /\ \A j \in Id : heard'[j].ends > 0 => heard[j].ends > 0
        BY <1>1, <3>1
      <4>2. \A u, v \in Server, j \in Id :
              Open(chan', pend', u, v, j) <=>
                Open(chan, pend, u, v, j) /\ ~(u = s /\ v = t /\ j = i)
        BY <1>8, <3>8
      <4>3. \A u \in Server : \A k \in DOMAIN pend'[u] : \E l \in DOMAIN pend[u] :
              LET x == pend[u][l]
              IN  /\ pend'[u][k].id = x.id /\ pend'[u][k].con = x.con /\ pend'[u][k].num = x.num
                  /\ pend'[u][k].count = IF u = s /\ x.id = i THEN x.count + 1 ELSE x.count
        BY <3>2, <3>4
      <4>4. \A u \in Server : \A l \in DOMAIN pend[u] :
              \E k \in DOMAIN pend'[u] : pend'[u][k].id = pend[u][l].id
        BY <3>2, <3>4
      <4> QED BY <1>9, <3>5, <4>1, <4>2, <4>3, <4>4 DEF Answered
    <3> QED BY <1>8, <3>1, <3>7, <3>9
  <2>3. CASE last
    <3>1. /\ pend' = [pend EXCEPT ![s] = Sift(pend[s], DOMAIN pend[s] \ {p})]
          /\ chan' = EndsOn(ch, s, <<e>>) /\ heard' = EndsHeard(heard, <<e>>)
      BY <1>5, <2>3
    <3>2. /\ p \in DOMAIN pend[s] /\ e \in Entry /\ e.id = i /\ e.con = q[p].con
          /\ pend[s][p].id = i /\ q[p].count + 1 = q[p].num
      BY <1>6, <1>11, <2>3 DEF LastEnd
    <3>3. Sent(ch, chan', s, {e.con}, <<End(e.id)>>)
      BY <1>1, <1>3, <3>1, <3>2, OneEnd DEF ch
    <3>4. \A j \in Id : heard'[j].ends > 0 => heard[j].ends > 0 \/ (j = i /\ e.con \in Client)
      <4>1. ch \in Chans
        BY <1>3 DEF ch
      <4> QED BY <1>1, <3>1, <3>2, <4>1, OneEnd
    <3>5. e.con \in Client \/ e.con \in Edge[s]
      <4>1. InOrder(client, Links(s), s, q[p])
        BY <1>1, <3>2 DEF Ordered
      <4>2. Links(s) = Edge[s]
        BY <1>1, WholeLinks
      <4> QED BY <3>2, <4>1, <4>2 DEF InOrder
    <3>6. /\ Plains(chan') /\ Singles(chan') /\ Exclusive(chan', pend')
          /\ \A u, v \in Server, j \in Id :
               Open(chan', pend', u, v, j) <=> Open(ch, pend, u, v, j)
          /\ \A u \in Server : \A k \in DOMAIN pend'[u] : \E l \in DOMAIN pend[u] :
               pend'[u][k] = pend[u][l] /\ (u = s => pend[u][l].id # i)
          /\ Sole(pend'[s])
          /\ \A u \in Server : \A l \in DOMAIN pend[u] :
               (\E k \in DOMAIN pend'[u] : pend'[u][k] = pend[u][l]) \/ (u = s /\ l = p)
      <4>1. ch \in Chans /\ e.id = pend[s][p].id /\ e.con = pend[s][p].con /\ Sole(pend[s])
        BY <1>1, <1>3, <3>2 DEF ch
      <4>2. Ending(ch, s, p, e)
        BY <1>8, <3>1, <3>3, <3>5, <4>1 DEF Ending
      <4>3. Ended(ch, s, p, e)
        BY <1>1, <3>2, <4>1, <4>2, LastAnswers
      <4> QED BY <3>2, <4>3 DEF Ended
    <3>7. \A u \in Server : Sole(pend'[u])
      <4>1. \A u \in Server : u # s => pend'[u] = pend[u]
        BY <1>1, <3>1 DEF TypeOK
      <4> QED BY <1>1, <3>6, <4>1
    <3>8. Answered(s, t, i)
      <4>1. asker' = asker
        BY <1>1
      <4>2. \A u, v \in Server, j \in Id :
              Open(chan', pend', u, v, j) <=>
                Open(chan, pend, u, v, j) /\ ~(u = s /\ v = t /\ j = i)
        BY <1>8, <3>6
      <4>3. \A u \in Server : \A k \in DOMAIN pend'[u] : \E l \in DOMAIN pend[u] :
              LET x == pend[u][l]
              IN  /\ pend'[u][k].id = x.id /\ pend'[u][k].con = x.con /\ pend'[u][k].num = x.num
                  /\ pend'[u][k].count = IF u = s /\ x.id = i THEN x.count + 1 ELSE x.count
        BY <3>6
      <4>4. \A u \in Server : \A l \in DOMAIN pend[u] :
              LET x == pend[u][l]
              IN  (\E k \in DOMAIN pend'[u] : pend'[u][k].id = x.id)
                    \/ (u = s /\ x.id = i /\ x.count + 1 = x.num)
        BY <3>2, <3>6
      <4>5. \A j \in Id : heard'[j].ends > 0 =>
              \/ heard[j].ends > 0
              \/ j = i /\ \E l \in DOMAIN pend[s] :
                   LET x == pend[s][l] IN x.id = i /\ x.con \in Client /\ x.count + 1 = x.num
        BY <3>2, <3>4
      <4> QED BY <1>9, <3>7, <4>1, <4>2, <4>3, <4>4, <4>5 DEF Answered
    <3> QED BY <3>6, <3>8
  <2> QED BY <2>1, <2>2, <2>3
<1>15. Counted(asker', chan', pend') /\ Over(asker', heard', chan', pend')
  BY <1>3, <1>14, CloseAnswers DEF i, m
<1>16. AllUp'
  BY <1>1 DEF AllUp
<1> QED BY <1>1, <1>14, <1>15, <1>16 DEF AnsweredInv, Counted

LEMMA ReapClientAnswers ==
  ASSUME AnsweredInv, ServiceInv', NEW c \in Client, ReapClient(c)
  PROVE  AnsweredInv'
<1> DEFINE s == At[c]
           q == pend[s]
           K == {k \in DOMAIN q : q[k].con # c}
           new == Sift(q, K)
<1>1. /\ TypeOK /\ AllUp /\ Plains(chan) /\ Singles(chan) /\ Exclusive(chan, pend) /\ now <= MaxTime
      /\ Rooted(asker, chan, pend) /\ Counts(chan, pend) /\ Over(asker, heard, chan, pend)
      /\ (\A u \in Server : Sole(pend[u]) /\ pend[u] \in Seq(Entry)) /\ AllHomeward(asker, pend)
      /\ s \in Server /\ c \notin Server
  BY Setting DEF AnsweredInv, ServiceInv, RoutedInv, SearchInv, TypeOK
<1>2. /\ UNCHANGED <<end, chan, asker, heard, now>>
      /\ \A u \in Server : pend'[u] = IF u = s THEN new ELSE pend[u]
  BY <1>1 DEF ReapClient, CancelClient, TypeOK
<1>3. q \in Seq(Entry) /\ K \in SUBSET DOMAIN q /\ Sole(q)
      /\ \A k : k \in K <=> k \in DOMAIN q /\ q[k].con # c
  BY <1>1
<1> HIDE DEF K
<1>4. /\ \A n \in DOMAIN new : \E k \in K : new[n] = q[k]
      /\ \A k \in K : \E n \in DOMAIN new : new[n] = q[k]
  <2> HIDE DEF q
  <2>1. \A n \in DOMAIN new : \E k \in K : new[n] = q[k]
    BY <1>3, Sifted
  <2>2. ASSUME NEW k \in K PROVE \E n \in DOMAIN new : new[n] = q[k]
    BY <1>3, SiftAll
  <2> QED BY <2>1, <2>2
<1>5. Sole(new)
  <2> HIDE DEF q
  <2> SUFFICES ASSUME NEW m \in DOMAIN new, NEW n \in DOMAIN new, m # n, new[m].id = new[n].id
               PROVE  FALSE
    BY DEF Sole
  <2>1. PICK j \in K, k \in K : j # k /\ new[m] = q[j] /\ new[n] = q[k]
    BY <1>3, SiftApart
  <2> QED BY <1>3, <2>1 DEF Sole
<1> HIDE DEF new, s
<1>6. ASSUME NEW u \in Server, NEW k \in DOMAIN pend'[u]
      PROVE  \E l \in DOMAIN pend[u] : pend'[u][k] = pend[u][l]
  BY <1>2, <1>3, <1>4, <1>6
<1>7. ASSUME NEW u \in Server, NEW l \in DOMAIN pend[u]
      PROVE  (\E k \in DOMAIN pend'[u] : pend'[u][k] = pend[u][l]) \/ (u = s /\ pend[u][l].con = c)
  <2>1. CASE u = s /\ pend[u][l].con # c
    <3>1. l \in K
      BY <1>3, <2>1
    <3>2. PICK k \in DOMAIN new : new[k] = q[l]
      BY <1>4, <3>1
    <3> QED BY <1>2, <2>1, <3>2
  <2>2. CASE u # s
    BY <1>2, <2>2
  <2> QED BY <2>1, <2>2
<1> HIDE DEF q
<1>8. ASSUME NEW u \in Server, NEW v \in Server, NEW j \in Id
      PROVE  Held(pend', u, v, j) <=> Held(pend, u, v, j)
  <2>1. ASSUME Held(pend', u, v, j) PROVE Held(pend, u, v, j)
    <3>1. PICK k \in DOMAIN pend'[v] : pend'[v][k].id = j /\ pend'[v][k].con = u
      BY <2>1 DEF Held
    <3>2. PICK l \in DOMAIN pend[v] : pend'[v][k] = pend[v][l]
      BY <1>6
    <3> QED BY <3>1, <3>2 DEF Held
  <2>2. ASSUME Held(pend, u, v, j) PROVE Held(pend', u, v, j)
    <3>1. PICK l \in DOMAIN pend[v] : pend[v][l].id = j /\ pend[v][l].con = u
      BY <2>2 DEF Held
    <3>2. PICK k \in DOMAIN pend'[v] : pend'[v][k] = pend[v][l]
      BY <1>1, <1>7, <3>1
    <3> QED BY <3>1, <3>2 DEF Held
  <2> QED BY <2>1, <2>2
<1>9. \A u, v \in Server, j \in Id : Open(chan', pend', u, v, j) <=> Open(chan, pend, u, v, j)
  BY <1>2, <1>8 DEF Open
<1>10. Exclusive(chan', pend') /\ \A u \in Server : Sole(pend'[u])
  BY <1>1, <1>2, <1>5, <1>8 DEF Exclusive
<1>11. Rooted(asker', chan', pend')
  <2> SUFFICES ASSUME NEW u \in Server, NEW v \in Server, NEW j \in Id,
                      Open(chan', pend', u, v, j), At[asker[j]] # u
               PROVE  \E k \in DOMAIN pend'[u] : pend'[u][k].id = j
    BY <1>2 DEF Rooted
  <2>1. Open(chan, pend, u, v, j)
    BY <1>9
  <2>2. PICK l \in DOMAIN pend[u] : pend[u][l].id = j
    BY <1>1, <2>1 DEF Rooted
  <2>3. CASE u = s /\ pend[u][l].con = c
    <3>1. Homeward(asker, u, pend[u][l])
      BY <1>1 DEF AllHomeward
    <3>2. asker[j] = c
      BY <2>2, <2>3, <3>1 DEF Homeward
    <3> QED BY <2>3, <3>2 DEF s
  <2>4. CASE ~(u = s /\ pend[u][l].con = c)
    BY <1>7, <2>2, <2>4
  <2> QED BY <2>3, <2>4
<1>12. Counts(chan', pend')
  <2> SUFFICES ASSUME NEW u \in Server, NEW k \in DOMAIN pend'[u]
               PROVE  pend'[u][k].num - pend'[u][k].count =
                        Cardinality(Waiting(chan', pend', u, pend'[u][k]))
    BY DEF Counts
  <2>1. PICK l \in DOMAIN pend[u] : pend'[u][k] = pend[u][l]
    BY <1>6
  <2> DEFINE x == pend[u][l]
  <2>2. x.num - x.count = Cardinality(Waiting(chan, pend, u, x))
    BY <1>1 DEF Counts
  <2>3. x.id \in Id /\ Edge[u] \subseteq Server
    <3>1. x \in Entry
      BY <1>1, ElementOfSeq
    <3> QED BY <3>1, Setting DEF Entry
  <2> HIDE DEF x
  <2>4. Waiting(chan', pend', u, x) = Waiting(chan, pend, u, x)
    BY <1>9, <2>3 DEF Waiting
  <2> QED BY <2>1, <2>2, <2>4 DEF x
<1>13. Over(asker', heard', chan', pend')
  <2> SUFFICES ASSUME NEW j \in Id, heard[j].ends > 0, NEW v \in Edge[At[asker[j]]]
               PROVE  ~Open(chan', pend', At[asker[j]], v, j)
    BY <1>2 DEF Over
  <2>1. ~Open(chan, pend, At[asker[j]], v, j)
    BY <1>1 DEF Over
  <2>2. asker[j] # None
    BY DEF AnsweredInv, ServiceInv, OnceInv, HeardOnce
  <2>3. At[asker[j]] \in Server /\ v \in Server
    BY <1>1, <2>2, Setting DEF TypeOK
  <2> QED BY <1>9, <2>1, <2>3
<1>14. AllUp'
  BY <1>1, <1>2 DEF AllUp
<1> QED BY <1>1, <1>2, <1>10, <1>11, <1>12, <1>13, <1>14 DEF AnsweredInv

\* Links neither fail nor are made.
LEMMA LinksRest ==
  ASSUME AnsweredInv, Undisturbed, NEW s \in Server, NEW t \in Server
  PROVE  ~(Connects(s, t) \/ ReapLink(s, t))
<1>1. /\ AllUp /\ Plain(chan[t][s]) /\ chan[t][s] \in Seq(Message) /\ splits \in Nat
  BY DEF AnsweredInv, ServiceInv, RoutedInv, SearchInv, TypeOK, Plains
<1>2. end[s][t] = IF t \in Edge[s] THEN "up" ELSE "down"
  BY <1>1 DEF AllUp
<1>3. ~RecvAck(s, t) /\ ~ReapLink(s, t)
  BY <1>2 DEF RecvAck, ReapLink
<1>4. ~Link(s, t)
  BY <1>2 DEF Link
<1>5. ~LinkFails(s, t) /\ ~ServerDisconnect(s, t)
  BY <1>1 DEF LinkFails, ServerDisconnect, Undisturbed
<1>6. ~RecvEof(s, t)
  <2> SUFFICES ASSUME chan[t][s] # <<>>, Head(chan[t][s]).type = "EOF" PROVE FALSE
    BY DEF RecvEof, Deliver
  <2>1. 1 \in DOMAIN chan[t][s] /\ Head(chan[t][s]) = chan[t][s][1]
    BY <1>1
  <2> QED BY <1>1, <2>1 DEF Plain
<1> QED BY <1>3, <1>4, <1>5, <1>6 DEF Connects

LEMMA InitAnswers == ASSUME Init PROVE AnsweredInv
<1>1. ServiceInv
  BY InitServes
<1>2. /\ \A s, t \in Server : chan[s][t] = <<>> /\ end[s][t] = IF t \in Edge[s] THEN "up" ELSE "down"
      /\ \A s \in Server : pend[s] = <<>>
      /\ \A i \in Id : heard[i].ends = 0
      /\ now = 0
  BY DEF Init
<1>3. \A s, t \in Server, i \in Id :
        ~Has(chan[s][t], "SEARCH", i) /\ ~Has(chan[s][t], "END", i) /\ ~Held(pend, s, t, i)
  BY <1>2 DEF Has, Held
<1>4. AllUp /\ Plains(chan) /\ Singles(chan)
  BY <1>2 DEF AllUp, Plains, Plain, Singles, Single
<1>5. Exclusive(chan, pend) /\ Rooted(asker, chan, pend)
  BY <1>3 DEF Exclusive, Rooted, Open
<1>6. Counts(chan, pend) /\ \A s \in Server : Sole(pend[s])
  BY <1>2 DEF Counts, Sole
<1>7. Over(asker, heard, chan, pend)
  BY <1>2 DEF Over
<1>8. now <= MaxTime
  BY <1>2, Setting
<1> QED BY <1>1, <1>4, <1>5, <1>6, <1>7, <1>8 DEF AnsweredInv

LEMMA NextAnswers == ASSUME AnsweredInv, Undisturbed, [Next]_vars PROVE AnsweredInv'
<1>1. ServiceInv'
  BY NextServes DEF AnsweredInv
<1>2. now <= MaxTime /\ now \in Nat /\ MaxTime \in Nat
  BY Setting DEF AnsweredInv, ServiceInv, RoutedInv, SearchInv, TypeOK
<1>3. ASSUME UNCHANGED vars \/ Tick \/ \E c \in Client : Disconnect(c) \/ Zap(c)
      PROVE  AnsweredInv'
  <2>1. UNCHANGED <<end, chan, pend, asker, heard>>
    BY <1>3 DEF vars, Tick, Disconnect, Zap
  <2>2. now' <= MaxTime
    BY <1>2, <1>3 DEF vars, Tick, Disconnect, Zap
  <2> QED BY <1>1, <2>1, <2>2, QuietAnswers
<1>4. ASSUME NEW c \in Client, Ask(c) PROVE AnsweredInv'
  <2>1. PICK i \in Id, max \in Wanted, local \in Scopes : StartSearch(c, i, max, local)
    BY <1>4 DEF Ask
  <2>2. max \in Nat /\ local \in BOOLEAN
    BY Setting
  <2> QED BY <1>1, <2>1, <2>2, AskAnswers
<1>5. ASSUME NEW c \in Client, ReapClient(c) PROVE AnsweredInv'
  BY <1>1, <1>5, ReapClientAnswers
<1>6. ASSUME NEW s \in Server, NEW t \in Server,
             Receive(s, t) \/ Connects(s, t) \/ ReapLink(s, t)
      PROVE  AnsweredInv'
  <2>1. RecvSearch(s, t) \/ RecvResult(s, t) \/ RecvEnd(s, t)
    BY <1>6, LinksRest DEF Receive, Connects
  <2> QED BY <1>1, <2>1, SearchAnswers, ResultAnswers, EndAnswers
<1> QED BY <1>3, <1>4, <1>5, <1>6 DEF Next, Connects

\* A client is told that its search has ended when the ends have come from all peers that
\* were asked (the comment in remote_search_end()), wherever no link fails and no entry
\* times out: in any such network without cycles, for any clients that leave or are cut off.
THEOREM EndsWhenAnswered == ASSUME Undisturbed PROVE Spec => []AllAnswered
<1>1. Init => AnsweredInv
  BY InitAnswers
<1>2. AnsweredInv /\ [Next]_vars => AnsweredInv'
  BY NextAnswers
<1>3. ASSUME AnsweredInv PROVE AllAnswered
  <2> SUFFICES ASSUME NEW i \in Id, heard[i].ends > 0, NEW t \in Server,
                      Unanswered(At[asker[i]], t, i)
               PROVE  FALSE
    BY DEF AllAnswered
  <2> DEFINE s == At[asker[i]]
  <2>1. /\ TypeOK /\ AllUp /\ Over(asker, heard, chan, pend) /\ asker[i] # None
    BY <1>3 DEF AnsweredInv, ServiceInv, RoutedInv, SearchInv, OnceInv, HeardOnce
  <2>2. s \in Server
    BY <2>1, Setting DEF TypeOK
  <2>3. t \in Edge[s]
    BY <2>1, <2>2 DEF Unanswered, AllUp
  <2>4. Open(chan, pend, s, t, i)
    <3>1. Unanswered(s, t, i)
      OBVIOUS
    <3>2. End(i).type = "END" /\ End(i).id = i
      BY DEF End
    <3> HIDE DEF s
    <3> QED BY <3>1, <3>2 DEF Unanswered, Open, Has, Held
  <2> QED BY <2>1, <2>3, <2>4 DEF Over
<1> QED BY <1>1, <1>2, <1>3, PTL DEF Spec
=============================================================================
