-------------------------- MODULE TransfersProofs --------------------------
(***************************************************************************)
(* What Transfers promises of who is asked and who is sent to whom, for    *)
(* every network, every set of users behind firewalls and all requests.    *)
(***************************************************************************)
EXTENDS Transfers, SequenceTheorems, TLAPS

-----------------------------------------------------------------------------
(* The invariant *)

\* What a notice about r says of it, wherever the notice is: with a client or on its
\* way between servers.  M are the requests made, R those replied to.
Reachable(r) == {r.from, r.to} \ Firewalled # {}
Just(what, r, M, R) ==
  /\ r \in M
  /\ what = "ASKED" => Reachable(r)
  /\ what = "CONNECT" => r.from \notin Firewalled
  /\ what = "READY" => r \in R /\ r.to \notin Firewalled

\* upload_request() asks its client without looking at the ports again, so a 607
\* carries what download() has found; a notice carries what its sender has found.
Honest(m, M, R) ==
  /\ m.req \in M
  /\ m.type = "UPLOAD_REQUEST" => Just("ASKED", m.req, M, R)
  /\ m.type = "ENCAPSULATED" => Just(m.what, m.req, M, R)

Links(ch, M, R) ==
  /\ ch \in [Server -> [Server -> Seq(Message)]]
  /\ \A s, t \in Server : \A i \in 1 .. Len(ch[s][t]) : Honest(ch[s][t][i], M, R)
Ears(h, M, R) ==
  /\ h \in [Nick -> SUBSET (Notice \X Request)]
  /\ \A n \in Nick, what \in Notice, r \in Request :
       <<what, r>> \in h[n] => Just(what, r, M, R)

\* The links and the clients carry what is true of the requests made and replied to.
Carried(ch, h, M, R) == Links(ch, M, R) /\ Ears(h, M, R)
TransfersInv == TypeOK /\ Carried(net, heard, made, replied)

-----------------------------------------------------------------------------
(* What is said stays true *)

\* New requests and new replies take nothing back.
LEMMA StaysTrue ==
  ASSUME NEW M, NEW R, NEW M2, NEW R2, M \subseteq M2, R \subseteq R2,
         Carried(net, heard, M, R)
  PROVE  Carried(net, heard, M2, R2)
BY DEF Carried, Links, Ears, Honest, Just

\* send_cmd() to some links, of a message that is true.
LEMMA QueueKeeps ==
  ASSUME NEW ch, NEW M, NEW R, Links(ch, M, R), NEW s \in Server, NEW S,
         NEW m \in Message, Honest(m, M, R)
  PROVE  Links(Queue(ch, s, S, m), M, R)
<1> DEFINE q == Queue(ch, s, S, m)
<1>1. ASSUME NEW a \in Server, NEW b \in Server
      PROVE  q[a][b] = ch[a][b] \/ q[a][b] = Append(ch[a][b], m)
  BY DEF Queue, Links
<1>2. q \in [Server -> [Server -> Seq(Message)]]
  BY DEF Queue, Links
<1> HIDE DEF q
<1>3. ASSUME NEW a \in Server, NEW b \in Server, NEW i \in 1 .. Len(q[a][b])
      PROVE  Honest(q[a][b][i], M, R)
  <2> ch[a][b] \in Seq(Message)
    BY DEF Links
  <2>1. CASE q[a][b] = ch[a][b]
    BY <2>1 DEF Links
  <2>2. CASE q[a][b] = Append(ch[a][b], m)
    BY <2>2 DEF Links
  <2>3. QED
    BY <1>1, <2>1, <2>2
<1>4. QED
  BY <1>2, <1>3 DEF Links, q

\* A message that is read leaves the others in their order.
LEMMA ReceivedKeeps ==
  ASSUME NEW M, NEW R, Links(net, M, R), NEW s \in Server, NEW t \in Server,
         net[t][s] # <<>>
  PROVE  /\ Links(Received(s, t), M, R)
         /\ Head(net[t][s]) \in Message /\ Honest(Head(net[t][s]), M, R)
<1> DEFINE q == Received(s, t)
<1> net \in [Server -> [Server -> Seq(Message)]] /\ net[t][s] \in Seq(Message)
  BY DEF Links
<1>1. q = [net EXCEPT ![t][s] = Tail(net[t][s])]
  BY DEF Received
<1>2. Tail(net[t][s]) \in Seq(Message) /\ Head(net[t][s]) = net[t][s][1]
      /\ 1 \in 1 .. Len(net[t][s]) /\ Head(net[t][s]) \in Message
  BY HeadTailProperties
<1>3. q \in [Server -> [Server -> Seq(Message)]]
  BY <1>1, <1>2
<1>4. ASSUME NEW a \in Server, NEW b \in Server
      PROVE  q[a][b] = IF a = t /\ b = s THEN Tail(net[t][s]) ELSE net[a][b]
  BY <1>1
<1> HIDE DEF q
<1>5. ASSUME NEW a \in Server, NEW b \in Server, NEW i \in 1 .. Len(q[a][b])
      PROVE  Honest(q[a][b][i], M, R)
  <2>1. CASE a = t /\ b = s
    <3>1. Len(Tail(net[t][s])) = Len(net[t][s]) - 1
          /\ \A j \in 1 .. Len(Tail(net[t][s])) : Tail(net[t][s])[j] = net[t][s][j + 1]
      BY HeadTailProperties
    <3> DEFINE l == Tail(net[t][s])
    <3>2. q[a][b] = l
      BY <1>4, <2>1
    <3> l \in Seq(Message)
      BY <1>2
    <3>3. i \in 1 .. Len(l) /\ Len(l) = Len(net[t][s]) - 1 /\ l[i] = net[t][s][i + 1]
      BY <3>1, <3>2
    <3>4. i + 1 \in 1 .. Len(net[t][s])
      BY <3>3
    <3>5. QED
      BY <2>1, <3>2, <3>3, <3>4 DEF Links
  <2>2. CASE ~(a = t /\ b = s)
    BY <1>4, <2>2 DEF Links
  <2>3. QED
    BY <2>1, <2>2
<1>6. QED
  BY <1>2, <1>3, <1>5 DEF Links, q

\* send_cmd() to a client, of a notice that is true.
LEMMA SaysKeeps ==
  ASSUME NEW M, NEW R, Ears(heard, M, R), NEW n \in Nick, NEW what \in Notice,
         NEW r \in Request, Just(what, r, M, R), Says(n, what, r)
  PROVE  Ears(heard', M, R)
BY DEF Ears, Says

\* send_user(), of a notice that is true, here or on the way.
LEMMA TellKeeps ==
  ASSUME NEW ch, NEW M, NEW R, Links(ch, M, R), Ears(heard, M, R), NEW s \in Server,
         NEW n \in Nick, NEW what \in Notice, NEW r \in Request, Just(what, r, M, R),
         Tell(ch, s, n, what, r)
  PROVE  Carried(net', heard', M, R)
<1>1. CASE Local(s, n)
  BY <1>1, SaysKeeps DEF Tell, Carried
<1>2. CASE ~Local(s, n)
  <2> DEFINE m == [type |-> "ENCAPSULATED", to |-> n, what |-> what, req |-> r]
  <2>1. m \in Message /\ Honest(m, M, R)
    BY DEF Message, Honest, Just
  <2>2. Links(Queue(ch, s, {Toward[s][n]}, m), M, R)
    BY <2>1, QueueKeeps
  <2>3. QED
    BY <1>2, <2>2 DEF Tell, Carried
<1>3. QED
  BY <1>1, <1>2

\* download() sends a request on, or asks, only after its tests of the ports.
LEMMA ProcessKeeps ==
  ASSUME NEW ch, NEW M, NEW R, Links(ch, M, R), Ears(heard, M, R), NEW s \in Server,
         NEW r \in Request, r \in M, Process(ch, s, r)
  PROVE  Carried(net', heard', M, R)
<1> r.from \in Nick /\ r.to \in Nick
  BY DEF Request
<1> USE DEF Notice
<1>1. ASSUME NEW what \in {"IGNORED", "ERROR", "PUSH"}, Tell(ch, s, r.from, what, r)
      PROVE  Carried(net', heard', M, R)
  BY <1>1, TellKeeps DEF Just
<1>2. ASSUME NEW what \in {"OPEN", "BOTH_CLOSED"}, Says(r.from, what, r), net' = ch
      PROVE  Carried(net', heard', M, R)
  BY <1>2, SaysKeeps DEF Just, Carried
<1>3. ASSUME Says(r.to, "ASKED", r), net' = ch, Reachable(r)
      PROVE  Carried(net', heard', M, R)
  BY <1>3, SaysKeeps DEF Just, Carried
<1>4. ASSUME NEW type \in {"DOWNLOAD", "UPLOAD_REQUEST"}, Forward(ch, s, r.to, type, r),
             type = "UPLOAD_REQUEST" => Reachable(r)
      PROVE  Carried(net', heard', M, R)
  <2> DEFINE m == Direct(type, r)
  <2>1. m \in Message /\ Honest(m, M, R)
    BY <1>4 DEF Direct, Message, Honest, Just
  <2>2. Links(Queue(ch, s, LinkOf(s, r.to), m), M, R)
    BY <2>1, QueueKeeps
  <2>3. QED
    BY <1>4, <2>2 DEF Forward, Carried
<1>5. CASE Push(r)
  BY <1>1, <1>4, <1>5 DEF Process
<1>6. CASE ~Push(r)
  <2>1. Reachable(r) \/ (r.tag = DOWNLOAD_FIREWALL
                         /\ (r.to \notin Firewalled \/ r.from \in Firewalled))
    BY <1>6 DEF Push, Reachable, Request, DOWNLOAD, DOWNLOAD_FIREWALL
  <2>2. QED
    BY <1>1, <1>2, <1>3, <1>4, <1>6, <2>1 DEF Process
<1>7. QED
  BY <1>5, <1>6

-----------------------------------------------------------------------------
(* The steps *)

LEMMA InvInit == Init => TransfersInv
<1> SUFFICES ASSUME Init PROVE TransfersInv
  OBVIOUS
<1>1. Links(net, made, replied)
  BY DEF Init, Links
<1>2. Ears(heard, made, replied)
  BY DEF Init, Ears
<1>3. TypeOK
  BY <1>1, <1>2, Setting DEF Init, TypeOK, Links, Ears
<1>4. QED
  BY <1>1, <1>2, <1>3 DEF TransfersInv, Carried

\* What is left of TypeOK when the links and the clients are in order.
LEMMA TypesKept ==
  ASSUME TypeOK, Carried(net', heard', made', replied'),
         \/ UNCHANGED shares /\ UNCHANGED changes
         \/ \E n \in Nick, f \in File : Unshare(n, f),
         made' \subseteq Requests, replied' \subseteq made', reported' \subseteq replied'
  PROVE  TransfersInv'
<1> MaxChanges \in Nat
  BY Setting
<1>1. shares' \in [Nick -> SUBSET File] /\ changes' \in 0 .. MaxChanges
  <2>1. CASE UNCHANGED shares /\ UNCHANGED changes
    BY <2>1 DEF TypeOK
  <2>2. ASSUME NEW n \in Nick, NEW f \in File, Unshare(n, f)
        PROVE  shares' \in [Nick -> SUBSET File] /\ changes' \in 0 .. MaxChanges
    BY <2>2 DEF TypeOK, Unshare
  <2>3. QED
    BY <2>1, <2>2
<1>2. QED
  BY <1>1 DEF TransfersInv, TypeOK, Carried, Links, Ears

LEMMA UnshareKeeps ==
  ASSUME TransfersInv, NEW n \in Nick, NEW f \in File, Unshare(n, f)
  PROVE  TransfersInv'
<1>1. Carried(net', heard', made, replied)
  BY DEF TransfersInv, Carried, Unshare
<1>2. QED
  BY <1>1, TypesKept DEF TransfersInv, TypeOK, Unshare

LEMMA AskKeeps ==
  ASSUME TransfersInv, NEW r \in Requests, Ask(r)
  PROVE  TransfersInv'
<1> r \in Request /\ Home[r.from] \in Server
  BY Setting DEF Request
<1>1. Carried(net, heard, made', replied)
  BY StaysTrue DEF TransfersInv, Ask
<1>2. Carried(net', heard', made', replied)
  BY <1>1, ProcessKeeps DEF Ask, Carried
<1>3. QED
  BY <1>2, TypesKept DEF TransfersInv, TypeOK, Ask, Carried

\* A client that has been asked is one of two that can be connected.
LEMMA ReplyKnows ==
  ASSUME TransfersInv, NEW r \in Requests, Reply(r)
  PROVE  /\ r \in Request /\ r.from \in Nick /\ r.to \in Nick /\ Home[r.to] \in Server
         /\ Just("ASKED", r, made, replied)
         /\ Carried(net, heard, made, replied') /\ r \in replied'
<1>1. r \in Request /\ r.from \in Nick /\ r.to \in Nick /\ Home[r.to] \in Server
  BY Setting DEF Request
<1>2. Just("ASKED", r, made, replied)
  BY <1>1 DEF TransfersInv, Carried, Ears, Reply, Notice
<1>3. QED
  BY <1>1, <1>2, StaysTrue DEF TransfersInv, Reply

LEMMA RepliedKept ==
  ASSUME TransfersInv, NEW r \in Requests, Reply(r), Carried(net', heard', made, replied')
  PROVE  TransfersInv'
<1>1. r \in made
  BY ReplyKnows DEF Just
<1>2. QED
  BY <1>1, TypesKept DEF TransfersInv, TypeOK, Reply, Carried

LEMMA AcceptKeeps ==
  ASSUME TransfersInv, NEW r \in Requests, Accept(r)
  PROVE  TransfersInv'
<1> Reply(r)
  BY DEF Accept
<1>1. Carried(net', heard', made, replied')
  <2> USE ReplyKnows DEF Notice, Accept
  <2>1. CASE r.file \notin shares[r.to]
    BY <2>1, SaysKeeps DEF Just, Carried
  <2>2. CASE r.file \in shares[r.to] /\ r.to \in Firewalled
    <3>1. r.from \notin Firewalled
      BY <2>2 DEF Just, Reachable
    <3>2. QED
      BY <2>2, <3>1, SaysKeeps DEF Just, Carried
  <2>3. CASE r.file \in shares[r.to] /\ r.to \notin Firewalled
    BY <2>3, TellKeeps DEF Just, Carried
  <2>4. QED
    BY <2>1, <2>2, <2>3
<1>2. QED
  BY <1>1, RepliedKept

LEMMA QueueLimitKeeps ==
  ASSUME TransfersInv, NEW r \in Requests, QueueLimit(r)
  PROVE  TransfersInv'
<1> Reply(r)
  BY DEF QueueLimit
<1>1. Carried(net', heard', made, replied')
  <2> USE ReplyKnows DEF Notice, QueueLimit
  <2>1. CASE r.file \notin shares[r.to]
    BY <2>1, SaysKeeps DEF Just, Carried
  <2>2. CASE r.file \in shares[r.to]
    BY <2>2, TellKeeps DEF Just, Carried
  <2>3. QED
    BY <2>1, <2>2
<1>2. QED
  BY <1>1, RepliedKept

LEMMA PortErrorKeeps ==
  ASSUME NEW ch, Links(ch, made, replied), Ears(heard, made, replied),
         NEW s \in Server, NEW S, NEW r \in Request, r \in made, PortError(ch, s, S, r)
  PROVE  Carried(net', heard', made, replied)
<1> DEFINE m == Direct("DATA_PORT_ERROR", r)
<1>1. m \in Message /\ Honest(m, made, replied)
  BY DEF Direct, Message, Honest
<1>2. Links(Queue(ch, s, S, m), made, replied)
  BY <1>1, QueueKeeps
<1>3. Ears(heard', made, replied)
  <2>1. r.to \in Nick /\ Just("PORT_ERROR", r, made, replied)
    BY DEF Request, Just
  <2>2. QED
    BY <2>1, SaysKeeps DEF PortError, Notice
<1>4. QED
  BY <1>2, <1>3 DEF PortError, Carried

LEMMA DataPortErrorKeeps ==
  ASSUME TransfersInv, NEW r \in Requests, DataPortError(r)
  PROVE  TransfersInv'
<1> r \in Request /\ r.from \in Nick /\ Home[r.from] \in Server
  BY Setting DEF Request
<1>1. r \in made /\ r \in replied
  BY DEF TransfersInv, Carried, Ears, Just, DataPortError, Notice
<1>2. Carried(net', heard', made, replied)
  BY <1>1, PortErrorKeeps DEF DataPortError, TransfersInv, Carried
<1>3. QED
  BY <1>1, <1>2, TypesKept DEF TransfersInv, TypeOK, DataPortError

\* Every message that is read is true, so what it makes a server say is.
LEMMA ReceiveKeeps ==
  ASSUME TransfersInv, NEW s \in Server, NEW t \in Server, Receive(s, t)
  PROVE  TransfersInv'
<1> DEFINE ch == Received(s, t)
           m == Head(net[t][s])
<1> USE DEF Receive, RecvDownload, RecvUploadRequest, RecvEncapsulated, RecvDataPortError
<1>1. net[t][s] # <<>> /\ UNCHANGED <<shares, made, replied, reported, changes>>
  BY DEF Deliver
<1>2. /\ Links(ch, made, replied) /\ m \in Message /\ Honest(m, made, replied)
      /\ Ears(heard, made, replied)
  BY <1>1, ReceivedKeeps DEF TransfersInv, Carried
<1>3. /\ m.req \in Request /\ m.req \in made /\ m.req.to \in Nick
      /\ m.type = "ENCAPSULATED" => m.to \in Nick /\ m.what \in Notice
  BY <1>2 DEF Message, Honest, Request
<1> HIDE DEF ch, m
<1>4. Carried(net', heard', made, replied)
  <2>1. CASE RecvDownload(s, t)
    BY <1>1, <1>2, <1>3, <2>1, ProcessKeeps DEF ch, m, Carried
  <2>2. CASE RecvUploadRequest(s, t)
    <3>1. m.type = "UPLOAD_REQUEST"
      BY <2>2 DEF Deliver, m
    <3>2. CASE Local(s, m.req.to)
      <4>1. net' = ch /\ (Says(m.req.to, "ASKED", m.req) \/ UNCHANGED heard)
        BY <2>2, <3>2 DEF ch, m
      <4>2. Ears(heard', made, replied)
        BY <1>2, <1>3, <3>1, <4>1, SaysKeeps DEF Notice, Honest
      <4>3. QED
        BY <1>1, <1>2, <4>1, <4>2 DEF Carried
    <3>3. CASE ~Local(s, m.req.to)
      <4>1. net' = Queue(ch, s, PassedTo(s, m.req.to), m) /\ UNCHANGED heard
        BY <2>2, <3>3 DEF ch, m
      <4>2. QED
        BY <1>1, <1>2, <4>1, QueueKeeps DEF Carried
    <3>4. QED
      BY <3>2, <3>3
  <2>3. CASE RecvEncapsulated(s, t)
    <3>1. m.type = "ENCAPSULATED"
      BY <2>3 DEF Deliver, m
    <3>2. CASE Local(s, m.to)
      <4>1. net' = ch /\ Says(m.to, m.what, m.req)
        BY <2>3, <3>2 DEF ch, m
      <4>2. Ears(heard', made, replied)
        BY <1>2, <1>3, <3>1, <4>1, SaysKeeps DEF Honest
      <4>3. QED
        BY <1>1, <1>2, <4>1, <4>2 DEF Carried
    <3>3. CASE ~Local(s, m.to)
      <4>1. net' = Queue(ch, s, Onward(s, t), m) /\ UNCHANGED heard
        BY <2>3, <3>3 DEF ch, m
      <4>2. QED
        BY <1>1, <1>2, <4>1, QueueKeeps DEF Carried
    <3>4. QED
      BY <3>2, <3>3
  <2>4. CASE RecvDataPortError(s, t)
    BY <1>1, <1>2, <1>3, <2>4, PortErrorKeeps DEF ch, m
  <2>5. QED
    BY <2>1, <2>2, <2>3, <2>4
<1>5. QED
  BY <1>1, <1>4, TypesKept DEF TransfersInv, TypeOK

LEMMA InvNext == TransfersInv /\ [Next]_vars => TransfersInv'
<1> SUFFICES ASSUME TransfersInv, [Next]_vars PROVE TransfersInv'
  OBVIOUS
<1>1. CASE UNCHANGED vars
  BY <1>1 DEF TransfersInv, TypeOK, Carried, vars
<1>2. CASE Next
  BY <1>2, UnshareKeeps, AskKeeps, AcceptKeeps, QueueLimitKeeps, DataPortErrorKeeps,
     ReceiveKeeps DEF Next
<1>3. QED
  BY <1>1, <1>2

-----------------------------------------------------------------------------
(* The theorems *)

\* Every variable of Transfers keeps its type: replies are to requests that were made
\* and reports of closed ports about requests that were replied to.
THEOREM TypeCorrect == Spec => []TypeOK
<1>1. TransfersInv => TypeOK
  BY DEF TransfersInv
<1>2. QED
  BY InvInit, InvNext, <1>1, PTL DEF Spec

\* download(), upload_request() and upload_ok() at up to three servers bring together
\* only users of whom one can accept the connection of the other, by the port that the
\* client is told of.
THEOREM AlwaysConnectable == Spec => []Connectable
<1>1. TransfersInv => Connectable
  <2> SUFFICES ASSUME TransfersInv, NEW r \in Requests
               PROVE  /\ <<"ASKED", r>> \in heard[r.to] => {r.from, r.to} \ Firewalled # {}
                      /\ <<"CONNECT", r>> \in heard[r.to] => r.from \notin Firewalled
                      /\ <<"READY", r>> \in heard[r.from]
                           => r \in replied /\ r.to \notin Firewalled
    BY DEF Connectable
  <2>1. r \in Request /\ r.from \in Nick /\ r.to \in Nick
    BY Setting DEF Request
  <2>2. QED
    BY <2>1 DEF TransfersInv, Carried, Ears, Just, Notice, Reachable
<1>2. QED
  BY InvInit, InvNext, <1>1, PTL DEF Spec
=============================================================================
