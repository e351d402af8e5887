--------------------------- MODULE UserNetProofs ---------------------------
(***************************************************************************)
(* Proofs about UserNet: the types of the variables, and that connections  *)
(* and table entries always point at each other, for any set of servers,   *)
(* slots, nicks and links, any levels and any environment; and that the    *)
(* servers' tables agree, when every nick has one home.                    *)
(***************************************************************************)
EXTENDS UserNet, FiniteSetTheorems, SequenceTheorems, TLAPS

\* A known entry carries the data a LOGIN needs.
EntriesHaveHomes ==
  \A s \in Server, n \in Nick :
    Known(s, n) => users[s][n].home \in Server /\ users[s][n].ip \in Addr

\* The inductive invariant
IInv == TypeOK /\ EntriesHaveHomes /\ ConnectionsOwnEntries /\ EntriesHaveConnections

Chans == [Server -> [Server -> Seq(Message)]]

(* Lemmas on the operators of the model *)

\* pass_message() keeps every channel a sequence of messages.
LEMMA PassOnType ==
  ASSUME NEW ch \in Chans, NEW s \in Server, NEW except,
         NEW msgs \in Seq(Message)
  PROVE  PassOn(ch, s, except, msgs) \in Chans
<1> DEFINE row == [t \in Server |->
              IF t \in Servers(s) \ {except} /\ end[t][s] # "down"
              THEN ch[s][t] \o msgs ELSE ch[s][t]]
<1>1. ASSUME NEW t \in Server PROVE ch[s][t] \o msgs \in Seq(Message)
  BY <1>1, ConcatProperties DEF Chans
<1>2. row \in [Server -> Seq(Message)]
  BY <1>1 DEF Chans
<1> HIDE DEF row
<1>3. [ch EXCEPT ![s] = row] \in Chans
  BY <1>2 DEF Chans
<1> QED BY <1>3 DEF PassOn, row

\* Reading a message leaves typed channels and yields a typed message.
LEMMA ReceivedType ==
  ASSUME chan \in Chans, NEW s \in Server, NEW t \in Server, chan[t][s] # <<>>
  PROVE  /\ Received(t, s) \in Chans
         /\ Head(chan[t][s]) \in Message
<1>1. chan[t][s] \in Seq(Message)
  BY DEF Chans
<1>2. Head(chan[t][s]) \in Message /\ Tail(chan[t][s]) \in Seq(Message)
  BY <1>1, HeadTailProperties
<1> QED BY <1>2 DEF Received, Chans

\* The fields of a message that is read.
LEMMA MessageFields ==
  ASSUME NEW m \in Message
  PROVE  /\ m.type = "LOGIN" => /\ m.nick \in Nick /\ m.ts \in Nat
                                /\ m.home \in Server /\ m.ip \in Addr
         /\ m.type = "QUIT" => m.nick \in Nick
         /\ m.type = "KILL" => m.nick \in Nick /\ m.by \in Nick \cup Server
BY DEF Message

\* One message, or one after another, is a sequence of messages.
LEMMA MessageSeqs ==
  /\ \A m \in Message : <<m>> \in Seq(Message)
  /\ <<>> \in Seq(Message)
  /\ \A p, q \in Seq(Message) : p \o q \in Seq(Message)
<1>1. \A p, q \in Seq(Message) : p \o q \in Seq(Message)
  BY ConcatProperties
<1> QED BY <1>1

\* The enumerations of a set of nicks are sequences over it.
LEMMA OrdersType ==
  ASSUME NEW S \in SUBSET Nick, NEW q \in Orders(S)
  PROVE  /\ DOMAIN q = 1 .. Cardinality(S) /\ Cardinality(S) \in Nat
         /\ \A i \in DOMAIN q : q[i] \in S
<1>1. Cardinality(S) \in Nat
  BY FiniteNicks, FS_Subset, FS_CardinalityType
<1> QED BY <1>1 DEF Orders

\* A sync sends one typed LOGIN per entry, a split one typed QUIT.
LEMMA BatchTypes ==
  ASSUME TypeOK, EntriesHaveHomes, NEW s \in Server, NEW S \in SUBSET KnownAt(s),
         NEW q \in Orders(S)
  PROVE  /\ SyncMsgs(s, q) \in Seq(Message)
         /\ [i \in DOMAIN q |-> QuitMsg(q[i])] \in Seq(Message)
<1>1. \A i \in DOMAIN q : q[i] \in Nick /\ Known(s, q[i])
  BY OrdersType DEF KnownAt
<1>2. \A i \in DOMAIN q : QuitMsg(q[i]) \in Message
  BY <1>1 DEF QuitMsg, Message
<1>3. \A i \in DOMAIN q : LoginMsg(q[i], users[s][q[i]]) \in Message
  BY <1>1 DEF LoginMsg, Message, EntriesHaveHomes, TypeOK, Entry
<1>4. DOMAIN q = 1 .. Cardinality(S) /\ Cardinality(S) \in Nat
  BY OrdersType DEF KnownAt
<1> QED BY <1>2, <1>3, <1>4 DEF SyncMsgs

-----------------------------------------------------------------------------
(* The invariant is inductive: one lemma per action that changes users or conn *)

\* Nobody is logged in when the servers start: every table is empty.
LEMMA InitIInv == Init => IInv
<1> SUFFICES ASSUME Init PROVE IInv
  OBVIOUS
<1>1. TypeOK
  BY MessageSeqs DEF Init, TypeOK, Entry, Absent, Connection, Free
<1>2. \A s \in Server, n \in Nick : users[s][n].con = None
  BY DEF Init, Absent
<1>3. \A s \in Server, c \in Conn : conn[s][c].class = "free"
  BY DEF Init, Free
<1> QED BY <1>1, <1>2, <1>3, DisjointNames
         DEF IInv, EntriesHaveHomes, ConnectionsOwnEntries, EntriesHaveConnections, Known

\* Actions that leave users and conn alone and remove no link.
LEMMA FrameIInv ==
  ASSUME IInv, TypeOK', UNCHANGED <<users, conn>>,
         \A s, t \in Server : t \in Servers(s) => t \in Servers(s)'
  PROVE  IInv'
BY DEF IInv, TypeOK, EntriesHaveHomes, ConnectionsOwnEntries,
       EntriesHaveConnections, Known

\* What a login, local or relayed, does to the table.
LEMMA LoginIInv ==
  ASSUME IInv, NEW s \in Server, NEW c \in Conn, NEW n \in Nick, NEW ip \in Addr,
         Login(s, c, n, ip)
  PROVE  IInv'
<1> DEFINE old   == users[s][n]
           new   == [con |-> c, ts |-> now, home |-> s, ip |-> ip]
           ghost == IF Known(s, n) THEN <<KillMsg(s, n)>> ELSE <<>>
           mine  == [class |-> "user", nick |-> n, destroy |-> FALSE, killed |-> FALSE]
<1>1. /\ users' = [users EXCEPT ![s][n] = new]
      /\ conn' = [conn EXCEPT ![s] = [Zap(s, old) EXCEPT ![c] = mine]]
      /\ chan' = PassOn(chan, s, None, ghost \o <<LoginMsg(n, new)>>)
      /\ now' \in Nat /\ logins' \in Nat
      /\ UNCHANGED <<end, phase, kills, links>>
      /\ conn[s][c] = Free
  BY DEF Login, IInv, TypeOK
<1>2. new \in Entry
  BY DEF Entry, IInv, TypeOK
<1>3. Zap(s, old) \in [Conn -> Connection] /\ mine \in Connection
  BY DEF Zap, Zapped, Connection, IInv, TypeOK
<1>4. chan' \in Chans
  <2>1. LoginMsg(n, new) \in Message /\ KillMsg(s, n) \in Message
    BY DEF LoginMsg, KillMsg, Message, IInv, TypeOK
  <2>2. ghost \o <<LoginMsg(n, new)>> \in Seq(Message)
    BY <2>1, MessageSeqs
  <2>3. chan \in Chans
    BY DEF Chans, IInv, TypeOK
  <2> QED BY <1>1, <2>2, <2>3, PassOnType
<1> HIDE DEF new, mine
<1>5. TypeOK'
  BY <1>1, <1>2, <1>3, <1>4 DEF IInv, TypeOK, Chans
<1>6. /\ new.con = c /\ new.home = s /\ new.ip = ip
      /\ mine.class = "user" /\ mine.nick = n
  BY DEF new, mine
<1>7. EntriesHaveHomes'
  BY <1>1, <1>6 DEF EntriesHaveHomes, Known, IInv, TypeOK
<1>8. \A d \in Conn : conn'[s][d] = IF d = c THEN mine
                        ELSE IF d = old.con THEN Zapped ELSE conn[s][d]
  <2>1. conn'[s] = [Zap(s, old) EXCEPT ![c] = mine]
    BY <1>1 DEF IInv, TypeOK
  <2>2. \A d \in Conn : Zap(s, old)[d] = IF d = old.con THEN Zapped ELSE conn[s][d]
    BY DEF Zap, IInv, TypeOK
  <2> QED BY <1>3, <2>1, <2>2
<1>9. \A r \in Server \ {s} : conn'[r] = conn[r] /\ users'[r] = users[r]
  BY <1>1 DEF IInv, TypeOK
<1>10. \A m \in Nick : users'[s][m] = IF m = n THEN new ELSE users[s][m]
  BY <1>1 DEF IInv, TypeOK
<1>11. Zapped.class = "unknown" /\ conn[s][c].class = "free"
  BY <1>1 DEF Zapped, Free
<1>12. ConnectionsOwnEntries'
  BY <1>6, <1>8, <1>9, <1>10, <1>11 DEF ConnectionsOwnEntries, IInv
<1>13. EntriesHaveConnections'
  BY <1>1, <1>6, <1>8, <1>9, <1>10, <1>11, DisjointNames
     DEF EntriesHaveConnections, Servers, IInv
<1> QED BY <1>5, <1>7, <1>12, <1>13 DEF IInv

\* A LOGIN read from a link, refused, new or displacing the entry it collides with
\* (login() from a server), keeps tables and connections matched.
LEMMA RecvLoginIInv ==
  ASSUME IInv, NEW s \in Server, NEW t \in Server, RecvLogin(s, t)
  PROVE  IInv'
<1> DEFINE m     == Head(chan[t][s])
           n     == m.nick
           old   == users[s][n]
           new   == [con |-> t, ts |-> m.ts, home |-> m.home, ip |-> m.ip]
           clash == IF Known(s, n) THEN <<KillMsg(s, n)>> ELSE <<>>
<1>0. chan \in Chans /\ chan[t][s] # <<>>
  BY DEF Chans, IInv, TypeOK, RecvLogin, Deliver
<1>1. Received(t, s) \in Chans /\ m \in Message
  BY <1>0, ReceivedType
<1>2. n \in Nick /\ m.ts \in Nat /\ m.home \in Server /\ m.ip \in Addr
  BY <1>1, MessageFields DEF RecvLogin, Deliver
<1>3. t \in Servers(s) /\ UNCHANGED <<end, phase, now, logins, kills, links>>
  BY DEF RecvLogin, Deliver, Servers
<1>4. CASE UNCHANGED <<users, conn>> /\ chan' = Received(t, s)
  <2>1. TypeOK'
    BY <1>1, <1>3, <1>4 DEF IInv, TypeOK, Chans
  <2> QED BY <2>1, <1>3, <1>4, FrameIInv DEF Servers
<1>5. CASE /\ users' = [users EXCEPT ![s][n] = new]
           /\ conn' = [conn EXCEPT ![s] = Zap(s, old)]
           /\ chan' = PassOn(Received(t, s), s, t, clash \o <<LoginMsg(n, new)>>)
  <2>1. new \in Entry
    BY <1>2 DEF Entry
  <2>2. Zap(s, old) \in [Conn -> Connection]
    BY DEF Zap, Zapped, Connection, IInv, TypeOK
  <2>3. chan' \in Chans
    <3>1. LoginMsg(n, new) \in Message /\ KillMsg(s, n) \in Message
      BY <1>2 DEF LoginMsg, KillMsg, Message
    <3>2. clash \o <<LoginMsg(n, new)>> \in Seq(Message)
      BY <3>1, MessageSeqs
    <3> QED BY <1>1, <1>5, <3>2, PassOnType
  <2>4. new.con = t /\ new.home \in Server /\ new.ip \in Addr
    BY <1>2
  <2> HIDE DEF new, m
  <2>5. TypeOK'
    BY <1>2, <1>3, <1>5, <2>1, <2>2, <2>3 DEF IInv, TypeOK, Chans
  <2>6. \A d \in Conn : conn'[s][d] = IF d = old.con THEN Zapped ELSE conn[s][d]
    BY <1>5, <2>2 DEF Zap, IInv, TypeOK
  <2>7. \A r \in Server \ {s} : conn'[r] = conn[r] /\ users'[r] = users[r]
    BY <1>5 DEF IInv, TypeOK
  <2>8. \A k \in Nick : users'[s][k] = IF k = n THEN new ELSE users[s][k]
    BY <1>2, <1>5 DEF IInv, TypeOK
  <2>9. Zapped.class = "unknown"
    BY DEF Zapped
  <2>10. EntriesHaveHomes'
    BY <2>4, <2>7, <2>8 DEF EntriesHaveHomes, Known, IInv
  <2>11. ConnectionsOwnEntries'
    <3>1. \A d \in Conn : conn'[s][d].class = "user" =>
            d # old.con /\ conn'[s][d] = conn[s][d]
      BY <2>6, <2>9
    <3>2. \A d \in Conn : conn'[s][d].class = "user" =>
            /\ conn[s][d].nick \in Nick \ {n}
            /\ users[s][conn[s][d].nick].con = d
      BY <3>1 DEF ConnectionsOwnEntries, IInv
    <3>3. \A d \in Conn : conn'[s][d].class = "user" =>
            /\ conn'[s][d].nick \in Nick
            /\ users'[s][conn'[s][d].nick].con = d
      BY <2>8, <3>1, <3>2
    <3> QED BY <2>7, <3>3 DEF ConnectionsOwnEntries, IInv
  <2>12. \A k \in Nick \ {n} : users[s][k].con \in Conn => users[s][k].con # old.con
    BY <1>2 DEF EntriesHaveConnections, IInv
  <2>13. EntriesHaveConnections'
    <3>1. \A k \in Nick : LET c == users'[s][k].con IN
            /\ c \in Conn => /\ conn'[s][c].class = "user" /\ conn'[s][c].nick = k
                            /\ users'[s][k].home = s
            /\ c \in Server => c \in Servers(s)'
      <4>1. \A k \in Nick \ {n} : users'[s][k] = users[s][k]
        BY <2>8
      <4>2. \A k \in Nick \ {n} : users[s][k].con \in Conn =>
              conn'[s][users[s][k].con] = conn[s][users[s][k].con]
        BY <2>6, <2>12
      <4>3. users'[s][n].con = t /\ t \notin Conn
        BY <1>2, <2>4, <2>8, DisjointNames
      <4>4. Servers(s)' = Servers(s)
        BY <1>3 DEF Servers
      <4> QED BY <1>3, <4>1, <4>2, <4>3, <4>4 DEF EntriesHaveConnections, IInv
    <3>2. \A r \in Server : Servers(r)' = Servers(r)
      BY <1>3 DEF Servers
    <3> QED BY <2>7, <3>1, <3>2 DEF EntriesHaveConnections, IInv
  <2> QED BY <2>5, <2>10, <2>11, <2>13 DEF IInv
<1> QED BY <1>4, <1>5 DEF RecvLogin

\* Forgetting a remote entry, or all those of a set of them.
LEMMA ForgetIInv ==
  ASSUME IInv, TypeOK', NEW s \in Server, NEW S \in SUBSET Nick,
         \A n \in S : users[s][n].con \notin Conn,
         users' = [users EXCEPT ![s] = [n \in Nick |->
                     IF n \in S THEN Absent ELSE users[s][n]]],
         UNCHANGED conn,
         \A r \in Server, n \in Nick : users'[r][n].con \in Servers(r)
                                    => users'[r][n].con \in Servers(r)'
  PROVE  IInv'
<1>1. \A r \in Server, n \in Nick :
        users'[r][n] = IF r = s /\ n \in S THEN Absent ELSE users[r][n]
  BY DEF IInv, TypeOK
<1>2. Absent.con = None
  BY DEF Absent
<1>3. EntriesHaveHomes'
  BY <1>1, <1>2 DEF EntriesHaveHomes, Known, IInv
<1>4. ConnectionsOwnEntries'
  BY <1>1, <1>2 DEF ConnectionsOwnEntries, IInv
<1>5. EntriesHaveConnections'
  BY <1>1, <1>2, DisjointNames DEF EntriesHaveConnections, IInv
<1> QED BY <1>3, <1>4, <1>5 DEF IInv

\* Marking a connection keeps its class and its nick.
LEMMA MarkedIInv ==
  ASSUME IInv, TypeOK', NEW s \in Server, NEW c \in Conn, NEW k \in Connection,
         conn' = [conn EXCEPT ![s][c] = k],
         k.class = conn[s][c].class, k.nick = conn[s][c].nick,
         UNCHANGED <<users, end>>
  PROVE  IInv'
<1>1. \A r \in Server, d \in Conn : /\ conn'[r][d].class = conn[r][d].class
                                   /\ conn'[r][d].nick = conn[r][d].nick
  BY DEF IInv, TypeOK
<1> QED BY <1>1 DEF IInv, EntriesHaveHomes, Known, ConnectionsOwnEntries,
                    EntriesHaveConnections, Servers

\* kill_user() marks the connection of a local user and keeps its entry until it is
\* reaped; a remote entry it frees at once.
LEMMA KillEntryIInv ==
  ASSUME IInv, NEW s \in Server, NEW n \in Nick, KillEntry(s, n),
         chan' \in Chans, {kills', logins', now', links'} \subseteq Nat,
         UNCHANGED <<end, phase>>
  PROVE  IInv'
<1>1. CASE ~Local(s, n)
  <2>1. users' = [users EXCEPT ![s][n] = Absent] /\ UNCHANGED conn
    BY <1>1 DEF KillEntry
  <2>2. users' = [users EXCEPT ![s] = [k \in Nick |->
                    IF k \in {n} THEN Absent ELSE users[s][k]]]
    BY <2>1 DEF IInv, TypeOK
  <2>3. TypeOK'
    BY <2>1 DEF IInv, TypeOK, Chans, Entry, Absent
  <2>4. \A r \in Server : Servers(r)' = Servers(r)
    BY DEF Servers
  <2>5. \A k \in {n} : users[s][k].con \notin Conn
    BY <1>1 DEF Local
  <2>6. {n} \in SUBSET Nick
    OBVIOUS
  <2> QED BY <2>1, <2>2, <2>3, <2>4, <2>5, <2>6, ForgetIInv
<1>2. CASE Local(s, n)
  <2> DEFINE c == users[s][n].con
             k == [conn[s][c] EXCEPT !.destroy = TRUE, !.killed = TRUE]
  <2>1. conn' = [conn EXCEPT ![s][c] = k] /\ UNCHANGED users /\ c \in Conn
    BY <1>2 DEF KillEntry, Local
  <2>2. conn[s][c] \in Connection
    BY <2>1 DEF IInv, TypeOK
  <2>3. k \in Connection /\ k.class = conn[s][c].class /\ k.nick = conn[s][c].nick
    BY <2>2 DEF Connection
  <2> HIDE DEF k
  <2>4. TypeOK'
    BY <2>1, <2>3 DEF IInv, TypeOK, Chans
  <2> QED BY <2>1, <2>3, <2>4, MarkedIInv
<1> QED BY <1>1, <1>2

\* kill_user() run for a local user.
LEMMA KillIInv ==
  ASSUME IInv, NEW s \in Server, NEW c \in Conn, NEW n \in Nick, Kill(s, c, n)
  PROVE  IInv'
<1>1. KillMsg(conn[s][c].nick, n) \in Message
  BY DEF Kill, KillMsg, Message, IInv, ConnectionsOwnEntries
<1>2. chan \in Chans
  BY DEF Chans, IInv, TypeOK
<1>3. chan' \in Chans
  BY <1>1, <1>2, MessageSeqs, PassOnType DEF Kill
<1>4. {kills', logins', now', links'} \subseteq Nat
  BY DEF Kill, IInv, TypeOK
<1>5. KillEntry(s, n) /\ UNCHANGED <<end, phase>>
  BY DEF Kill
<1> QED BY <1>3, <1>4, <1>5, KillEntryIInv

\* kill_user() run for a KILL read from a link, obeyed or ignored.
LEMMA RecvKillIInv ==
  ASSUME IInv, NEW s \in Server, NEW t \in Server, RecvKill(s, t)
  PROVE  IInv'
<1> DEFINE m == Head(chan[t][s])
<1>0. chan \in Chans /\ chan[t][s] # <<>>
  BY DEF Chans, IInv, TypeOK, RecvKill, Deliver
<1>1. Received(t, s) \in Chans /\ m \in Message
  BY <1>0, ReceivedType
<1>2. m.nick \in Nick
  BY <1>1, MessageFields DEF RecvKill, Deliver
<1>3. UNCHANGED <<end, phase, now, logins, kills, links>>
  BY DEF RecvKill
<1>4. CASE KillEntry(s, m.nick) /\ chan' = PassOn(Received(t, s), s, t, <<m>>)
  <2>1. chan' \in Chans
    BY <1>1, <1>4, MessageSeqs, PassOnType
  <2> QED BY <1>2, <1>3, <1>4, <2>1, KillEntryIInv DEF IInv, TypeOK
<1>5. CASE chan' = Received(t, s) /\ UNCHANGED <<users, conn>>
  <2>1. TypeOK'
    BY <1>1, <1>3, <1>5 DEF IInv, TypeOK, Chans
  <2> QED BY <1>3, <1>5, <2>1, FrameIInv DEF Servers
<1> QED BY <1>4, <1>5 DEF RecvKill

\* client_quit() frees remote entries only.
LEMMA RecvQuitIInv ==
  ASSUME IInv, NEW s \in Server, NEW t \in Server, RecvQuit(s, t)
  PROVE  IInv'
<1> DEFINE m == Head(chan[t][s])
           n == m.nick
<1>0. chan \in Chans /\ chan[t][s] # <<>>
  BY DEF Chans, IInv, TypeOK, RecvQuit, Deliver
<1>1. Received(t, s) \in Chans /\ m \in Message
  BY <1>0, ReceivedType
<1>2. n \in Nick /\ QuitMsg(n) \in Message
  BY <1>1, MessageFields DEF RecvQuit, Deliver, QuitMsg, Message
<1>3. UNCHANGED <<conn, end, phase, now, logins, kills, links>>
  BY DEF RecvQuit
<1>4. CASE /\ ~Local(s, n)
           /\ users' = [users EXCEPT ![s][n] = Absent]
           /\ chan' = PassOn(Received(t, s), s, t, <<QuitMsg(n)>>)
  <2>1. chan' \in Chans
    BY <1>1, <1>2, <1>4, MessageSeqs, PassOnType
  <2>2. users' = [users EXCEPT ![s] = [k \in Nick |->
                    IF k \in {n} THEN Absent ELSE users[s][k]]]
    BY <1>4, <1>2 DEF IInv, TypeOK
  <2>3. TypeOK'
    BY <1>3, <1>4, <1>2, <2>1 DEF IInv, TypeOK, Chans, Entry, Absent
  <2>4. \A r \in Server : Servers(r)' = Servers(r)
    BY <1>3 DEF Servers
  <2>5. \A k \in {n} : users[s][k].con \notin Conn
    BY <1>4 DEF Local
  <2>6. {n} \in SUBSET Nick
    BY <1>2
  <2> QED BY <1>3, <2>2, <2>3, <2>4, <2>5, <2>6, ForgetIInv
<1>5. CASE chan' = Received(t, s) /\ UNCHANGED users
  <2>1. TypeOK'
    BY <1>1, <1>3, <1>5 DEF IInv, TypeOK, Chans
  <2> QED BY <1>3, <1>5, <2>1, FrameIInv DEF Servers
<1> QED BY <1>4, <1>5 DEF RecvQuit

\* A stream that ends only marks its connection (handle_connection()).
LEMMA DisconnectIInv ==
  ASSUME IInv, NEW s \in Server, NEW c \in Conn, Disconnect(s, c)
  PROVE  IInv'
<1> DEFINE k == [conn[s][c] EXCEPT !.destroy = TRUE]
<1>1. conn' = [conn EXCEPT ![s][c] = k]
      /\ UNCHANGED <<users, end, chan, phase, now, logins, kills, links>>
  BY DEF Disconnect
<1>2. conn[s][c] \in Connection
  BY DEF IInv, TypeOK
<1>3. k \in Connection /\ k.class = conn[s][c].class /\ k.nick = conn[s][c].nick
  BY <1>2 DEF Connection
<1> HIDE DEF k
<1>4. TypeOK'
  BY <1>1, <1>3 DEF IInv, TypeOK
<1> QED BY <1>1, <1>3, <1>4, MarkedIInv

\* remove_connection() of a user frees the connection together with its entry;
\* of a zapped connection, the connection alone.
LEMMA ReapUserIInv ==
  ASSUME IInv, NEW s \in Server, NEW c \in Conn, ReapUser(s, c)
  PROVE  IInv'
<1> DEFINE k == conn[s][c]
<1>1. /\ conn' = [conn EXCEPT ![s][c] = Free] /\ phase' \in [Server -> {"read", "reap"}]
      /\ UNCHANGED <<end, now, logins, kills, links>>
  BY DEF ReapUser, Removable, LoopPhase, IInv, TypeOK
<1>2. chan' \in Chans
  <2>1. chan \in Chans
    BY DEF Chans, IInv, TypeOK
  <2>2. CASE SaysQuit(k)
    <3>1. QuitMsg(k.nick) \in Message
      BY <2>2 DEF SaysQuit, QuitMsg, Message, IInv, ConnectionsOwnEntries
    <3> QED BY <2>1, <2>2, <3>1, MessageSeqs, PassOnType DEF ReapUser
  <2> QED BY <2>1, <2>2 DEF ReapUser
<1>3. \A r \in Server, d \in Conn : conn'[r][d] = IF r = s /\ d = c THEN Free ELSE conn[r][d]
  BY <1>1 DEF IInv, TypeOK
<1>4. Free \in Connection /\ Free.class = "free"
  BY DEF Free, Connection
<1>5. \A r \in Server : Servers(r)' = Servers(r)
  BY <1>1 DEF Servers
<1>6. CASE k.class = "user"
  <2>1. k.nick \in Nick /\ users[s][k.nick].con = c
    BY <1>6 DEF IInv, ConnectionsOwnEntries
  <2>2. users' = [users EXCEPT ![s][k.nick] = Absent]
    BY <1>6 DEF ReapUser
  <2>3. Absent \in Entry /\ Absent.con = None
    BY DEF Absent, Entry
  <2>4. \A r \in Server, n \in Nick :
          users'[r][n] = IF r = s /\ n = k.nick THEN Absent ELSE users[r][n]
    BY <2>1, <2>2 DEF IInv, TypeOK
  <2>5. TypeOK'
    BY <1>1, <1>2, <1>4, <2>2, <2>3 DEF IInv, TypeOK, Chans
  <2>6. EntriesHaveHomes'
    BY <2>3, <2>4 DEF IInv, EntriesHaveHomes, Known
  <2>7. ConnectionsOwnEntries'
    BY <1>3, <1>4, <2>1, <2>3, <2>4 DEF IInv, ConnectionsOwnEntries
  <2>8. EntriesHaveConnections'
    BY <1>3, <1>4, <1>5, <2>1, <2>3, <2>4, DisjointNames
       DEF IInv, EntriesHaveConnections
  <2> QED BY <2>5, <2>6, <2>7, <2>8 DEF IInv
<1>7. CASE k.class # "user"
  <2>1. UNCHANGED users
    BY <1>7 DEF ReapUser
  <2>2. TypeOK'
    BY <1>1, <1>2, <1>4, <2>1 DEF IInv, TypeOK, Chans
  <2> QED BY <1>3, <1>4, <1>5, <1>7, <2>1, <2>2
          DEF IInv, EntriesHaveHomes, Known, ConnectionsOwnEntries, EntriesHaveConnections
<1> QED BY <1>6, <1>7

\* remove_connection() of a server frees every entry behind the link it removes.
LEMMA ReapLinkIInv ==
  ASSUME IInv, NEW s \in Server, NEW t \in Server, ReapLink(s, t)
  PROVE  IInv'
<1> DEFINE gone == Behind(s, t)
<1>1. /\ end' = [end EXCEPT ![s][t] = "down"]
      /\ users' = [users EXCEPT ![s] = [n \in Nick |->
                     IF n \in gone THEN Absent ELSE users[s][n]]]
      /\ phase' \in [Server -> {"read", "reap"}]
      /\ UNCHANGED <<conn, now, logins, kills, links>>
  BY DEF ReapLink, LoopPhase, IInv, TypeOK
<1>2. gone \in SUBSET KnownAt(s) /\ gone \in SUBSET Nick
  BY DisjointNames DEF Behind, KnownAt, Known
<1>3. chan' \in Chans
  <2> DEFINE eof     == IF end[t][s] = "down" THEN <<>> ELSE <<Eof>>
             ch(q)   == PassOn(chan, s, t, [i \in DOMAIN q |-> QuitMsg(q[i])])
             out(q)  == [ch(q) EXCEPT ![t][s] = <<>>]
  <2>1. PICK q \in Orders(gone) : chan' = [out(q) EXCEPT ![s][t] = @ \o eof]
    BY DEF ReapLink
  <2>2. chan \in Chans
    BY DEF Chans, IInv, TypeOK
  <2>3. [i \in DOMAIN q |-> QuitMsg(q[i])] \in Seq(Message)
    BY <1>2, BatchTypes DEF IInv
  <2>4. ch(q) \in Chans
    BY <2>2, <2>3, PassOnType
  <2>5. eof \in Seq(Message)
    BY MessageSeqs DEF Eof, Message
  <2> HIDE DEF ch, eof
  <2>6. out(q) \in Chans
    BY <2>4, MessageSeqs DEF Chans
  <2> HIDE DEF out
  <2>7. out(q)[s][t] \o eof \in Seq(Message)
    BY <2>5, <2>6, MessageSeqs DEF Chans
  <2> QED BY <2>1, <2>6, <2>7 DEF Chans
<1>4. TypeOK'
  <2>1. Absent \in Entry
    BY DEF Absent, Entry
  <2>2. users' \in [Server -> [Nick -> Entry]]
    BY <1>1, <2>1 DEF IInv, TypeOK
  <2> QED BY <1>1, <1>3, <2>2 DEF IInv, TypeOK, Chans
<1>5. \A n \in gone : users[s][n].con \notin Conn
  BY DisjointNames DEF Behind
<1>6. \A r \in Server, n \in Nick :
        users'[r][n].con \in Servers(r) => users'[r][n].con \in Servers(r)'
  <2>1. \A n \in Nick : users'[s][n].con # t
    BY <1>1, DisjointNames DEF Behind, Absent, IInv, TypeOK
  <2>2. \A u \in Servers(s) : u # t => u \in Servers(s)'
    BY <1>1 DEF Servers, IInv, TypeOK
  <2>3. \A r \in Server \ {s} : Servers(r)' = Servers(r)
    BY <1>1 DEF Servers, IInv, TypeOK
  <2> QED BY <2>1, <2>2, <2>3
<1> QED BY <1>1, <1>2, <1>4, <1>5, <1>6, ForgetIInv

\* Setting up a link queues a typed sync of the whole table (synch_server()).
LEMMA LinkTypes ==
  ASSUME IInv, NEW s \in Server, NEW t \in Server,
         Link(s, t) \/ RecvAck(s, t) \/ LinkFails(s, t) \/ RecvEof(s, t)
  PROVE  /\ TypeOK'
         /\ \A r, u \in Server : u \in Servers(r) => u \in Servers(r)'
         /\ UNCHANGED <<users, conn>>
<1>0. chan \in Chans /\ KnownAt(s) \in SUBSET KnownAt(s)
  BY DEF Chans, IInv, TypeOK
<1>1. Ack \in Message
  BY DEF Ack, Message
<1>2. CASE Link(s, t)
  <2>1. PICK q \in Orders(KnownAt(s)) : Open(s, t, SyncMsgs(s, q))
    BY <1>2 DEF Link
  <2>2. <<Ack>> \o SyncMsgs(s, q) \in Seq(Message)
    BY <1>0, <1>1, BatchTypes, MessageSeqs DEF IInv
  <2>3. chan' \in Chans
    BY <1>0, <2>1, <2>2 DEF Chans, Open
  <2>4. /\ end' = [end EXCEPT ![s][t] = "up", ![t][s] = "pending"]
        /\ end[s][t] = "down" /\ end[t][s] = "down"
        /\ UNCHANGED <<users, conn, phase, now, logins, kills>> /\ links' \in Nat
    BY <2>1 DEF Open, IInv, TypeOK
  <2>5. end' \in [Server -> [Server -> {"down", "pending", "up", "dying"}]]
    BY <2>4 DEF IInv, TypeOK
  <2>6. TypeOK'
    BY <2>3, <2>4, <2>5 DEF IInv, TypeOK, Chans
  <2>7. \A r, u \in Server : end[r][u] # "down" => end'[r][u] = end[r][u]
    BY <2>4 DEF IInv, TypeOK
  <2> QED BY <2>4, <2>6, <2>7 DEF Servers
<1>3. CASE RecvAck(s, t)
  <2>1. PICK q \in Orders(KnownAt(s)) : Acknowledge(s, t, SyncMsgs(s, q))
    BY <1>3 DEF RecvAck
  <2>2. Received(t, s) \in Chans
    BY <1>0, <2>1, ReceivedType DEF Acknowledge
  <2>3. SyncMsgs(s, q) \in Seq(Message)
    BY <1>0, BatchTypes DEF IInv
  <2>4. Received(t, s)[s][t] \o SyncMsgs(s, q) \in Seq(Message)
    BY <2>2, <2>3, MessageSeqs DEF Chans
  <2>5. chan' \in Chans
    BY <2>1, <2>2, <2>4 DEF Chans, Acknowledge
  <2>6. /\ end' = [end EXCEPT ![s][t] = "up"]
        /\ UNCHANGED <<users, conn, phase, now, logins, kills, links>>
    BY <2>1 DEF Acknowledge
  <2>7. TypeOK'
    BY <2>5, <2>6 DEF IInv, TypeOK, Chans
  <2> QED BY <2>6, <2>7 DEF Servers, IInv, TypeOK
<1>4. CASE LinkFails(s, t)
  BY <1>4 DEF LinkFails, Servers, IInv, TypeOK
<1>5. CASE RecvEof(s, t)
  <2>1. Received(t, s) \in Chans
    BY <1>0, <1>5, ReceivedType DEF RecvEof, Deliver
  <2>2. /\ end' = [end EXCEPT ![s][t] = "dying"] /\ end[s][t] = "up"
        /\ chan' = Received(t, s)
        /\ UNCHANGED <<users, conn, phase, now, logins, kills, links>>
    BY <1>5 DEF RecvEof, Deliver
  <2>3. TypeOK'
    BY <2>1, <2>2 DEF IInv, TypeOK, Chans
  <2> QED BY <2>2, <2>3 DEF Servers, IInv, TypeOK
<1> QED BY <1>2, <1>3, <1>4, <1>5

\* Every step of every server keeps the inductive invariant.
LEMMA NextIInv == IInv /\ [Next]_vars => IInv'
<1> SUFFICES ASSUME IInv, [Next]_vars PROVE IInv'
  OBVIOUS
<1>1. CASE Tick \/ \E s \in Server : EndRead(s)
  <2>1. CASE Tick
    BY <2>1, FrameIInv DEF Tick, Servers, IInv, TypeOK
  <2>2. ASSUME NEW s \in Server, EndRead(s) PROVE IInv'
    BY <2>2, FrameIInv DEF EndRead, Servers, IInv, TypeOK
  <2> QED BY <1>1, <2>1, <2>2
<1>2. ASSUME NEW s \in Server, ClientStep(s) PROVE IInv'
  BY <1>2, LoginIInv, DisconnectIInv, KillIInv DEF ClientStep
<1>3. ASSUME NEW s \in Server, LinkStep(s) PROVE IInv'
  BY <1>3, LinkTypes, FrameIInv DEF LinkStep
<1>4. ASSUME NEW s \in Server, NEW t \in Server, Receive(s, t) PROVE IInv'
  BY <1>4, RecvLoginIInv, RecvQuitIInv, RecvKillIInv, LinkTypes, FrameIInv DEF Receive
<1>5. ASSUME NEW s \in Server, Reap(s) PROVE IInv'
  BY <1>5, ReapUserIInv, ReapLinkIInv DEF Reap
<1>6. CASE UNCHANGED vars
  <2>1. TypeOK' /\ UNCHANGED <<users, conn, end>>
    BY <1>6 DEF vars, IInv, TypeOK
  <2> QED BY <2>1, FrameIInv DEF Servers
<1> QED BY <1>1, <1>2, <1>3, <1>4, <1>5, <1>6 DEF Next

-----------------------------------------------------------------------------
(* Results *)

\* Types: every variable of the model always has its type, whatever clients,
\* kills, messages and link failures do (the handlers of login.c, kill_user.c,
\* client_quit.c, server_login.c and remove_connection.c).
THEOREM TypeCorrect == Spec => []TypeOK
<1>1. Spec => []IInv
  BY InitIInv, NextIInv, PTL DEF Spec
<1>2. IInv => TypeOK
  BY DEF IInv
<1> QED BY <1>1, <1>2, PTL

\* remove_user() always finds and frees its own USER: every logged-in
\* connection is the one its nick's table entry points at.
THEOREM OwnedEntries == Spec => []ConnectionsOwnEntries
<1>1. Spec => []IInv
  BY InitIInv, NextIInv, PTL DEF Spec
<1>2. IInv => ConnectionsOwnEntries
  BY DEF IInv
<1> QED BY <1>1, <1>2, PTL

\* user->con never dangles: an entry points at a connection logged in as that
\* nick, or at a link that has not been removed.
THEOREM NoDanglingEntries == Spec => []EntriesHaveConnections
<1>1. Spec => []IInv
  BY InitIInv, NextIInv, PTL DEF Spec
<1>2. IInv => EntriesHaveConnections
  BY DEF IInv
<1> QED BY <1>1, <1>2, PTL

-----------------------------------------------------------------------------
(* What the servers know and what is under way                             *)
(*                                                                         *)
(* The links have no cycles, so news of a nick with one home crosses every *)
(* link one way: t tells s of the nicks Carried(t, s).  The messages from  *)
(* t to s are a history of these nicks that leads from what s knows to     *)
(* what t knows.  A server that changes what it knows adds the change to   *)
(* the histories it writes; one that reads takes it off the one it reads.  *)

\* Every nick has one home server.
OneHome == \A n \in Nick : \E h \in Server : Home[n] \subseteq {h}

\* The environment of the results below: every nick has one home server, and kills,
\* if there are any, are of users at the killer's own server, with links set up
\* only once the users killed at their ends are gone (see CalmLinks).
Settled ==
  /\ OneHome
  /\ \/ MaxKills = 0
     \/ CalmLinks /\ \A m, n \in Nick : MayKill(m, n) => Home[m] = Home[n]

\* The home of a nick, and the way towards it from every server.
Sole(H)   == CHOOSE h \in Server : H \subseteq {h}
Toward(h) == CHOOSE next \in [Server -> Server] : LeadsTo(next, h)
HomeOf(n) == Sole(Home[n])
Homeward  == [n \in Nick |-> Toward(HomeOf(n))]

\* the nicks that s hears of from t
Carried(t, s) == {n \in Nick : t \in Edge[s] /\ Homeward[n][s] = t}

\* News of a nick crosses each link one way and comes to every server from one side.
OneWay ==
  /\ \A s, t \in Server : t \in Edge[s] => s \in Edge[t] /\ s # t
  /\ \A s, t \in Server : \A n \in Carried(t, s) : n \notin Carried(s, t)
  /\ \A s \in Server, n \in Nick : \A t \in Edge[s] : n \in Carried(t, s) \cup Carried(s, t)
  /\ \A s, t \in Server : \A n \in Carried(t, s), u \in Edge[s] \ {t} : n \in Carried(s, u)
  /\ \A n \in Nick : \A s \in Home[n] : \A u \in Edge[s] :
       n \in Carried(s, u) /\ n \notin Carried(u, s)
  /\ \A m, n \in Nick : Home[m] = Home[n] =>
       \A s, t \in Server : m \in Carried(t, s) <=> n \in Carried(t, s)

LEMMA Carrying == ASSUME OneHome PROVE OneWay
<1>1. \A n \in Nick : LeadsTo(Homeward[n], HomeOf(n)) /\ HomeOf(n) \in Server /\ Home[n] \subseteq {HomeOf(n)}
  <2> TAKE n \in Nick
  <2>1. HomeOf(n) \in Server /\ Home[n] \subseteq {HomeOf(n)}
    BY DEF OneHome, HomeOf, Sole
  <2>2. Homeward[n] = CHOOSE next \in [Server -> Server] : LeadsTo(next, HomeOf(n))
    BY DEF Homeward, Toward
  <2>3. LeadsTo(Homeward[n], HomeOf(n))
    BY <2>1, <2>2, NoCycles
  <2> QED BY <2>1, <2>3
<1>2. \A s, t \in Server : t \in Edge[s] => s \in Edge[t] /\ s # t
  <2> SUFFICES ASSUME NEW s \in Server, NEW t \in Server, t \in Edge[s] PROVE s \in Edge[t] /\ s # t
    OBVIOUS
  <2>1. PICK next : LeadsTo(next, s)
    BY NoCycles
  <2> QED BY <2>1, NoCycles DEF LeadsTo
<1>3. \A s \in Server : Edge[s] \subseteq Server
  BY Environment
<1>4. \A m, n \in Nick : Home[m] = Home[n] => Homeward[m] = Homeward[n]
  BY DEF Homeward, HomeOf
<1>5. \A s, t \in Server, n \in Nick : n \in Carried(t, s) <=> t \in Edge[s] /\ Homeward[n][s] = t
  BY DEF Carried
<1>6. \A s, t \in Server, n \in Nick :
        t \in Edge[s] => (Homeward[n][s] = t) # (Homeward[n][t] = s)
  BY <1>1 DEF LeadsTo
<1>7. \A n \in Nick : \A s \in Home[n] : s \in Server /\ Homeward[n][s] \notin Edge[s]
  BY <1>1 DEF LeadsTo
<1>8. \A s, t \in Server : Carried(t, s) \subseteq Nick
  BY DEF Carried
<1> HIDE DEF Carried, Homeward
<1> QED BY <1>2, <1>3, <1>4, <1>5, <1>6, <1>7, <1>8 DEF OneWay

-----------------------------------------------------------------------------
\* What servers tell each other of a nick: a session, or that there is none.
Session(e) == [ts |-> e.ts, home |-> e.home]
Gone == [ts |-> 0, home |-> None]

\* The messages that begin and end a session of n.
Begins(m, n) == m.type = "LOGIN" /\ m.nick = n
Ends(m, n)   == m.type \in {"QUIT", "KILL"} /\ m.nick = n

\* Reading m takes what is known of nick n from x[n] to y[n]: a LOGIN begins a
\* session where there was none (or repeats it), a QUIT or a KILL ends it, and a
\* KILL is obeyed because its sender is known.
TakesTo(N, m, n, x, y) ==
  /\ Begins(m, n) => x[n] \in {Gone, Session(m)} /\ y[n] = Session(m)
  /\ Ends(m, n) => /\ y[n] = Gone
                   /\ m.type = "KILL" => m.by \in Server \/ (m.by \in N /\ x[m.by] # Gone)
  /\ ~Begins(m, n) /\ ~Ends(m, n) => y[n] = x[n]

\* A session known at point i of a history is still there at j, or q ended it.
Lasts(q, n, v, i, j) ==
  v[i][n] = Gone \/ v[j][n] = v[i][n] \/ \E k \in i + 1 .. j : Ends(q[k], n)

\* v is a history of the nicks N: reading q, message by message, leads from x to y.
Passes(N, x, q, y, v) ==
  /\ \A n \in N : v[0][n] = x[n] /\ v[Len(q)][n] = y[n]
  /\ \A n \in N, i \in 1 .. Len(q) : TakesTo(N, q[i], n, v[i - 1], v[i])
  /\ \A n \in N, i, j \in 0 .. Len(q) : i < j => Lasts(q, n, v, i, j)

History(N, x, q, y) == \E v : Passes(N, x, q, y, v)

\* With nothing to read, what is known is what will be known.
LEMMA HistoryNone ==
  ASSUME NEW N, NEW x, NEW y, \A n \in N : x[n] = y[n]
  PROVE  History(N, x, <<>>, y)
<1> DEFINE v == [i \in {0} |-> x]
<1>1. Len(<<>>) = 0 /\ 1 .. 0 = {} /\ 0 .. 0 = {0} /\ v[0] = x
  OBVIOUS
<1> HIDE DEF v
<1>2. Passes(N, x, <<>>, y, v)
  BY <1>1 DEF Passes
<1> QED BY <1>2 DEF History

\* The history of one message.
LEMMA HistoryOne ==
  ASSUME NEW N, NEW x, NEW y, NEW m, \A n \in N : TakesTo(N, m, n, x, y)
  PROVE  History(N, x, <<m>>, y)
<1> DEFINE v == [i \in 0 .. 1 |-> IF i = 0 THEN x ELSE y]
<1>1. Len(<<m>>) = 1 /\ <<m>>[1] = m /\ v[0] = x /\ v[1] = y
  OBVIOUS
<1> HIDE DEF v
<1>2. \A n \in N : Lasts(<<m>>, n, v, 0, 1)
  BY <1>1 DEF Lasts, TakesTo
<1>3. Passes(N, x, <<m>>, y, v)
  <2>1. \A i \in 1 .. 1 : i = 1 /\ i - 1 = 0
    OBVIOUS
  <2>2. \A i, j \in 0 .. 1 : i < j => i = 0 /\ j = 1
    OBVIOUS
  <2>3. \A n \in N, i \in 1 .. 1 : TakesTo(N, <<m>>[i], n, v[i - 1], v[i])
    BY <1>1, <2>1
  <2> QED BY <1>1, <1>2, <2>2, <2>3 DEF Passes
<1> QED BY <1>3 DEF History

\* pass_message() adds to the end of a queue: histories are joined.
LEMMA HistoryJoin ==
  ASSUME NEW N, NEW x, NEW y, NEW z, NEW p \in Seq(Message), NEW q \in Seq(Message),
         History(N, x, p, y), History(N, y, q, z)
  PROVE  History(N, x, p \o q, z)
<1>1. PICK v : Passes(N, x, p, y, v)
  BY DEF History
<1>2. PICK w : Passes(N, y, q, z, w)
  BY DEF History
<1> DEFINE r == p \o q
           h == [i \in 0 .. Len(p) + Len(q) |-> IF i <= Len(p) THEN v[i] ELSE w[i - Len(p)]]
<1>3. /\ Len(p) \in Nat /\ Len(q) \in Nat /\ Len(r) = Len(p) + Len(q)
      /\ \A i \in 1 .. Len(p) : r[i] = p[i]
      /\ \A i \in 1 .. Len(q) : r[Len(p) + i] = q[i]
  <2>1. r \in Seq(Message) /\ Len(r) = Len(p) + Len(q)
    BY ConcatProperties
  <2>2. \A i \in 1 .. Len(p) + Len(q) : r[i] = IF i <= Len(p) THEN p[i] ELSE q[i - Len(p)]
    BY ConcatProperties
  <2>3. Len(p) \in Nat /\ Len(q) \in Nat
    BY LenProperties
  <2> HIDE DEF r
  <2>4. \A i \in 1 .. Len(q) : /\ Len(p) + i \in 1 .. Len(p) + Len(q) /\ ~(Len(p) + i <= Len(p))
                               /\ (Len(p) + i) - Len(p) = i
    BY <2>3
  <2>5. \A i \in 1 .. Len(q) : r[Len(p) + i] = q[i]
    BY <2>2, <2>4
  <2> QED BY <2>1, <2>2, <2>3, <2>5
<1>4. /\ \A i \in 0 .. Len(p) : h[i] = v[i]
      /\ \A i \in 1 .. Len(q) : h[Len(p) + i] = w[i]
  BY <1>3
<1> HIDE DEF r, h
<1>5. ASSUME NEW n \in N PROVE /\ h[0][n] = x[n] /\ h[Len(r)][n] = z[n]
                               /\ h[Len(p)][n] = y[n] /\ w[0][n] = y[n]
                               /\ Len(q) = 0 => h[Len(r)][n] = w[0][n]
  <2>1. /\ v[0][n] = x[n] /\ v[Len(p)][n] = y[n] /\ w[0][n] = y[n] /\ w[Len(q)][n] = z[n]
    BY <1>1, <1>2 DEF Passes
  <2>2. h[0] = v[0] /\ h[Len(p)] = v[Len(p)]
    BY <1>3, <1>4
  <2>3. CASE Len(q) = 0
    BY <1>3, <2>1, <2>2, <2>3
  <2>4. CASE Len(q) # 0
    <3>1. Len(q) \in 1 .. Len(q)
      BY <1>3, <2>4
    <3> QED BY <1>3, <1>4, <2>1, <2>2, <3>1, <2>4
  <2> QED BY <2>3, <2>4
<1>6. ASSUME NEW n \in N, NEW i \in 1 .. Len(r) PROVE TakesTo(N, r[i], n, h[i - 1], h[i])
  <2>1. CASE i \in 1 .. Len(p)
    <3>1. r[i] = p[i] /\ h[i] = v[i] /\ h[i - 1] = v[i - 1]
      BY <1>3, <1>4, <2>1
    <3> QED BY <1>1, <2>1, <3>1 DEF Passes
  <2>2. CASE i = Len(p) + 1
    <3>1. 1 \in 1 .. Len(q) /\ i - 1 = Len(p) /\ 1 - 1 = 0
      BY <1>3, <2>2
    <3>2. r[i] = q[1] /\ h[i] = w[1]
      BY <1>3, <1>4, <2>2, <3>1
    <3>3. TakesTo(N, q[1], n, w[0], w[1])
      BY <1>2, <3>1 DEF Passes
    <3>4. \A k \in N : w[0][k] = h[Len(p)][k]
      BY <1>5
    <3>5. TakesTo(N, q[1], n, h[Len(p)], w[1])
      BY <3>3, <3>4 DEF TakesTo
    <3> QED BY <3>1, <3>2, <3>5
  <2>3. CASE i > Len(p) + 1
    <3> DEFINE k == i - Len(p)
    <3>1. k \in 1 .. Len(q) /\ k - 1 \in 1 .. Len(q) /\ i = Len(p) + k /\ i - 1 = Len(p) + (k - 1)
      BY <1>3, <2>3
    <3> HIDE DEF k
    <3>2. r[i] = q[k] /\ h[i] = w[k] /\ h[i - 1] = w[k - 1]
      BY <1>3, <1>4, <3>1
    <3> QED BY <1>2, <3>1, <3>2 DEF Passes
  <2>4. i \in 1 .. Len(p) \/ i = Len(p) + 1 \/ i > Len(p) + 1
    BY <1>3
  <2> QED BY <2>1, <2>2, <2>3, <2>4
<1>7. ASSUME NEW n \in N, NEW i \in 0 .. Len(p), NEW j \in 0 .. Len(p), i < j
      PROVE Lasts(r, n, h, i, j)
  <2>1. Lasts(p, n, v, i, j)
    BY <1>1, <1>7 DEF Passes
  <2>2. \A k \in i + 1 .. j : r[k] = p[k]
    BY <1>3
  <2>3. h[i] = v[i] /\ h[j] = v[j]
    BY <1>4
  <2> QED BY <2>1, <2>2, <2>3 DEF Lasts
<1>8. ASSUME NEW n \in N, NEW i \in 0 .. Len(q), NEW j \in 0 .. Len(q), i < j
      PROVE Lasts(r, n, h, Len(p) + i, Len(p) + j)
  <2>1. Lasts(q, n, w, i, j)
    BY <1>2, <1>8 DEF Passes
  <2>2. \A k \in i + 1 .. j : r[Len(p) + k] = q[k] /\ Len(p) + k \in Len(p) + i + 1 .. Len(p) + j
    BY <1>3
  <2>3. h[Len(p) + i][n] = w[i][n] /\ h[Len(p) + j][n] = w[j][n]
    <3>1. h[Len(p) + 0][n] = w[0][n]
      BY <1>3, <1>5
    <3>2. \A k \in 0 .. Len(q) : k = 0 \/ k \in 1 .. Len(q)
      BY <1>3
    <3> QED BY <1>4, <3>1, <3>2
  <2> QED BY <2>1, <2>2, <2>3 DEF Lasts
<1>9. ASSUME NEW n \in N, NEW i \in 0 .. Len(r), NEW j \in 0 .. Len(r), i < j
      PROVE Lasts(r, n, h, i, j)
  <2>1. CASE j <= Len(p)
    BY <1>3, <1>7, <1>9, <2>1
  <2>2. CASE i >= Len(p)
    <3>1. i - Len(p) \in 0 .. Len(q) /\ j - Len(p) \in 0 .. Len(q) /\ i - Len(p) < j - Len(p)
      BY <1>3, <1>9, <2>2
    <3>2. Len(p) + (i - Len(p)) = i /\ Len(p) + (j - Len(p)) = j
      BY <1>3
    <3>3. Lasts(r, n, h, Len(p) + (i - Len(p)), Len(p) + (j - Len(p)))
      BY <1>8, <3>1
    <3> QED BY <3>2, <3>3
  <2>3. CASE i < Len(p) /\ Len(p) < j
    <3>1. Lasts(r, n, h, i, Len(p))
      <4>1. i \in 0 .. Len(p) /\ Len(p) \in 0 .. Len(p)
        BY <1>3, <2>3
      <4> QED BY <1>7, <2>3, <4>1
    <3>2. Lasts(r, n, h, Len(p), j)
      <4>1. 0 \in 0 .. Len(q) /\ j - Len(p) \in 0 .. Len(q) /\ 0 < j - Len(p)
        BY <1>3, <2>3
      <4>2. Len(p) + 0 = Len(p) /\ Len(p) + (j - Len(p)) = j
        BY <1>3
      <4>3. Lasts(r, n, h, Len(p) + 0, Len(p) + (j - Len(p)))
        BY <1>8, <4>1
      <4> QED BY <4>2, <4>3
    <3>3. (i + 1 .. Len(p)) \subseteq (i + 1 .. j) /\ (Len(p) + 1 .. j) \subseteq (i + 1 .. j)
      BY <1>3, <2>3
    <3> QED BY <3>1, <3>2, <3>3 DEF Lasts
  <2> QED BY <1>3, <2>1, <2>2, <2>3
<1>10. Passes(N, x, r, z, h)
  BY <1>5, <1>6, <1>9 DEF Passes
<1> QED BY <1>10 DEF History, r

\* A handler reads the head of a queue: the rest has a history from what it leaves.
LEMMA HistoryRead ==
  ASSUME NEW N, NEW x, NEW y, NEW q \in Seq(Message), q # <<>>, History(N, x, q, y)
  PROVE  \E z : /\ \A n \in N : TakesTo(N, Head(q), n, x, z)
                /\ History(N, z, Tail(q), y)
<1>1. PICK v : Passes(N, x, q, y, v)
  BY DEF History
<1> DEFINE r == Tail(q)
           h == [i \in 0 .. Len(q) - 1 |-> v[i + 1]]
<1>2. /\ Len(q) \in Nat /\ Len(q) >= 1 /\ Len(r) = Len(q) - 1 /\ Head(q) = q[1]
      /\ \A i \in 1 .. Len(r) : r[i] = q[i + 1]
  <2>1. Len(q) \in Nat /\ Len(q) >= 1
    BY EmptySeq, LenProperties
  <2>2. r \in Seq(Message) /\ Len(r) = Len(q) - 1 /\ \A i \in 1 .. Len(r) : r[i] = q[i + 1]
    BY HeadTailProperties
  <2> QED BY <2>1, <2>2
<1>3. \A i \in 0 .. Len(r) : h[i] = v[i + 1]
  BY <1>2
<1> HIDE DEF r, h
<1>4. ASSUME NEW n \in N PROVE /\ v[0][n] = x[n] /\ h[0] = v[1] /\ h[Len(r)][n] = y[n]
                               /\ TakesTo(N, Head(q), n, v[0], v[1])
  <2>1. 0 \in 0 .. Len(r) /\ Len(r) \in 0 .. Len(r) /\ 0 + 1 = 1 /\ Len(r) + 1 = Len(q)
        /\ 1 \in 1 .. Len(q) /\ 1 - 1 = 0
    BY <1>2
  <2>2. h[0] = v[1] /\ h[Len(r)] = v[Len(q)]
    BY <1>3, <2>1
  <2>3. TakesTo(N, q[1], n, v[0], v[1])
    BY <1>1, <2>1 DEF Passes
  <2> QED BY <1>1, <1>2, <2>2, <2>3 DEF Passes
<1>5. \A n \in N : TakesTo(N, Head(q), n, x, v[1])
  BY <1>4 DEF TakesTo
<1>6. ASSUME NEW n \in N, NEW i \in 1 .. Len(r) PROVE TakesTo(N, r[i], n, h[i - 1], h[i])
  <2>1. i + 1 \in 1 .. Len(q) /\ (i + 1) - 1 = i /\ i - 1 \in 0 .. Len(r) /\ (i - 1) + 1 = i
    BY <1>2
  <2>2. r[i] = q[i + 1] /\ h[i - 1] = v[i] /\ h[i] = v[i + 1]
    BY <1>2, <1>3, <2>1
  <2>3. TakesTo(N, q[i + 1], n, v[(i + 1) - 1], v[i + 1])
    BY <1>1, <2>1 DEF Passes
  <2> QED BY <2>1, <2>2, <2>3
<1>7. ASSUME NEW n \in N, NEW i \in 0 .. Len(r), NEW j \in 0 .. Len(r), i < j
      PROVE Lasts(r, n, h, i, j)
  <2>1. i + 1 \in 0 .. Len(q) /\ j + 1 \in 0 .. Len(q) /\ i + 1 < j + 1
    BY <1>2, <1>7
  <2>2. Lasts(q, n, v, i + 1, j + 1)
    BY <1>1, <2>1 DEF Passes
  <2>3. h[i] = v[i + 1] /\ h[j] = v[j + 1]
    BY <1>3
  <2>4. \A k \in (i + 1) + 1 .. j + 1 : k - 1 \in i + 1 .. j /\ r[k - 1] = q[k]
    BY <1>2
  <2> QED BY <2>2, <2>3, <2>4 DEF Lasts
<1>8. Passes(N, h[0], r, y, h)
  BY <1>4, <1>6, <1>7 DEF Passes
<1>9. 0 \in 0 .. Len(r) /\ 0 + 1 = 1
  BY <1>2
<1>10. h[0] = v[1]
  BY <1>3, <1>9
<1>11. History(N, v[1], r, y)
  BY <1>8, <1>10 DEF History
<1> QED BY <1>5, <1>11 DEF r

\* A history is about the nicks N only.
LEMMA HistoryAlike ==
  ASSUME NEW N, NEW x, NEW y, NEW q \in Seq(Message), History(N, x, q, y),
         NEW a, NEW b, \A n \in N : a[n] = x[n] /\ b[n] = y[n]
  PROVE  History(N, a, q, b)
<1>1. PICK v : Passes(N, x, q, y, v)
  BY DEF History
<1>2. Passes(N, a, q, b, v)
  BY <1>1 DEF Passes
<1> QED BY <1>2 DEF History

\* A session known at the reader is known at the writer, or its end is on its way.
LEMMA HistoryLasts ==
  ASSUME NEW N, NEW x, NEW y, NEW q \in Seq(Message), History(N, x, q, y),
         NEW n \in N, x[n] # Gone
  PROVE  y[n] = x[n] \/ \E k \in 1 .. Len(q) : Ends(q[k], n)
<1>1. PICK v : Passes(N, x, q, y, v)
  BY DEF History
<1>2. Len(q) \in Nat /\ v[0][n] = x[n] /\ v[Len(q)][n] = y[n]
  BY <1>1, LenProperties DEF Passes
<1>3. CASE Len(q) = 0
  BY <1>2, <1>3
<1>4. CASE Len(q) # 0
  <2>1. 0 \in 0 .. Len(q) /\ Len(q) \in 0 .. Len(q) /\ 0 < Len(q) /\ 0 + 1 = 1
    BY <1>2, <1>4
  <2>2. Lasts(q, n, v, 0, Len(q))
    BY <1>1, <2>1 DEF Passes
  <2> QED BY <1>2, <2>1, <2>2 DEF Lasts
<1> QED BY <1>3, <1>4

\* What s tells its peers of n: a user marked by a kill is told to be gone already.
Shown(s, n) == Known(s, n) /\ ~(Local(s, n) /\ conn[s][users[s][n].con].killed)
View(s, n)  == IF Shown(s, n) THEN Session(users[s][n]) ELSE Gone
Views(s)    == [n \in Nick |-> View(s, n)]

\* What t sends to s will be read, and s has everything that t has told.
Live(t, s) == end[t][s] \in {"up", "dying"} /\ end[s][t] # "down"

\* Once s has read what t has sent, it knows of the nicks it hears of from t what t
\* knows of them.
Told(t, s) == History(Carried(t, s), Views(s), chan[t][s], Views(t))

\* A message of t may be read by s: news of a nick comes from its home's side, and
\* the kill of a user by a user is one that Settled admits.
Fits(t, s, m) ==
  m.type \in {"LOGIN", "QUIT", "KILL"} =>
    /\ m.nick \in Carried(t, s)
    /\ (m.type = "KILL" /\ m.by \notin Server) => MaxKills # 0 /\ MayKill(m.by, m.nick)

HasEof(q) == \E i \in 1 .. Len(q) : q[i] = Eof

\* The two ends of a link: what s may find on its side when t has gone, or is first.
LinkEnds(s, t) ==
  /\ end[s][t] # "down" => t \in Edge[s]
  /\ end[s][t] = "down" => chan[t][s] = <<>>
  /\ end[s][t] = "pending" => /\ chan[s][t] = <<>>
                              /\ \A n \in Nick : users[t][n].con # s
  /\ end[t][s] = "down" /\ end[s][t] \in {"up", "pending"} => HasEof(chan[t][s])

\* Every message under way comes from the side of its nick's home.
Directed(t, s) == \A i \in 1 .. Len(chan[t][s]) : Fits(t, s, chan[t][s][i])

\* Every entry was learnt from the side of its nick's home.
FromNear(s) == \A n \in Nick : /\ users[s][n].con \in Server => n \in Carried(users[s][n].con, s)
                               /\ Local(s, n) => s \in Home[n]

\* kill_user() marks a connection for removal too.
Marked(s) == \A c \in Conn : (conn[s][c].class = "user" /\ conn[s][c].killed) =>
                                conn[s][c].destroy /\ MaxKills # 0

\* The inductive invariant: what every server knows and what is on the links to it
\* adds up to what its peer knows.
FlowInv == \A s, t \in Server : /\ LinkEnds(s, t) /\ Directed(t, s)
                                /\ FromNear(s) /\ Marked(s)
                                /\ Live(t, s) => Told(t, s)

\* What pass_message() does to the channels when s has read from `from' and sends msgs.
Spreads(s, from, msgs) ==
  \A r, u \in Server :
     chan'[r][u] = IF r = s /\ u \in Servers(s) \ {from} /\ end[u][s] # "down"
                   THEN chan[s][u] \o msgs
                   ELSE IF r = from /\ u = s THEN Tail(chan[from][s]) ELSE chan[r][u]

\* s reads a message that leaves it with what the rest of the queue starts from.
Reads(s, from) ==
  from \in Server =>
    /\ end[s][from] = "up" /\ chan[from][s] # <<>> /\ Head(chan[from][s]) # Eof
    /\ Live(from, s) =>
         History(Carried(from, s), Views(s)', Tail(chan[from][s]), Views(from))

\* The end of a stream stays in the channel until it is read.
LEMMA EofStays ==
  ASSUME NEW M, NEW q \in Seq(M), HasEof(q)
  PROVE  /\ \A r \in Seq(M) : HasEof(q \o r)
         /\ q # <<>> /\ (Head(q) # Eof => HasEof(Tail(q)))
<1>1. PICK i \in 1 .. Len(q) : q[i] = Eof
  BY DEF HasEof
<1>2. Len(q) \in Nat /\ q # <<>>
  BY <1>1, LenProperties
<1>3. ASSUME NEW r \in Seq(M) PROVE HasEof(q \o r)
  <2>1. Len(r) \in Nat /\ Len(q \o r) = Len(q) + Len(r) /\ i \in 1 .. Len(q) + Len(r)
    BY <1>1, <1>2, ConcatProperties, LenProperties
  <2>2. (q \o r)[i] = q[i]
    BY <1>1, <1>2, <2>1, ConcatProperties
  <2> QED BY <1>1, <2>1, <2>2 DEF HasEof
<1>4. ASSUME Head(q) # Eof PROVE HasEof(Tail(q))
  <2>1. i # 1
    BY <1>1, <1>2, <1>4
  <2>2. Len(Tail(q)) = Len(q) - 1 /\ \A k \in 1 .. Len(q) - 1 : Tail(q)[k] = q[k + 1]
    BY <1>2, HeadTailProperties
  <2>3. i - 1 \in 1 .. Len(q) - 1 /\ (i - 1) + 1 = i
    BY <1>1, <1>2, <2>1
  <2>4. Tail(q)[i - 1] = q[(i - 1) + 1]
    BY <2>2, <2>3
  <2> QED BY <1>1, <2>2, <2>3, <2>4 DEF HasEof
<1> QED BY <1>2, <1>3, <1>4

\* Queueing and reading keep a channel directed.
LEMMA DirectedStays ==
  ASSUME NEW s, NEW t, NEW q \in Seq(Message), \A i \in 1 .. Len(q) : Fits(t, s, q[i])
  PROVE  /\ \A r \in Seq(Message) : (\A i \in 1 .. Len(r) : Fits(t, s, r[i])) =>
              \A i \in 1 .. Len(q \o r) : Fits(t, s, (q \o r)[i])
         /\ q # <<>> => \A i \in 1 .. Len(Tail(q)) : Fits(t, s, Tail(q)[i])
         /\ q # <<>> => Fits(t, s, Head(q))
<1>0. Len(q) \in Nat
  BY LenProperties
<1>1. ASSUME NEW r \in Seq(Message), \A i \in 1 .. Len(r) : Fits(t, s, r[i]),
             NEW i \in 1 .. Len(q \o r)
      PROVE  Fits(t, s, (q \o r)[i])
  <2>1. Len(r) \in Nat /\ Len(q \o r) = Len(q) + Len(r)
    BY ConcatProperties, LenProperties
  <2>2. (q \o r)[i] = IF i <= Len(q) THEN q[i] ELSE r[i - Len(q)]
    BY <2>1, ConcatProperties
  <2>3. CASE i <= Len(q)
    <3>1. i \in 1 .. Len(q)
      BY <1>0, <2>1, <2>3
    <3> QED BY <2>2, <2>3, <3>1
  <2>4. CASE ~(i <= Len(q))
    <3>1. i - Len(q) \in 1 .. Len(r)
      BY <1>0, <2>1, <2>4
    <3> QED BY <1>1, <2>2, <2>4, <3>1
  <2> QED BY <2>3, <2>4
<1>2. ASSUME q # <<>>, NEW i \in 1 .. Len(Tail(q)) PROVE Fits(t, s, Tail(q)[i])
  <2>1. Len(Tail(q)) = Len(q) - 1 /\ \A k \in 1 .. Len(q) - 1 : Tail(q)[k] = q[k + 1]
    BY <1>2, HeadTailProperties
  <2>2. i \in 1 .. Len(q) - 1 /\ i + 1 \in 1 .. Len(q)
    BY <1>0, <2>1
  <2>3. Tail(q)[i] = q[i + 1]
    BY <2>1, <2>2
  <2> QED BY <2>2, <2>3
<1>3. ASSUME q # <<>> PROVE Fits(t, s, Head(q))
  <2>1. 1 \in 1 .. Len(q) /\ Head(q) = q[1]
    BY <1>0, <1>3, EmptySeq
  <2> QED BY <2>1
<1> QED BY <1>1, <1>2, <1>3

\* A step of s that changes what it knows of the nicks D, tells msgs to its peers and,
\* when `from' is a server, reads a message from there.
Spreading(s, from, msgs, D) ==
  /\ UNCHANGED end
  /\ \A r \in Server \ {s} : users'[r] = users[r] /\ conn'[r] = conn[r]
  /\ Spreads(s, from, msgs) /\ Reads(s, from)
  /\ FromNear(s)' /\ Marked(s)'
  /\ \A n \in Nick \ D : View(s, n)' = View(s, n)
  /\ \A n \in D : IF from \in Server THEN n \in Carried(from, s) ELSE s \in Home[n]
  /\ \A n \in Nick : users'[s][n].con \in Server => users'[s][n].con \in {users[s][n].con, from}
  /\ \A u \in Edge[s] \ {from} : /\ History(Carried(s, u), Views(s), msgs, Views(s)')
                                  /\ \A i \in 1 .. Len(msgs) : Fits(s, u, msgs[i])

\* Every step of that kind keeps the invariant: the peers away from the source hear of
\* what changed, and nobody else knows of these nicks from s.
LEMMA SpreadKeeps ==
  ASSUME Settled, IInv, FlowInv, NEW s \in Server, NEW from \in Server \cup {None},
         NEW msgs \in Seq(Message), NEW D \in SUBSET Nick, Spreading(s, from, msgs, D)
  PROVE  FlowInv'
<1> USE DEF Spreading
<1>0. /\ \A a, b \in Server : chan[a][b] \in Seq(Message)
      /\ None \notin Server
      /\ \A a \in Server : Edge[a] \subseteq Server
  <2>1. chan \in [Server -> [Server -> Seq(Message)]]
    BY DEF IInv, TypeOK
  <2>2. None \notin Server
    BY DisjointNames
  <2>3. \A a \in Server : Edge[a] \subseteq Server
    BY Environment
  <2> QED BY <2>1, <2>2, <2>3
<1>1. \A a, b \in Server : LinkEnds(a, b) /\ Directed(b, a) /\ FromNear(a) /\ Marked(a) /\ (Live(b, a) => Told(b, a))
  BY DEF FlowInv
<1>2. \A a, b \in Server : end[a][b] # "down" => b \in Edge[a] /\ a \in Edge[b] /\ a # b
  BY <1>0, <1>1, Carrying DEF Settled, OneWay, LinkEnds
<1>3. /\ \A n \in Nick : Views(s)[n] = View(s, n) /\ Views(s)'[n] = View(s, n)'
      /\ \A r \in Server \ {s} : Views(r)' = Views(r)
  <2>1. \A r \in Server \ {s}, n \in Nick : View(r, n)' = View(r, n)
    BY DEF View, Shown, Known, Local
  <2> QED BY <2>1 DEF Views
<1>4. \A a \in Server, b \in Server : Live(a, b)' = Live(a, b)
  BY DEF Live
<1>5. ASSUME NEW a \in Server, NEW b \in Server PROVE LinkEnds(a, b)'
  <2>1. LinkEnds(a, b)
    BY <1>1
  <2>2. end[a][b] = "down" => chan'[b][a] = <<>>
    <3> SUFFICES ASSUME end[a][b] = "down" PROVE chan'[b][a] = <<>>
      OBVIOUS
    <3>1. chan[b][a] = <<>>
      BY <2>1 DEF LinkEnds
    <3>2. ~(b = from /\ a = s)
      BY DEF Reads
    <3> QED BY <3>1, <3>2 DEF Spreads
  <2>3. end[a][b] = "pending" => chan'[a][b] = <<>> /\ \A n \in Nick : users'[b][n].con # a
    <3> SUFFICES ASSUME end[a][b] = "pending"
        PROVE chan'[a][b] = <<>> /\ \A n \in Nick : users'[b][n].con # a
      OBVIOUS
    <3>1. chan[a][b] = <<>> /\ \A n \in Nick : users[b][n].con # a
      BY <2>1 DEF LinkEnds
    <3>2. b \notin Servers(a)
      BY DEF Servers
    <3>3. ~(a = from /\ b = s)
      BY <3>1 DEF Reads
    <3>4. chan'[a][b] = <<>>
      BY <3>1, <3>2, <3>3 DEF Spreads
    <3>5. \A n \in Nick : users'[b][n].con # a
      BY <3>1, <3>3
    <3> QED BY <3>4, <3>5
  <2>4. end[b][a] = "down" /\ end[a][b] \in {"up", "pending"} => HasEof(chan'[b][a])
    <3> SUFFICES ASSUME end[b][a] = "down", end[a][b] \in {"up", "pending"} PROVE HasEof(chan'[b][a])
      OBVIOUS
    <3>1. HasEof(chan[b][a])
      BY <2>1 DEF LinkEnds
    <3>2. a \notin Servers(b)
      BY DEF Servers
    <3>3. CASE b = from /\ a = s
      <4>1. Head(chan[b][a]) # Eof
        BY <3>3 DEF Reads
      <4>2. chan'[b][a] = Tail(chan[b][a])
        BY <3>2, <3>3 DEF Spreads
      <4> QED BY <1>0, <3>1, <4>1, <4>2, EofStays
    <3>4. CASE ~(b = from /\ a = s)
      <4>1. chan'[b][a] = chan[b][a]
        BY <3>2, <3>4 DEF Spreads
      <4> QED BY <3>1, <4>1
    <3> QED BY <3>3, <3>4
  <2>5. end'[a][b] = end[a][b] /\ end'[b][a] = end[b][a]
    OBVIOUS
  <2> QED BY <2>1, <2>2, <2>3, <2>4, <2>5 DEF LinkEnds, HasEof
<1>6. ASSUME NEW a \in Server, NEW b \in Server PROVE Directed(a, b)'
  <2>0. chan[a][b] \in Seq(Message) /\ \A i \in 1 .. Len(chan[a][b]) : Fits(a, b, chan[a][b][i])
    BY <1>0, <1>1 DEF Directed
  <2> SUFFICES \A i \in 1 .. Len(chan'[a][b]) : Fits(a, b, chan'[a][b][i])
    BY DEF Directed, Fits
  <2>1. CASE a = s /\ b \in Servers(s) \ {from} /\ end[b][s] # "down"
    <3>1. chan'[a][b] = chan[a][b] \o msgs
      BY <2>1 DEF Spreads
    <3>2. b \in Edge[s] \ {from}
      BY <1>2, <2>1 DEF Servers
    <3>3. \A i \in 1 .. Len(msgs) : Fits(a, b, msgs[i])
      BY <2>1, <3>2
    <3> QED BY <2>0, <3>1, <3>3, DirectedStays
  <2>2. CASE a = from /\ b = s
    <3>1. chan'[a][b] = Tail(chan[a][b]) /\ chan[a][b] # <<>>
      <4>1. end[s][from] = "up" /\ chan[from][s] # <<>>
        BY <2>2 DEF Reads
      <4>2. from # s
        BY <1>2, <2>2, <4>1
      <4> QED BY <2>2, <4>1, <4>2 DEF Spreads
    <3> QED BY <2>0, <3>1, DirectedStays
  <2>3. CASE ~(a = s /\ b \in Servers(s) \ {from} /\ end[b][s] # "down") /\ ~(a = from /\ b = s)
    <3>1. chan'[a][b] = chan[a][b]
      BY <2>3 DEF Spreads
    <3> QED BY <2>0, <3>1
  <2> QED BY <2>1, <2>2, <2>3
<1>7. ASSUME NEW a \in Server PROVE FromNear(a)' /\ Marked(a)'
  <2>1. CASE a # s
    BY <1>1, <2>1 DEF FromNear, Marked, Local
  <2> QED BY <2>1
<1>8. ASSUME NEW a \in Server, NEW b \in Server, Live(a, b) PROVE Told(a, b)'
  <2>1. b \in Edge[a] /\ a \in Edge[b] /\ a # b
    BY <1>2, <1>8 DEF Live
  <2>2. History(Carried(a, b), Views(b), chan[a][b], Views(a))
    BY <1>1, <1>8 DEF Told
  <2> SUFFICES History(Carried(a, b), Views(b)', chan'[a][b], Views(a)')
    BY DEF Told, Carried
  <2>3. Carried(a, b) \subseteq Nick
    BY DEF Carried
  <2>4. CASE a = s /\ b # from
    <3>1. b \in Servers(s) /\ end[b][s] # "down"
      BY <1>8, <2>4 DEF Live, Servers
    <3>2. chan'[a][b] = chan[a][b] \o msgs
      BY <2>4, <3>1 DEF Spreads
    <3>3. Views(b)' = Views(b)
      BY <1>3, <2>1, <2>4
    <3>4. History(Carried(a, b), Views(a), msgs, Views(a)')
      BY <2>1, <2>4
    <3> QED BY <1>0, <2>2, <3>2, <3>3, <3>4, HistoryJoin
  <2>5. CASE a = s /\ b = from
    <3>1. chan'[a][b] = chan[a][b]
      BY <2>1, <2>5 DEF Spreads
    <3>2. \A n \in Carried(a, b) : n \notin D
      BY <2>3, <2>5, Carrying DEF Settled, OneWay
    <3>3. \A n \in Carried(a, b) : Views(b)'[n] = Views(b)[n] /\ Views(a)'[n] = Views(a)[n]
      BY <1>3, <2>1, <2>3, <2>5, <3>2
    <3> QED BY <1>0, <2>2, <3>1, <3>3, HistoryAlike
  <2>6. CASE b = s /\ a = from
    <3>1. chan'[a][b] = Tail(chan[a][b])
      BY <2>1, <2>6 DEF Spreads
    <3>2. Views(a)' = Views(a)
      BY <1>3, <2>1, <2>6
    <3> QED BY <1>8, <2>6, <3>1, <3>2 DEF Reads
  <2>7. CASE b = s /\ a # from
    <3>1. chan'[a][b] = chan[a][b]
      BY <2>1, <2>7 DEF Spreads
    <3>2. \A n \in Carried(a, b) : n \notin D
      <4> SUFFICES ASSUME NEW n \in D, n \in Carried(a, b) PROVE FALSE
        OBVIOUS
      <4>1. CASE from \in Server
        <5>1. n \in Carried(from, s) /\ a \in Edge[s] \ {from}
          BY <2>1, <2>7, <4>1
        <5>2. n \in Carried(s, a)
          BY <4>1, <5>1, Carrying DEF Settled, OneWay
        <5> QED BY <2>7, <5>2, Carrying DEF Settled, OneWay
      <4>2. CASE from \notin Server
        <5>1. s \in Home[n]
          BY <4>2
        <5> QED BY <2>1, <2>7, <5>1, Carrying DEF Settled, OneWay
      <4> QED BY <4>1, <4>2
    <3>3. \A n \in Carried(a, b) : Views(b)'[n] = Views(b)[n] /\ Views(a)'[n] = Views(a)[n]
      BY <1>3, <2>1, <2>3, <2>7, <3>2
    <3> QED BY <1>0, <2>2, <3>1, <3>3, HistoryAlike
  <2>8. CASE a # s /\ b # s
    <3>1. chan'[a][b] = chan[a][b] /\ Views(b)' = Views(b) /\ Views(a)' = Views(a)
      BY <1>3, <2>8 DEF Spreads
    <3> QED BY <2>2, <3>1
  <2> QED BY <2>4, <2>5, <2>6, <2>7, <2>8
<1> QED BY <1>4, <1>5, <1>6, <1>7, <1>8 DEF FlowInv

\* Where a message of s goes, read from a link or not.
LEMMA SpreadsAs ==
  ASSUME IInv, NEW s \in Server, NEW t \in Server, s # t, NEW msgs \in Seq(Message)
  PROVE  /\ chan' = PassOn(chan, s, None, msgs) => Spreads(s, None, msgs)
         /\ chan' = PassOn(Received(t, s), s, t, msgs) => Spreads(s, t, msgs)
         /\ chan' = Received(t, s) => Spreads(s, t, <<>>)
<1>1. chan \in Chans /\ None \notin Server
  BY DisjointNames DEF IInv, TypeOK, Chans
<1>2. \A r, u \in Server : Received(t, s)[r][u] = IF r = t /\ u = s THEN Tail(chan[t][s]) ELSE chan[r][u]
  BY <1>1 DEF Received, Chans
<1>3. \A r, u \in Server : PassOn(chan, s, None, msgs)[r][u] =
        IF r = s /\ u \in Servers(s) \ {None} /\ end[u][s] # "down" THEN chan[s][u] \o msgs ELSE chan[r][u]
  BY <1>1 DEF PassOn, Chans
<1>4. \A r, u \in Server : PassOn(Received(t, s), s, t, msgs)[r][u] =
        IF r = s /\ u \in Servers(s) \ {t} /\ end[u][s] # "down" THEN Received(t, s)[s][u] \o msgs
        ELSE Received(t, s)[r][u]
  <2>1. Received(t, s) = [r \in Server |-> Received(t, s)[r]]
    BY <1>1 DEF Received, Chans
  <2> QED BY <2>1 DEF PassOn
<1>5. \A u \in Server : chan[s][u] \o <<>> = chan[s][u]
  BY <1>1, ConcatEmptySeq DEF Chans
<1>6. chan' = PassOn(chan, s, None, msgs) => Spreads(s, None, msgs)
  BY <1>1, <1>3 DEF Spreads
<1>7. chan' = PassOn(Received(t, s), s, t, msgs) => Spreads(s, t, msgs)
  BY <1>2, <1>4 DEF Spreads
<1>8. chan' = Received(t, s) => Spreads(s, t, <<>>)
  BY <1>2, <1>5 DEF Spreads
<1> QED BY <1>6, <1>7, <1>8

\* A step that sends nothing.
LEMMA SpreadsNothing ==
  ASSUME IInv, NEW s \in Server, chan' = chan
  PROVE  Spreads(s, None, <<>>)
<1>1. chan \in Chans /\ None \notin Server
  BY DisjointNames DEF IInv, TypeOK, Chans
<1>2. \A u \in Server : chan[s][u] \o <<>> = chan[s][u]
  BY <1>1, ConcatEmptySeq DEF Chans
<1> QED BY <1>1, <1>2 DEF Spreads

\* The parts of the invariants that the handlers need.
LEMMA NearBy ==
  ASSUME Settled, IInv, FlowInv, NEW s \in Server, NEW n \in Nick
  PROVE  /\ Local(s, n) => /\ s \in Home[n] /\ \A u \in Edge[s] : n \in Carried(s, u) /\ n \notin Carried(u, s)
                           /\ conn[s][users[s][n].con].class = "user"
                           /\ conn[s][users[s][n].con].nick = n /\ users[s][n].home = s
         /\ Known(s, n) /\ ~Local(s, n) => n \in Carried(users[s][n].con, s) /\ users[s][n].con \in Servers(s)
         /\ \A t \in Server : n \in Carried(t, s) => ~Local(s, n)
         /\ \A t \in Server : n \in Carried(t, s) /\ Known(s, n) => users[s][n].con = t
         /\ Known(s, n) => Session(users[s][n]) # Gone
         /\ ~Known(s, n) => View(s, n) = Gone
         /\ Known(s, n) /\ ~Local(s, n) => View(s, n) = Session(users[s][n]) /\ View(s, n) # Gone
<1>1. Local(s, n) => /\ s \in Home[n] /\ conn[s][users[s][n].con].class = "user"
                     /\ conn[s][users[s][n].con].nick = n /\ users[s][n].home = s
  BY DEF FlowInv, FromNear, IInv, EntriesHaveConnections, Local
<1>2. Local(s, n) => \A u \in Edge[s] : n \in Carried(s, u) /\ n \notin Carried(u, s)
  BY <1>1, Carrying DEF Settled, OneWay
<1>3. users[s][n].con \in Conn \cup Server \cup {None}
  BY DEF IInv, TypeOK, Entry
<1>4. Known(s, n) /\ ~Local(s, n) => n \in Carried(users[s][n].con, s) /\ users[s][n].con \in Servers(s)
  BY <1>3 DEF FlowInv, FromNear, IInv, EntriesHaveConnections, Known, Local
<1>5. \A t \in Server : n \in Carried(t, s) => t \in Edge[s]
  BY DEF Carried
<1>6. \A t \in Server : n \in Carried(t, s) => ~Local(s, n)
  BY <1>2, <1>5
<1>7. \A t, u \in Server : n \in Carried(t, s) /\ n \in Carried(u, s) => t = u
  BY DEF Carried
<1>8. \A t \in Server : n \in Carried(t, s) /\ Known(s, n) => users[s][n].con = t
  BY <1>4, <1>6, <1>7 DEF Servers
<1>9. Known(s, n) => Session(users[s][n]) # Gone
  <2>1. Known(s, n) => users[s][n].home \in Server
    BY DEF IInv, EntriesHaveHomes
  <2>2. None \notin Server
    BY DisjointNames
  <2> QED BY <2>1, <2>2 DEF Session, Gone
<1>10. ~Known(s, n) => View(s, n) = Gone
  BY DEF View, Shown
<1>11. Known(s, n) /\ ~Local(s, n) => View(s, n) = Session(users[s][n])
  BY DEF View, Shown
<1> HIDE DEF View, Gone, Session, Carried, Known, Local
<1> QED BY <1>1, <1>2, <1>4, <1>6, <1>8, <1>9, <1>10, <1>11

\* The message that s reads from t.
LEMMA HeadFits ==
  ASSUME Settled, IInv, FlowInv, NEW s \in Server, NEW t \in Server,
         end[s][t] = "up", chan[t][s] # <<>>
  PROVE  /\ Head(chan[t][s]) \in Message /\ Fits(t, s, Head(chan[t][s]))
         /\ t \in Edge[s] /\ s \in Edge[t] /\ s # t
<1>1. chan[t][s] \in Seq(Message)
  BY DEF IInv, TypeOK
<1>2. Directed(t, s) /\ LinkEnds(s, t)
  BY DEF FlowInv
<1>3. t \in Edge[s] /\ s \in Edge[t] /\ s # t
  BY <1>2, Carrying DEF Settled, OneWay, LinkEnds
<1>4. Head(chan[t][s]) \in Message
  BY <1>1, HeadTailProperties
<1>5. Fits(t, s, Head(chan[t][s]))
  BY <1>1, <1>2, DirectedStays DEF Directed
<1> QED BY <1>3, <1>4, <1>5

\* What s knows after reading is what the message says.
LEMMA ReadsAs ==
  ASSUME Settled, IInv, FlowInv, NEW s \in Server, NEW t \in Server,
         end[s][t] = "up", chan[t][s] # <<>>, Head(chan[t][s]) # Eof,
         Live(t, s) => \A z : \A n \in Carried(t, s) :
           TakesTo(Carried(t, s), Head(chan[t][s]), n, Views(s), z) => z[n] = Views(s)'[n]
  PROVE  Reads(s, t)
<1>1. chan[t][s] \in Seq(Message)
  BY DEF IInv, TypeOK
<1>2. ASSUME Live(t, s)
      PROVE  History(Carried(t, s), Views(s)', Tail(chan[t][s]), Views(t))
  <2>1. History(Carried(t, s), Views(s), chan[t][s], Views(t))
    BY <1>2 DEF FlowInv, Told
  <2>2. PICK z : /\ \A n \in Carried(t, s) : TakesTo(Carried(t, s), Head(chan[t][s]), n, Views(s), z)
                 /\ History(Carried(t, s), z, Tail(chan[t][s]), Views(t))
    BY <1>1, <2>1, HistoryRead
  <2>3. \A n \in Carried(t, s) : Views(s)'[n] = z[n]
    BY <1>2, <2>2
  <2>4. Tail(chan[t][s]) \in Seq(Message)
    BY <1>1, HeadTailProperties
  <2> QED BY <2>2, <2>3, <2>4, HistoryAlike
<1> QED BY <1>2 DEF Reads

\* A step that changes one entry of s and no connection leaves the other views.
LEMMA OthersStay ==
  ASSUME NEW s \in Server, NEW n \in Nick, \A k \in Nick \ {n} : users'[s][k] = users[s][k],
         conn'[s] = conn[s]
  PROVE  \A k \in Nick \ {n} : View(s, k)' = View(s, k)
BY DEF View, Shown, Known, Local

\* The messages of a new session, with a KILL for the one it replaces.
LEMMA ReplaceTold ==
  ASSUME NEW s \in Server, NEW n \in Nick, NEW e, NEW N, NEW x, NEW y, NEW K \in BOOLEAN,
         KillMsg(s, n) \in Message, LoginMsg(n, e) \in Message,
         y[n] = Session(e), \A k \in N \ {n} : y[k] = x[k], ~K => x[n] = Gone, N \subseteq Nick
  PROVE  History(N, x, (IF K THEN <<KillMsg(s, n)>> ELSE <<>>) \o <<LoginMsg(n, e)>>, y)
<1> DEFINE kill  == KillMsg(s, n)
           login == LoginMsg(n, e)
           mid   == [k \in Nick |-> IF k = n THEN Gone ELSE x[k]]
<1>1. /\ login.type = "LOGIN" /\ login.nick = n /\ Session(login) = Session(e)
      /\ kill.type = "KILL" /\ kill.nick = n /\ kill.by = s
  BY DEF LoginMsg, KillMsg, Session
<1>2. \A k \in N : mid[k] = IF k = n THEN Gone ELSE x[k]
  OBVIOUS
<1>3. \A k \in N : TakesTo(N, login, k, mid, y)
  BY <1>1, <1>2 DEF TakesTo, Begins, Ends
<1>4. \A k \in N : TakesTo(N, kill, k, x, mid)
  BY <1>1, <1>2 DEF TakesTo, Begins, Ends
<1>5. History(N, mid, <<login>>, y)
  BY <1>3, HistoryOne
<1>6. <<login>> \in Seq(Message) /\ <<kill>> \in Seq(Message) /\ <<>> \in Seq(Message)
  BY MessageSeqs
<1> HIDE DEF mid, login, kill
<1>7. CASE K
  <2>1. History(N, x, <<kill>>, mid)
    BY <1>4, HistoryOne
  <2>2. History(N, x, <<kill>> \o <<login>>, y)
    BY <1>5, <1>6, <2>1, HistoryJoin
  <2> QED BY <1>7, <2>2 DEF kill, login
<1>8. CASE ~K
  <2>1. \A k \in N : mid[k] = x[k]
    BY <1>2, <1>8
  <2>2. History(N, x, <<>>, mid)
    BY <2>1, HistoryNone
  <2>3. History(N, x, <<>> \o <<login>>, y)
    BY <1>5, <1>6, <2>2, HistoryJoin
  <2> QED BY <1>8, <2>3 DEF login
<1> QED BY <1>7, <1>8

-----------------------------------------------------------------------------
\* login() of a client, alone or over its ghost.
LEMMA LoginFlow ==
  ASSUME Settled, IInv, FlowInv, NEW s \in Server, NEW c \in Conn, NEW n \in Nick, NEW ip \in Addr,
         Login(s, c, n, ip)
  PROVE  FlowInv'
<1> DEFINE old   == users[s][n]
           new   == [con |-> c, ts |-> now, home |-> s, ip |-> ip]
           mine  == [class |-> "user", nick |-> n, destroy |-> FALSE, killed |-> FALSE]
           msgs  == (IF Known(s, n) THEN <<KillMsg(s, n)>> ELSE <<>>) \o <<LoginMsg(n, new)>>
<1>1. /\ users' = [users EXCEPT ![s][n] = new]
      /\ conn' = [conn EXCEPT ![s] = [Zap(s, old) EXCEPT ![c] = mine]]
      /\ chan' = PassOn(chan, s, None, msgs)
      /\ UNCHANGED end
      /\ conn[s][c] = Free /\ s \in Home[n]
  BY DEF Login
<1>2. /\ new.con = c /\ new.home = s /\ Session(new) = [ts |-> now, home |-> s]
      /\ mine.class = "user" /\ ~mine.killed /\ Zapped.class = "unknown" /\ Free.class = "free"
  BY DEF Session, Zapped, Free
<1>3. KillMsg(s, n) \in Message /\ LoginMsg(n, new) \in Message
  BY DEF LoginMsg, KillMsg, Message, IInv, TypeOK
<1>4. msgs \in Seq(Message)
  BY <1>3, MessageSeqs
<1> HIDE DEF new, mine
<1>5. \A k \in Nick : users'[s][k] = IF k = n THEN new ELSE users[s][k]
  BY <1>1 DEF IInv, TypeOK
<1>6. \A r \in Server \ {s} : users'[r] = users[r] /\ conn'[r] = conn[r]
  BY <1>1 DEF IInv, TypeOK
<1>7. \A d \in Conn : conn'[s][d] = IF d = c THEN mine
                        ELSE IF d = old.con THEN Zapped ELSE conn[s][d]
  <2>1. conn'[s] = [Zap(s, old) EXCEPT ![c] = mine]
    BY <1>1 DEF IInv, TypeOK
  <2>2. \A d \in Conn : Zap(s, old)[d] = IF d = old.con THEN Zapped ELSE conn[s][d]
    BY DEF Zap, IInv, TypeOK
  <2>3. DOMAIN Zap(s, old) = Conn
    BY DEF Zap, IInv, TypeOK
  <2> QED BY <2>1, <2>2, <2>3
<1>8. \A k \in Nick \ {n} : View(s, k)' = View(s, k)
  <2> SUFFICES ASSUME NEW k \in Nick \ {n} PROVE View(s, k)' = View(s, k)
    OBVIOUS
  <2>1. users'[s][k] = users[s][k]
    BY <1>5
  <2>2. CASE ~Local(s, k)
    BY <2>1, <2>2 DEF View, Shown, Known, Local
  <2>3. CASE Local(s, k)
    <3>1. users[s][k].con \in Conn /\ conn[s][users[s][k].con].class = "user"
          /\ conn[s][users[s][k].con].nick = k
      BY <2>3, NearBy DEF Local
    <3>2. users[s][k].con # c
      BY <1>1, <1>2, <3>1
    <3>3. old.con \in Conn => conn[s][old.con].nick = n
      BY NearBy DEF Local
    <3>4. conn'[s][users[s][k].con] = conn[s][users[s][k].con]
      BY <1>7, <3>1, <3>2, <3>3
    <3> QED BY <2>1, <3>4 DEF View, Shown, Known, Local
  <2> QED BY <2>2, <2>3
<1>9. View(s, n)' = Session(new)
  <2>1. users'[s][n] = new /\ conn'[s][c] = mine
    BY <1>5, <1>7
  <2>2. c # None
    BY DisjointNames
  <2> QED BY <1>2, <2>1, <2>2 DEF View, Shown, Known, Local
<1>10. ~Known(s, n) => View(s, n) = Gone
  BY NearBy
<1>11. \A u \in Edge[s] \ {None} : /\ History(Carried(s, u), Views(s), msgs, Views(s)')
                                   /\ \A i \in 1 .. Len(msgs) : Fits(s, u, msgs[i])
  <2> SUFFICES ASSUME NEW u \in Edge[s]
      PROVE  /\ History(Carried(s, u), Views(s), msgs, Views(s)')
             /\ \A i \in 1 .. Len(msgs) : Fits(s, u, msgs[i])
    OBVIOUS
  <2>1. Carried(s, u) \subseteq Nick
    BY DEF Carried
  <2>2. \A k \in Nick : Views(s)[k] = View(s, k) /\ Views(s)'[k] = View(s, k)'
    BY DEF Views
  <2>3. History(Carried(s, u), Views(s), msgs, Views(s)')
    <3>1. /\ Views(s)'[n] = Session(new)
          /\ \A k \in Carried(s, u) \ {n} : Views(s)'[k] = Views(s)[k]
          /\ ~Known(s, n) => Views(s)[n] = Gone
      BY <1>8, <1>9, <1>10, <2>1, <2>2
    <3>2. Known(s, n) \in BOOLEAN
      BY DEF Known
    <3> QED BY <1>3, <2>1, <3>1, <3>2, ReplaceTold
  <2>4. u \in Server /\ n \in Carried(s, u)
    BY <1>1, Carrying, Environment DEF Settled, OneWay
  <2>5. Fits(s, u, KillMsg(s, n)) /\ Fits(s, u, LoginMsg(n, new))
    BY <2>4 DEF Fits, KillMsg, LoginMsg
  <2>6. \A i \in 1 .. Len(msgs) : msgs[i] \in {KillMsg(s, n), LoginMsg(n, new)}
    BY <1>3
  <2> QED BY <2>3, <2>5, <2>6
<1>12. FromNear(s)'
  <2>1. c \notin Server
    BY DisjointNames
  <2> QED BY <1>1, <1>2, <1>5, <2>1 DEF FromNear, Local, FlowInv, Carried
<1>13. Marked(s)'
  BY <1>2, <1>7 DEF Marked, FlowInv
<1>14. \A k \in Nick : users'[s][k].con \in Server => users'[s][k].con \in {users[s][k].con, None}
  BY <1>2, <1>5, DisjointNames
<1>15. Spreads(s, None, msgs)
  <2>1. chan \in Chans /\ None \notin Server
    BY DisjointNames DEF IInv, TypeOK, Chans
  <2>2. \A r, u \in Server : PassOn(chan, s, None, msgs)[r][u] =
        IF r = s /\ u \in Servers(s) \ {None} /\ end[u][s] # "down" THEN chan[s][u] \o msgs ELSE chan[r][u]
    BY <2>1 DEF PassOn, Chans
  <2> HIDE DEF msgs
  <2> QED BY <1>1, <2>1, <2>2 DEF Spreads
<1>16. Reads(s, None) /\ None \notin Server
  BY DisjointNames DEF Reads
<1>17. \A k \in {n} : IF None \in Server THEN k \in Carried(None, s) ELSE s \in Home[k]
  BY <1>1, <1>16
<1> HIDE DEF msgs
<1>18. {n} \in SUBSET Nick /\ None \in Server \cup {None}
  OBVIOUS
<1>19. Spreading(s, None, msgs, {n})
  BY <1>1, <1>6, <1>8, <1>11, <1>12, <1>13, <1>14, <1>15, <1>16, <1>17 DEF Spreading
<1> QED BY <1>4, <1>18, <1>19, SpreadKeeps

\* A message about n, read from t, that changes the entry of n to e and is passed on as msgs.
NewsRead(s, t, n, e, msgs) ==
  /\ end[s][t] = "up" /\ chan[t][s] # <<>>
  /\ Head(chan[t][s]).type \in {"LOGIN", "QUIT", "KILL"} /\ Head(chan[t][s]).nick = n
  /\ users' = [users EXCEPT ![s][n] = e] /\ UNCHANGED <<conn, end>>
  /\ e.con \in {t, None}
  /\ Spreads(s, t, msgs)
  /\ \A u \in Edge[s] \ {t} : /\ History(Carried(s, u), Views(s), msgs, Views(s)')
                              /\ \A i \in 1 .. Len(msgs) : Fits(s, u, msgs[i])
  /\ Live(t, s) => \A z : TakesTo(Carried(t, s), Head(chan[t][s]), n, Views(s), z) => z[n] = View(s, n)'

\* Obeying a message about n keeps the invariant.
LEMMA NewsKeeps ==
  ASSUME Settled, IInv, FlowInv, NEW s \in Server, NEW t \in Server, NEW n \in Nick, NEW e,
         NEW msgs \in Seq(Message), NewsRead(s, t, n, e, msgs)
  PROVE  FlowInv'
<1> DEFINE m == Head(chan[t][s])
<1>0. /\ end[s][t] = "up" /\ chan[t][s] # <<>> /\ m.type \in {"LOGIN", "QUIT", "KILL"} /\ m.nick = n
      /\ users' = [users EXCEPT ![s][n] = e] /\ UNCHANGED <<conn, end>> /\ e.con \in {t, None}
      /\ Spreads(s, t, msgs)
  BY DEF NewsRead
<1>1. m \in Message /\ Fits(t, s, m) /\ t \in Edge[s] /\ s # t
  BY <1>0, HeadFits
<1>2. n \in Carried(t, s)
  BY <1>0, <1>1 DEF Fits
<1>3. \A r \in Server \ {s} : users'[r] = users[r] /\ conn'[r] = conn[r]
  BY <1>0 DEF IInv, TypeOK
<1>4. \A k \in Nick : users'[s][k] = IF k = n THEN e ELSE users[s][k]
  BY <1>0 DEF IInv, TypeOK
<1>5. \A k \in Nick \ {n} : View(s, k)' = View(s, k)
  BY <1>0, <1>4, OthersStay
<1>6. m # Eof
  BY <1>0 DEF Eof
<1>7. Reads(s, t)
  <2>1. ASSUME Live(t, s), NEW z, NEW k \in Carried(t, s), TakesTo(Carried(t, s), m, k, Views(s), z)
        PROVE  z[k] = Views(s)'[k]
    <3>1. k \in Nick
      BY DEF Carried
    <3>2. Views(s)'[k] = View(s, k)' /\ Views(s)[k] = View(s, k)
      BY <3>1 DEF Views
    <3>3. CASE k = n
      BY <2>1, <3>2, <3>3 DEF NewsRead
    <3>4. CASE k # n
      <4>1. z[k] = Views(s)[k]
        BY <1>0, <2>1, <3>4 DEF TakesTo, Begins, Ends
      <4> QED BY <1>5, <3>1, <3>2, <3>4, <4>1
    <3> QED BY <3>3, <3>4
  <2> QED BY <1>0, <1>6, <2>1, ReadsAs
<1>8. t \notin Conn /\ None \notin Conn /\ None \notin Server
  BY DisjointNames
<1>9. FromNear(s)'
  <2>1. FromNear(s)
    BY DEF FlowInv
  <2> QED BY <1>0, <1>2, <1>4, <1>8, <2>1 DEF FromNear, Local, Carried
<1>10. Marked(s)'
  BY <1>0 DEF Marked, FlowInv
<1>11. \A k \in Nick : users'[s][k].con \in Server => users'[s][k].con \in {users[s][k].con, t}
  BY <1>0, <1>4, <1>8
<1>12. \A k \in {n} : IF t \in Server THEN k \in Carried(t, s) ELSE s \in Home[k]
  BY <1>2
<1>13. Spreading(s, t, msgs, {n})
  BY <1>0, <1>3, <1>5, <1>7, <1>9, <1>10, <1>11, <1>12 DEF Spreading, NewsRead
<1> QED BY <1>13, SpreadKeeps

\* A message about n that changes nothing and is not passed on.
LEMMA NoNewsKeeps ==
  ASSUME Settled, IInv, FlowInv, NEW s \in Server, NEW t \in Server, NEW n \in Nick,
         end[s][t] = "up", chan[t][s] # <<>>,
         Head(chan[t][s]).type \in {"LOGIN", "QUIT", "KILL"}, Head(chan[t][s]).nick = n,
         UNCHANGED <<users, conn, end>>, chan' = Received(t, s),
         Live(t, s) => \A z : TakesTo(Carried(t, s), Head(chan[t][s]), n, Views(s), z) => z[n] = View(s, n)
  PROVE  FlowInv'
<1>1. Fits(t, s, Head(chan[t][s])) /\ t \in Edge[s] /\ s # t
  BY HeadFits
<1>2. n \in Carried(t, s)
  BY <1>1 DEF Fits
<1>3. users[s][n].con \in {t, None}
  BY <1>2, NearBy DEF Known
<1>4. users' = [users EXCEPT ![s][n] = users[s][n]]
  BY DEF IInv, TypeOK
<1>5. <<>> \in Seq(Message)
  BY MessageSeqs
<1>6. Spreads(s, t, <<>>)
  BY <1>1, <1>5, SpreadsAs
<1>7. Views(s)' = Views(s) /\ View(s, n)' = View(s, n)
  BY DEF Views, View, Shown, Known, Local
<1>8. \A u \in Edge[s] \ {t} : History(Carried(s, u), Views(s), <<>>, Views(s)')
  BY <1>7, HistoryNone
<1>9. \A i \in 1 .. Len(<<>>) : FALSE
  OBVIOUS
<1>10. NewsRead(s, t, n, users[s][n], <<>>)
  BY <1>3, <1>4, <1>6, <1>7, <1>8, <1>9 DEF NewsRead
<1> QED BY <1>5, <1>10, NewsKeeps

\* login() from a server: a LOGIN that is refused is for the session known already.
LEMMA RecvLoginFlow ==
  ASSUME Settled, IInv, FlowInv, NEW s \in Server, NEW t \in Server, RecvLogin(s, t)
  PROVE  FlowInv'
<1>0. PICK m, n : m = Head(chan[t][s]) /\ n = m.nick
  OBVIOUS
<1> DEFINE old   == users[s][n]
           new   == [con |-> t, ts |-> m.ts, home |-> m.home, ip |-> m.ip]
           msgs  == (IF Known(s, n) THEN <<KillMsg(s, n)>> ELSE <<>>) \o <<LoginMsg(n, new)>>
<1>01. /\ end[s][t] = "up" /\ chan[t][s] # <<>> /\ m.type = "LOGIN" /\ UNCHANGED end
  BY <1>0 DEF RecvLogin, Deliver
<1>1. m \in Message /\ Fits(t, s, m) /\ t \in Edge[s] /\ s # t
  BY <1>0, <1>01, HeadFits
<1>2. n \in Nick /\ m.ts \in Nat /\ m.home \in Server /\ m.ip \in Addr
  BY <1>0, <1>01, <1>1, MessageFields
<1>3. n \in Carried(t, s)
  BY <1>0, <1>01, <1>1 DEF Fits
<1>4. ~Local(s, n) /\ (Known(s, n) => View(s, n) = Session(old) /\ View(s, n) # Gone)
      /\ (~Known(s, n) => View(s, n) = Gone)
  BY <1>2, <1>3, NearBy
<1>5. Views(s)[n] = View(s, n)
  BY <1>2 DEF Views
<1>6. \A z : TakesTo(Carried(t, s), m, n, Views(s), z) =>
               View(s, n) \in {Gone, Session(m)} /\ z[n] = Session(m)
  BY <1>0, <1>01, <1>5 DEF TakesTo, Begins
<1>7. CASE Known(s, n) /\ ~Displaces(m, old)
  <2>1. chan' = Received(t, s) /\ UNCHANGED <<users, conn>>
    BY <1>0, <1>7 DEF RecvLogin
  <2>2. \A z : TakesTo(Carried(t, s), m, n, Views(s), z) => z[n] = View(s, n)
    BY <1>4, <1>6, <1>7
  <2> QED BY <1>0, <1>01, <1>2, <2>1, <2>2, NoNewsKeeps
<1>8. CASE ~(Known(s, n) /\ ~Displaces(m, old))
  <2>1. /\ users' = [users EXCEPT ![s][n] = new]
        /\ conn' = [conn EXCEPT ![s] = Zap(s, old)]
        /\ chan' = PassOn(Received(t, s), s, t, msgs)
    BY <1>0, <1>8 DEF RecvLogin
  <2>2. UNCHANGED conn
    BY <1>4, <2>1 DEF Zap, Local, IInv, TypeOK
  <2>3. KillMsg(s, n) \in Message /\ LoginMsg(n, new) \in Message
    BY <1>2 DEF LoginMsg, KillMsg, Message
  <2>4. msgs \in Seq(Message)
    BY <2>3, MessageSeqs
  <2>5. new.con = t /\ Session(new) = Session(m)
    BY DEF Session
  <2> HIDE DEF new
  <2>6. \A k \in Nick : users'[s][k] = IF k = n THEN new ELSE users[s][k]
    BY <1>2, <2>1 DEF IInv, TypeOK
  <2>7. View(s, n)' = Session(new)
    <3>1. users'[s][n] = new /\ t \notin Conn /\ t # None
      BY <1>2, <2>6, DisjointNames
    <3> QED BY <2>5, <3>1 DEF View, Shown, Known, Local
  <2>8. \A k \in Nick \ {n} : View(s, k)' = View(s, k)
    BY <1>2, <2>2, <2>6, OthersStay
  <2>9. ASSUME NEW u \in Edge[s] \ {t}
        PROVE  /\ History(Carried(s, u), Views(s), msgs, Views(s)')
               /\ \A i \in 1 .. Len(msgs) : Fits(s, u, msgs[i])
    <3>1. Carried(s, u) \subseteq Nick
      BY DEF Carried
    <3>2. \A k \in Nick : Views(s)[k] = View(s, k) /\ Views(s)'[k] = View(s, k)'
      BY DEF Views
    <3>3. /\ Views(s)'[n] = Session(new)
          /\ \A k \in Carried(s, u) \ {n} : Views(s)'[k] = Views(s)[k]
          /\ ~Known(s, n) => Views(s)[n] = Gone
      BY <1>2, <1>4, <2>7, <2>8, <3>1, <3>2
    <3>4. Known(s, n) \in BOOLEAN
      BY DEF Known
    <3>5. History(Carried(s, u), Views(s), msgs, Views(s)')
      BY <1>2, <2>3, <3>1, <3>3, <3>4, ReplaceTold
    <3>6. u \in Server /\ n \in Carried(s, u)
      <4>1. Edge[s] \subseteq Server
        BY Environment
      <4> QED BY <1>3, <4>1, Carrying DEF Settled, OneWay
    <3>7. Fits(s, u, KillMsg(s, n)) /\ Fits(s, u, LoginMsg(n, new))
      BY <3>6 DEF Fits, KillMsg, LoginMsg
    <3>8. \A i \in 1 .. Len(msgs) : msgs[i] \in {KillMsg(s, n), LoginMsg(n, new)}
      BY <2>3
    <3> QED BY <3>5, <3>7, <3>8
  <2> HIDE DEF msgs
  <2>10. Spreads(s, t, msgs)
    BY <1>1, <2>1, <2>4, SpreadsAs
  <2>11. \A z : TakesTo(Carried(t, s), m, n, Views(s), z) => z[n] = View(s, n)'
    BY <1>6, <2>5, <2>7
  <2>12. NewsRead(s, t, n, new, msgs)
    BY <1>0, <1>01, <2>1, <2>2, <2>5, <2>9, <2>10, <2>11 DEF NewsRead
  <2> QED BY <1>2, <2>4, <2>12, NewsKeeps
<1> QED BY <1>7, <1>8

\* A QUIT or KILL of n that removes the entry and is passed on.
LEMMA RemovalFlow ==
  ASSUME Settled, IInv, FlowInv, NEW s \in Server, NEW t \in Server, NEW n \in Nick, NEW m \in Message,
         end[s][t] = "up", chan[t][s] # <<>>, Head(chan[t][s]) = m,
         m.type \in {"QUIT", "KILL"}, m.nick = n,
         users' = [users EXCEPT ![s][n] = Absent], UNCHANGED <<conn, end>>,
         chan' = PassOn(Received(t, s), s, t, <<m>>),
         (m.type = "KILL" /\ m.by \notin Server) =>
            \A u \in Edge[s] \ {t} : m.by \in Carried(s, u) /\ View(s, m.by) # Gone
  PROVE  FlowInv'
<1>1. Fits(t, s, m) /\ t \in Edge[s] /\ s # t
  BY HeadFits
<1>2. n \in Carried(t, s)
  BY <1>1 DEF Fits
<1>3. <<m>> \in Seq(Message) /\ Len(<<m>>) = 1 /\ <<m>>[1] = m
  BY MessageSeqs
<1>4. \A k \in Nick : users'[s][k] = IF k = n THEN Absent ELSE users[s][k]
  BY DEF IInv, TypeOK
<1>5. View(s, n)' = Gone
  <2>1. users'[s][n].con = None
    BY <1>4 DEF Absent
  <2> QED BY <2>1 DEF View, Shown, Known
<1>6. \A k \in Nick \ {n} : View(s, k)' = View(s, k)
  BY <1>4, OthersStay
<1>7. ASSUME NEW u \in Edge[s] \ {t}
      PROVE  /\ History(Carried(s, u), Views(s), <<m>>, Views(s)')
             /\ \A i \in 1 .. Len(<<m>>) : Fits(s, u, <<m>>[i])
  <2>1. Carried(s, u) \subseteq Nick
    BY DEF Carried
  <2>2. \A k \in Nick : Views(s)[k] = View(s, k) /\ Views(s)'[k] = View(s, k)'
    BY DEF Views
  <2>3. u \in Server /\ n \in Carried(s, u)
    <3>1. Edge[s] \subseteq Server
      BY Environment
    <3> QED BY <1>2, <3>1, Carrying DEF Settled, OneWay
  <2>4. m.type = "KILL" => m.by \in Server \/ (m.by \in Carried(s, u) /\ Views(s)[m.by] # Gone)
    BY <2>1, <2>2
  <2>5. \A k \in Carried(s, u) : TakesTo(Carried(s, u), m, k, Views(s), Views(s)')
    BY <1>5, <1>6, <2>1, <2>2, <2>4 DEF TakesTo, Begins, Ends
  <2>6. History(Carried(s, u), Views(s), <<m>>, Views(s)')
    BY <2>5, HistoryOne
  <2>7. Fits(s, u, m)
    BY <1>1, <2>3 DEF Fits
  <2> QED BY <1>3, <2>6, <2>7
<1>8. Spreads(s, t, <<m>>)
  BY <1>1, <1>3, SpreadsAs
<1>9. \A z : TakesTo(Carried(t, s), m, n, Views(s), z) => z[n] = View(s, n)'
  BY <1>5 DEF TakesTo, Ends
<1>10. Absent.con = None
  BY DEF Absent
<1>11. NewsRead(s, t, n, Absent, <<m>>)
  BY <1>7, <1>8, <1>9, <1>10 DEF NewsRead
<1> QED BY <1>3, <1>11, NewsKeeps

\* client_quit(): a QUIT ends the session it is for.
LEMMA RecvQuitFlow ==
  ASSUME Settled, IInv, FlowInv, NEW s \in Server, NEW t \in Server, RecvQuit(s, t)
  PROVE  FlowInv'
<1> DEFINE m == Head(chan[t][s])
           n == m.nick
<1>0. /\ end[s][t] = "up" /\ chan[t][s] # <<>> /\ m.type = "QUIT" /\ UNCHANGED <<conn, end>>
  BY DEF RecvQuit, Deliver
<1>1. m \in Message /\ Fits(t, s, m)
  BY <1>0, HeadFits
<1>2. n \in Nick /\ n \in Carried(t, s) /\ m = QuitMsg(n)
  <2>1. n \in Nick
    BY <1>0, <1>1, MessageFields
  <2>2. m = QuitMsg(n)
    BY <1>0, <1>1 DEF Message, QuitMsg
  <2> QED BY <1>0, <1>1, <2>1, <2>2 DEF Fits
<1>3. ~Local(s, n) /\ (~Known(s, n) => View(s, n) = Gone)
  BY <1>2, NearBy
<1>4. CASE Known(s, n)
  <2>1. users' = [users EXCEPT ![s][n] = Absent] /\ chan' = PassOn(Received(t, s), s, t, <<m>>)
    BY <1>2, <1>3, <1>4 DEF RecvQuit
  <2> QED BY <1>0, <1>1, <1>2, <2>1, RemovalFlow
<1>5. CASE ~Known(s, n)
  <2>1. chan' = Received(t, s) /\ UNCHANGED users
    BY <1>5 DEF RecvQuit
  <2>2. \A z : TakesTo(Carried(t, s), m, n, Views(s), z) => z[n] = View(s, n)
    BY <1>0, <1>3, <1>5 DEF TakesTo, Ends
  <2> QED BY <1>0, <1>2, <2>1, <2>2, NoNewsKeeps
<1> QED BY <1>4, <1>5

\* kill_user() from a server: the killer of a user who is known is known too.
LEMMA RecvKillFlow ==
  ASSUME Settled, IInv, FlowInv, NEW s \in Server, NEW t \in Server, RecvKill(s, t)
  PROVE  FlowInv'
<1> DEFINE m == Head(chan[t][s])
           n == m.nick
           ok == /\ m.by \in Server \/ Known(s, m.by)
                 /\ Known(s, m.nick)
                 /\ m.by \in Server \/ MayKill(m.by, m.nick)
<1>0. /\ end[s][t] = "up" /\ chan[t][s] # <<>> /\ m.type = "KILL" /\ UNCHANGED end
  BY DEF RecvKill, Deliver
<1>1. m \in Message /\ Fits(t, s, m) /\ t \in Edge[s]
  BY <1>0, HeadFits
<1>2. n \in Nick /\ n \in Carried(t, s) /\ m.by \in Nick \cup Server
  BY <1>0, <1>1, MessageFields DEF Fits
<1>3. ~Local(s, n) /\ (~Known(s, n) => View(s, n) = Gone)
  BY <1>2, NearBy
<1>4. m.by \notin Server => /\ m.by \in Nick /\ MayKill(m.by, n)
                            /\ \A u, v \in Server : m.by \in Carried(v, u) <=> n \in Carried(v, u)
  <2> SUFFICES ASSUME m.by \notin Server
               PROVE  /\ m.by \in Nick /\ MayKill(m.by, n)
                      /\ \A u, v \in Server : m.by \in Carried(v, u) <=> n \in Carried(v, u)
    OBVIOUS
  <2>1. m.by \in Nick /\ MaxKills # 0 /\ MayKill(m.by, n)
    BY <1>0, <1>1, <1>2 DEF Fits
  <2>2. Home[m.by] = Home[n]
    BY <1>2, <2>1 DEF Settled
  <2> QED BY <1>2, <2>1, <2>2, Carrying DEF Settled, OneWay
<1>5. m.by \notin Server => m.by \in Carried(t, s) /\ ~Local(s, m.by)
         /\ (Known(s, m.by) => View(s, m.by) # Gone) /\ (~Known(s, m.by) => View(s, m.by) = Gone)
  BY <1>2, <1>4, NearBy
<1>6. CASE ok
  <2>1. KillEntry(s, n) /\ chan' = PassOn(Received(t, s), s, t, <<m>>)
    BY <1>6 DEF RecvKill
  <2>2. users' = [users EXCEPT ![s][n] = Absent] /\ UNCHANGED conn
    BY <1>3, <2>1 DEF KillEntry
  <2>3. (m.type = "KILL" /\ m.by \notin Server) =>
            \A u \in Edge[s] \ {t} : m.by \in Carried(s, u) /\ View(s, m.by) # Gone
    <3> SUFFICES ASSUME m.by \notin Server, NEW u \in Edge[s] \ {t}
                 PROVE  m.by \in Carried(s, u) /\ View(s, m.by) # Gone
      OBVIOUS
    <3>1. u \in Server
      BY Environment
    <3>2. n \in Carried(s, u)
      BY <1>2, <3>1, Carrying DEF Settled, OneWay
    <3> QED BY <1>4, <1>5, <1>6, <3>1, <3>2
  <2> QED BY <1>0, <1>1, <1>2, <2>1, <2>2, <2>3, RemovalFlow
<1>7. CASE ~ok
  <2>1. chan' = Received(t, s) /\ UNCHANGED <<users, conn>>
    BY <1>7 DEF RecvKill
  <2>2. \A z : TakesTo(Carried(t, s), m, n, Views(s), z) => z[n] = View(s, n)
    <3> SUFFICES ASSUME NEW z, TakesTo(Carried(t, s), m, n, Views(s), z) PROVE z[n] = View(s, n)
      OBVIOUS
    <3>1. z[n] = Gone /\ (m.by \in Server \/ (m.by \in Carried(t, s) /\ Views(s)[m.by] # Gone))
      BY <1>0 DEF TakesTo, Ends
    <3>2. m.by \notin Server => Views(s)[m.by] = View(s, m.by)
      BY <1>4 DEF Views
    <3>3. ~Known(s, n)
      BY <1>4, <1>5, <1>7, <3>1, <3>2
    <3> QED BY <1>3, <3>1, <3>3
  <2> QED BY <1>0, <1>2, <2>1, <2>2, NoNewsKeeps
<1> QED BY <1>6, <1>7 DEF RecvKill

\* What a step of s on its own connections tells its peers.
LEMMA SpreadsOwn ==
  ASSUME IInv, NEW s \in Server, NEW msgs \in Seq(Message), chan' = PassOn(chan, s, None, msgs)
  PROVE  Spreads(s, None, msgs)
<1>1. chan \in Chans /\ None \notin Server
  BY DisjointNames DEF IInv, TypeOK, Chans
<1>2. \A r, u \in Server : PassOn(chan, s, None, msgs)[r][u] =
        IF r = s /\ u \in Servers(s) \ {None} /\ end[u][s] # "down" THEN chan[s][u] \o msgs ELSE chan[r][u]
  BY <1>1 DEF PassOn, Chans
<1> QED BY <1>1, <1>2 DEF Spreads

\* A step at s that at most ends the session of the local user n, in its slot c.
EndsHere(s, n, msgs) ==
  /\ UNCHANGED end /\ Local(s, n)
  /\ \A r \in Server \ {s} : users'[r] = users[r] /\ conn'[r] = conn[r]
  /\ \A k \in Nick \ {n} : users'[s][k] = users[s][k]
  /\ users'[s][n] = users[s][n] \/ users'[s][n].con = None
  /\ \A d \in Conn \ {users[s][n].con} : conn'[s][d] = conn[s][d]
  /\ Spreads(s, None, msgs) /\ Marked(s)'
  /\ \/ View(s, n)' = View(s, n) /\ msgs = <<>>
     \/ View(s, n)' = Gone /\ msgs = <<QuitMsg(n)>>
     \/ /\ View(s, n)' = Gone /\ MaxKills # 0
        /\ \E m \in Nick : /\ msgs = <<KillMsg(m, n)>>
                           /\ MayKill(m, n) /\ View(s, m) # Gone

\* Such a step keeps the invariant.
LEMMA EndsHereKeeps ==
  ASSUME Settled, IInv, FlowInv, NEW s \in Server, NEW n \in Nick, NEW msgs \in Seq(Message),
         EndsHere(s, n, msgs)
  PROVE  FlowInv'
<1> USE DEF EndsHere
<1>1. /\ s \in Home[n] /\ \A u \in Edge[s] : n \in Carried(s, u)
  BY NearBy
<1>2. \A k \in Nick \ {n} : View(s, k)' = View(s, k)
  <2> SUFFICES ASSUME NEW k \in Nick \ {n} PROVE View(s, k)' = View(s, k)
    OBVIOUS
  <2>1. users'[s][k] = users[s][k]
    OBVIOUS
  <2>2. CASE ~Local(s, k)
    BY <2>1, <2>2 DEF View, Shown, Known, Local
  <2>3. CASE Local(s, k)
    <3>1. users[s][k].con \in Conn /\ conn[s][users[s][k].con].nick = k
          /\ conn[s][users[s][n].con].nick = n
      BY <2>3, NearBy DEF Local
    <3>2. conn'[s][users[s][k].con] = conn[s][users[s][k].con]
      BY <3>1
    <3> QED BY <2>1, <3>2 DEF View, Shown, Known, Local
  <2> QED BY <2>2, <2>3
<1>3. ASSUME NEW u \in Edge[s]
      PROVE  /\ History(Carried(s, u), Views(s), msgs, Views(s)')
             /\ \A i \in 1 .. Len(msgs) : Fits(s, u, msgs[i])
  <2>1. Carried(s, u) \subseteq Nick /\ n \in Carried(s, u) /\ u \in Server
    BY <1>1, Environment DEF Carried
  <2>2. \A k \in Nick : Views(s)[k] = View(s, k) /\ Views(s)'[k] = View(s, k)'
    BY DEF Views
  <2>3. CASE View(s, n)' = View(s, n) /\ msgs = <<>>
    <3>1. \A k \in Carried(s, u) : Views(s)[k] = Views(s)'[k]
      BY <1>2, <2>1, <2>2, <2>3
    <3>2. Len(msgs) = 0
      BY <2>3
    <3>3. History(Carried(s, u), Views(s), msgs, Views(s)')
      BY <2>3, <3>1, HistoryNone
    <3> QED BY <3>2, <3>3
  <2>4. ASSUME NEW m \in Message, msgs = <<m>>, View(s, n)' = Gone, Ends(m, n), Fits(s, u, m),
               m.type = "KILL" => m.by \in Nick /\ m.by \in Carried(s, u) /\ View(s, m.by) # Gone
        PROVE  /\ History(Carried(s, u), Views(s), msgs, Views(s)')
               /\ \A i \in 1 .. Len(msgs) : Fits(s, u, msgs[i])
    <3>1. \A k \in Carried(s, u) : TakesTo(Carried(s, u), m, k, Views(s), Views(s)')
      BY <1>2, <2>1, <2>2, <2>4 DEF TakesTo, Begins, Ends
    <3>2. History(Carried(s, u), Views(s), <<m>>, Views(s)')
      BY <3>1, HistoryOne
    <3>3. Len(msgs) = 1 /\ msgs[1] = m
      BY <2>4
    <3> QED BY <2>4, <3>2, <3>3
  <2>5. CASE View(s, n)' = Gone /\ msgs = <<QuitMsg(n)>>
    <3>1. QuitMsg(n) \in Message /\ Ends(QuitMsg(n), n) /\ QuitMsg(n).type # "KILL"
      BY DEF QuitMsg, Message, Ends
    <3>2. Fits(s, u, QuitMsg(n))
      BY <2>1 DEF Fits, QuitMsg
    <3> QED BY <2>4, <2>5, <3>1, <3>2
  <2>6. ASSUME View(s, n)' = Gone, MaxKills # 0, NEW m \in Nick, msgs = <<KillMsg(m, n)>>,
               MayKill(m, n), View(s, m) # Gone
        PROVE  /\ History(Carried(s, u), Views(s), msgs, Views(s)')
               /\ \A i \in 1 .. Len(msgs) : Fits(s, u, msgs[i])
    <3>1. Home[m] = Home[n]
      BY <2>6 DEF Settled
    <3>2. m \in Carried(s, u)
      BY <2>1, <3>1, Carrying DEF Settled, OneWay
    <3>3. KillMsg(m, n) \in Message /\ Ends(KillMsg(m, n), n) /\ KillMsg(m, n).by = m
      BY DEF KillMsg, Message, Ends
    <3>4. Fits(s, u, KillMsg(m, n))
      BY <2>1, <2>6 DEF Fits, KillMsg
    <3> QED BY <2>4, <2>6, <3>2, <3>3, <3>4
  <2> QED BY <2>3, <2>5, <2>6
<1>4. FromNear(s)'
  <2>1. FromNear(s)
    BY DEF FlowInv
  <2>2. None \notin Server /\ None \notin Conn
    BY DisjointNames
  <2> QED BY <2>1, <2>2 DEF FromNear, Local, Carried
<1>5. \A k \in Nick : users'[s][k].con \in Server => users'[s][k].con \in {users[s][k].con, None}
  BY DisjointNames
<1>6. Reads(s, None) /\ None \notin Server
  BY DisjointNames DEF Reads
<1>7. \A k \in {n} : IF None \in Server THEN k \in Carried(None, s) ELSE s \in Home[k]
  BY <1>1, <1>6
<1>8. Spreading(s, None, msgs, {n})
  BY <1>2, <1>3, <1>4, <1>5, <1>6, <1>7 DEF Spreading
<1> QED BY <1>8, SpreadKeeps

\* A logged-in connection is that of a local user.
LEMMA OwnEntry ==
  ASSUME IInv, NEW s \in Server, NEW c \in Conn, conn[s][c].class = "user"
  PROVE  LET n == conn[s][c].nick IN n \in Nick /\ Local(s, n) /\ users[s][n].con = c
BY DEF IInv, ConnectionsOwnEntries, Local

\* handle_connection() at the end of a user's stream: the peers hear nothing yet.
LEMMA DisconnectFlow ==
  ASSUME Settled, IInv, FlowInv, NEW s \in Server, NEW c \in Conn, Disconnect(s, c)
  PROVE  FlowInv'
<1>1. PICK n : n = conn[s][c].nick
  OBVIOUS
<1>2. n \in Nick /\ Local(s, n) /\ users[s][n].con = c /\ UNCHANGED <<end, users, chan>>
      /\ conn' = [conn EXCEPT ![s][c] = [@ EXCEPT !.destroy = TRUE]]
  BY <1>1, OwnEntry DEF Disconnect
<1>3. \A r \in Server \ {s} : conn'[r] = conn[r]
  BY <1>2 DEF IInv, TypeOK
<1>4. /\ \A d \in Conn \ {c} : conn'[s][d] = conn[s][d]
      /\ conn'[s][c].killed = conn[s][c].killed /\ conn'[s][c].destroy
      /\ conn'[s][c].class = conn[s][c].class
  <2>1. conn[s][c] \in Connection
    BY DEF IInv, TypeOK
  <2> QED BY <1>2, <2>1 DEF IInv, TypeOK, Connection
<1>5. View(s, n)' = View(s, n)
  BY <1>2, <1>4 DEF View, Shown, Known, Local
<1>6. Marked(s)'
  BY <1>4 DEF Marked, FlowInv
<1>7. Spreads(s, None, <<>>) /\ <<>> \in Seq(Message)
  BY <1>2, SpreadsNothing, MessageSeqs
<1>8. EndsHere(s, n, <<>>)
  BY <1>2, <1>3, <1>4, <1>5, <1>6, <1>7 DEF EndsHere
<1> QED BY <1>2, <1>7, <1>8, EndsHereKeeps

\* kill_user() from a local user: the user killed is local, and told to be gone.
LEMMA KillFlow ==
  ASSUME Settled, IInv, FlowInv, NEW s \in Server, NEW c \in Conn, NEW n \in Nick, Kill(s, c, n)
  PROVE  FlowInv'
<1>1. PICK m, d : m = conn[s][c].nick /\ d = users[s][n].con
  OBVIOUS
<1>2. /\ m \in Nick /\ Local(s, m) /\ users[s][m].con = c /\ UNCHANGED end
      /\ conn[s][c].class = "user" /\ ~conn[s][c].destroy
      /\ Known(s, n) /\ MayKill(m, n) /\ KillEntry(s, n)
      /\ chan' = PassOn(chan, s, None, <<KillMsg(m, n)>>)
  BY <1>1, OwnEntry DEF Kill
<1>3. MaxKills # 0
  BY Environment DEF Kill, IInv, TypeOK
<1>4. Local(s, n)
  <2>1. Home[m] = Home[n] /\ s \in Home[m]
    BY <1>2, <1>3, NearBy DEF Settled
  <2>2. CASE ~Local(s, n)
    <3>1. n \in Carried(d, s) /\ d \in Servers(s)
      BY <1>1, <1>2, <2>2, NearBy
    <3>2. d \in Edge[s]
      BY <3>1 DEF Carried
    <3> QED BY <2>1, <3>1, <3>2, Carrying DEF Settled, OneWay
  <2> QED BY <2>2
<1>5. View(s, m) # Gone
  <2>1. ~conn[s][c].killed
    BY <1>2 DEF FlowInv, Marked
  <2>2. c # None
    BY DisjointNames
  <2>3. View(s, m) = Session(users[s][m])
    BY <1>2, <2>1, <2>2 DEF View, Shown, Known
  <2>4. Known(s, m)
    BY <1>2, <2>2 DEF Known
  <2> QED BY <1>2, <2>3, <2>4, NearBy
<1>6. /\ d \in Conn /\ UNCHANGED users
      /\ conn' = [conn EXCEPT ![s][d] = [@ EXCEPT !.destroy = TRUE, !.killed = TRUE]]
  BY <1>1, <1>2, <1>4 DEF KillEntry, Local
<1>7. \A r \in Server \ {s} : conn'[r] = conn[r]
  BY <1>6 DEF IInv, TypeOK
<1>8. /\ \A e \in Conn \ {d} : conn'[s][e] = conn[s][e]
      /\ conn'[s][d].killed /\ conn'[s][d].destroy
  <2>1. conn[s][d] \in Connection
    BY <1>6 DEF IInv, TypeOK
  <2> QED BY <1>6, <2>1 DEF IInv, TypeOK, Connection
<1>9. View(s, n)' = Gone
  BY <1>1, <1>4, <1>6, <1>8 DEF View, Shown, Known, Local
<1>10. Marked(s)'
  BY <1>3, <1>8 DEF Marked, FlowInv
<1>11. <<KillMsg(m, n)>> \in Seq(Message)
  <2>1. KillMsg(m, n) \in Message
    BY <1>2 DEF KillMsg, Message
  <2> QED BY <2>1, MessageSeqs
<1>12. Spreads(s, None, <<KillMsg(m, n)>>)
  BY <1>2, <1>11, SpreadsOwn
<1>13. EndsHere(s, n, <<KillMsg(m, n)>>)
  BY <1>1, <1>2, <1>3, <1>4, <1>5, <1>6, <1>7, <1>8, <1>9, <1>10, <1>12 DEF EndsHere
<1> QED BY <1>11, <1>13, EndsHereKeeps

\* remove_connection() of a user: a QUIT, unless a KILL told of the end already.
LEMMA ReapUserFlow ==
  ASSUME Settled, IInv, FlowInv, NEW s \in Server, NEW c \in Conn, ReapUser(s, c)
  PROVE  FlowInv'
<1>1. PICK n : n = conn[s][c].nick
  OBVIOUS
<1>2. UNCHANGED end /\ conn' = [conn EXCEPT ![s][c] = Free]
  BY DEF ReapUser
<1>3. /\ \A r \in Server \ {s} : conn'[r] = conn[r]
      /\ \A d \in Conn : conn'[s][d] = IF d = c THEN Free ELSE conn[s][d]
  BY <1>2 DEF IInv, TypeOK
<1>4. Marked(s)'
  BY <1>3 DEF Marked, FlowInv, Free
<1>5. <<>> \in Seq(Message)
  BY MessageSeqs
<1>6. CASE conn[s][c].class = "user"
  <2>1. n \in Nick /\ Local(s, n) /\ users[s][n].con = c
    BY <1>1, <1>6, OwnEntry
  <2>2. users' = [users EXCEPT ![s][n] = Absent]
    BY <1>1, <1>6 DEF ReapUser
  <2>3. /\ \A r \in Server \ {s} : users'[r] = users[r]
        /\ \A k \in Nick \ {n} : users'[s][k] = users[s][k]
        /\ users'[s][n].con = None
    BY <2>1, <2>2 DEF IInv, TypeOK, Absent
  <2>4. View(s, n)' = Gone
    BY <2>3 DEF View, Shown, Known
  <2>5. CASE conn[s][c].killed
    <3>1. chan' = chan
      BY <2>5 DEF ReapUser, SaysQuit
    <3>2. View(s, n) = Gone
      BY <2>1, <2>5 DEF View, Shown
    <3>3. Spreads(s, None, <<>>)
      BY <3>1, SpreadsNothing
    <3>4. EndsHere(s, n, <<>>)
      BY <1>2, <1>3, <1>4, <2>1, <2>3, <2>4, <3>2, <3>3 DEF EndsHere
    <3> QED BY <1>5, <2>1, <3>4, EndsHereKeeps
  <2>6. CASE ~conn[s][c].killed
    <3>1. chan' = PassOn(chan, s, None, <<QuitMsg(n)>>)
      BY <1>1, <1>6, <2>6 DEF ReapUser, SaysQuit
    <3>2. <<QuitMsg(n)>> \in Seq(Message)
      <4>1. QuitMsg(n) \in Message
        BY <2>1 DEF QuitMsg, Message
      <4> QED BY <4>1, MessageSeqs
    <3>3. Spreads(s, None, <<QuitMsg(n)>>)
      BY <3>1, <3>2, SpreadsOwn
    <3>4. EndsHere(s, n, <<QuitMsg(n)>>)
      BY <1>2, <1>3, <1>4, <2>1, <2>3, <2>4, <3>3 DEF EndsHere
    <3> QED BY <2>1, <3>2, <3>4, EndsHereKeeps
  <2> QED BY <2>5, <2>6
<1>7. CASE conn[s][c].class # "user"
  <2>1. UNCHANGED <<users, chan>>
    BY <1>7 DEF ReapUser, SaysQuit
  <2>2. \A k \in Nick : View(s, k)' = View(s, k)
    <3> SUFFICES ASSUME NEW k \in Nick PROVE View(s, k)' = View(s, k)
      OBVIOUS
    <3>1. CASE ~Local(s, k)
      BY <2>1, <3>1 DEF View, Shown, Known, Local
    <3>2. CASE Local(s, k)
      <4>1. users[s][k].con \in Conn /\ users[s][k].con # c
        BY <1>7, <3>2, NearBy DEF Local
      <4>2. conn'[s][users[s][k].con] = conn[s][users[s][k].con]
        BY <1>3, <4>1
      <4> QED BY <2>1, <4>2 DEF View, Shown, Known, Local
    <3> QED BY <3>1, <3>2
  <2>3. Spreads(s, None, <<>>)
    BY <2>1, SpreadsNothing
  <2>4. Reads(s, None) /\ None \notin Server
    BY DisjointNames DEF Reads
  <2>5. FromNear(s)'
    BY <2>1 DEF FlowInv, FromNear, Local, Carried
  <2>6. \A u \in Edge[s] : History(Carried(s, u), Views(s), <<>>, Views(s)')
    <3>1. \A u \in Edge[s] : Carried(s, u) \subseteq Nick
      BY DEF Carried
    <3>2. \A k \in Nick : Views(s)[k] = Views(s)'[k]
      BY <2>2 DEF Views
    <3> QED BY <3>1, <3>2, HistoryNone
  <2>7. \A i \in 1 .. Len(<<>>) : FALSE
    OBVIOUS
  <2>8. Spreading(s, None, <<>>, {})
    BY <1>2, <1>3, <1>4, <2>1, <2>2, <2>3, <2>4, <2>5, <2>6, <2>7 DEF Spreading
  <2>9. {} \in SUBSET Nick /\ None \in Server \cup {None}
    OBVIOUS
  <2> QED BY <1>5, <2>8, <2>9, SpreadKeeps
<1> QED BY <1>6, <1>7

\* Nothing that the invariant speaks of changes.
LEMMA NothingFlows ==
  ASSUME FlowInv, UNCHANGED <<users, conn, end, chan>>
  PROVE  FlowInv'
<1>1. \A a, b \in Server : LinkEnds(a, b)'
  BY DEF FlowInv, LinkEnds, HasEof
<1>2. \A a, b \in Server : Directed(b, a)' /\ FromNear(a)' /\ Marked(a)'
  BY DEF FlowInv, Directed, Fits, FromNear, Marked, Local, Carried
<1>3. \A a, b \in Server : Live(b, a) => Told(b, a)
  BY DEF FlowInv
<1>4. \A a, b \in Server : Live(b, a)' = Live(b, a) /\ Told(b, a)' = Told(b, a)
  BY DEF Live, Told, Carried, Views, View, Shown, Known, Local
<1> QED BY <1>1, <1>2, <1>3, <1>4 DEF FlowInv

\* A link that fails is only marked.
LEMMA LinkFailsFlow ==
  ASSUME Settled, IInv, FlowInv, NEW s \in Server, NEW t \in Server, LinkFails(s, t)
  PROVE  FlowInv'
<1>1. end' = [end EXCEPT ![s][t] = "dying"] /\ end[s][t] = "up" /\ UNCHANGED <<users, conn, chan>>
  BY DEF LinkFails
<1>2. \A a, b \in Server : end'[a][b] = IF a = s /\ b = t THEN "dying" ELSE end[a][b]
  BY <1>1 DEF IInv, TypeOK
<1>3. \A a, b \in Server : LinkEnds(a, b)'
  BY <1>1, <1>2 DEF FlowInv, LinkEnds, HasEof
<1>4. \A a, b \in Server : Live(a, b)' <=> Live(a, b)
  BY <1>1, <1>2 DEF Live
<1>5. \A a, b \in Server : Directed(b, a)' /\ FromNear(a)' /\ Marked(a)'
  BY <1>1 DEF FlowInv, Directed, Fits, FromNear, Marked, Local, Carried
<1>6. \A a, b \in Server : Told(a, b)' = Told(a, b)
  BY <1>1 DEF Told, Carried, Views, View, Shown, Known, Local
<1> QED BY <1>3, <1>4, <1>5, <1>6 DEF FlowInv

\* Reading what says nothing of a nick leaves what is told.
LEMMA SilentRead ==
  ASSUME Settled, IInv, FlowInv, NEW s \in Server, NEW t \in Server,
         chan[t][s] # <<>>, Head(chan[t][s]).type \notin {"LOGIN", "QUIT", "KILL"},
         Live(t, s)
  PROVE  History(Carried(t, s), Views(s), Tail(chan[t][s]), Views(t))
<1>1. chan[t][s] \in Seq(Message) /\ Tail(chan[t][s]) \in Seq(Message)
  BY HeadTailProperties DEF IInv, TypeOK
<1>2. History(Carried(t, s), Views(s), chan[t][s], Views(t))
  BY DEF FlowInv, Told
<1>3. PICK z : /\ \A n \in Carried(t, s) : TakesTo(Carried(t, s), Head(chan[t][s]), n, Views(s), z)
               /\ History(Carried(t, s), z, Tail(chan[t][s]), Views(t))
  BY <1>1, <1>2, HistoryRead
<1>4. \A n \in Carried(t, s) : Views(s)[n] = z[n]
  BY <1>3 DEF TakesTo, Begins, Ends
<1> QED BY <1>1, <1>3, <1>4, HistoryAlike

\* What the reading of a message that is no news leaves in a channel.
LEMMA ReadDirected ==
  ASSUME IInv, FlowInv, NEW s \in Server, NEW t \in Server, chan[t][s] # <<>>
  PROVE  /\ \A i \in 1 .. Len(Tail(chan[t][s])) : Fits(t, s, Tail(chan[t][s])[i])
         /\ Tail(chan[t][s]) \in Seq(Message)
         /\ Head(chan[t][s]) # Eof /\ HasEof(chan[t][s]) => HasEof(Tail(chan[t][s]))
         /\ \A a, b \in Server : Received(t, s)[a][b] =
              IF a = t /\ b = s THEN Tail(chan[t][s]) ELSE chan[a][b]
<1>1. chan[t][s] \in Seq(Message) /\ Tail(chan[t][s]) \in Seq(Message) /\ chan \in Chans
  BY HeadTailProperties DEF IInv, TypeOK, Chans
<1>2. \A i \in 1 .. Len(Tail(chan[t][s])) : Fits(t, s, Tail(chan[t][s])[i])
  BY <1>1, DirectedStays DEF FlowInv, Directed
<1>3. Head(chan[t][s]) # Eof /\ HasEof(chan[t][s]) => HasEof(Tail(chan[t][s]))
  BY <1>1, EofStays
<1>4. \A a, b \in Server : Received(t, s)[a][b] = IF a = t /\ b = s THEN Tail(chan[t][s]) ELSE chan[a][b]
  BY <1>1 DEF Received, Chans
<1> QED BY <1>1, <1>2, <1>3, <1>4

\* The end of the peer's stream only marks the link.
LEMMA RecvEofFlow ==
  ASSUME Settled, IInv, FlowInv, NEW s \in Server, NEW t \in Server, RecvEof(s, t)
  PROVE  FlowInv'
<1>1. /\ end' = [end EXCEPT ![s][t] = "dying"] /\ end[s][t] = "up" /\ chan' = Received(t, s)
      /\ chan[t][s] # <<>> /\ Head(chan[t][s]).type = "EOF" /\ UNCHANGED <<users, conn>>
  BY DEF RecvEof, Deliver
<1>2. \A a, b \in Server : end'[a][b] = IF a = s /\ b = t THEN "dying" ELSE end[a][b]
  BY <1>1 DEF IInv, TypeOK
<1>3. \A a, b \in Server : chan'[a][b] = IF a = t /\ b = s THEN Tail(chan[t][s]) ELSE chan[a][b]
  BY <1>1, ReadDirected
<1>4. s # t
  BY <1>1, HeadFits
<1>5. \A a, b \in Server : LinkEnds(a, b)'
  <2> SUFFICES ASSUME NEW a \in Server, NEW b \in Server PROVE LinkEnds(a, b)'
    OBVIOUS
  <2>1. LinkEnds(a, b)
    BY DEF FlowInv
  <2> QED BY <1>1, <1>2, <1>3, <1>4, <2>1 DEF LinkEnds, HasEof
<1>6. \A a, b \in Server : Live(a, b)' <=> Live(a, b)
  BY <1>1, <1>2 DEF Live
<1>7. \A a, b \in Server : Directed(b, a)'
  <2> SUFFICES ASSUME NEW a \in Server, NEW b \in Server PROVE Directed(b, a)'
    OBVIOUS
  <2>1. \A i \in 1 .. Len(chan[b][a]) : Fits(b, a, chan[b][a][i])
    BY DEF FlowInv, Directed
  <2>2. \A i \in 1 .. Len(chan'[b][a]) : Fits(b, a, chan'[b][a][i])
    <3>1. CASE b = t /\ a = s
      <4>1. \A i \in 1 .. Len(Tail(chan[t][s])) : Fits(t, s, Tail(chan[t][s])[i])
        BY <1>1, ReadDirected
      <4> QED BY <1>3, <3>1, <4>1
    <3>2. CASE ~(b = t /\ a = s)
      BY <1>3, <2>1, <3>2
    <3> QED BY <3>1, <3>2
  <2> QED BY <2>2 DEF Directed, Fits, Carried
<1>8. \A a \in Server : FromNear(a)' /\ Marked(a)'
  BY <1>1 DEF FlowInv, FromNear, Marked, Local, Carried
<1>9. \A a \in Server : Views(a)' = Views(a)
  BY <1>1 DEF Views, View, Shown, Known, Local
<1>10. \A a, b \in Server : Live(a, b) => Told(a, b)'
  <2> SUFFICES ASSUME NEW a \in Server, NEW b \in Server, Live(a, b)
               PROVE  History(Carried(a, b), Views(b), chan'[a][b], Views(a))
    BY <1>9 DEF Told, Carried
  <2>1. CASE a = t /\ b = s
    BY <1>1, <1>3, <2>1, SilentRead
  <2>2. CASE ~(a = t /\ b = s)
    BY <1>3, <2>2 DEF FlowInv, Told
  <2> QED BY <2>1, <2>2
<1> QED BY <1>5, <1>6, <1>7, <1>8, <1>10 DEF FlowInv

-----------------------------------------------------------------------------
(* A sync and a split *)

\* The history of a batch with one message per nick.
LEMMA HistoryBatch ==
  ASSUME NEW N, NEW x, NEW y, NEW M \in Seq(Message),
         \A n \in N : y[n] = x[n] \/ \E i \in 1 .. Len(M) : M[i].nick = n,
         \/ \A i \in 1 .. Len(M) : /\ M[i].type = "LOGIN"
                                   /\ M[i].nick \in N => y[M[i].nick] = Session(M[i]) /\ x[M[i].nick] = Gone
         \/ \A i \in 1 .. Len(M) : /\ M[i].type = "QUIT"
                                   /\ M[i].nick \in N => y[M[i].nick] = Gone
  PROVE  History(N, x, M, y)
<1> DEFINE P(i, n) == \E j \in 1 .. i : M[j].nick = n
           v == [i \in 0 .. Len(M) |-> [n \in N |-> IF P(i, n) THEN y[n] ELSE x[n]]]
<1>1. Len(M) \in Nat
  BY LenProperties
<1>2. \A i \in 0 .. Len(M), n \in N : v[i][n] = IF P(i, n) THEN y[n] ELSE x[n]
  OBVIOUS
<1>3. \A n : ~P(0, n)
  OBVIOUS
<1>4. \A i \in 1 .. Len(M) : \A n : P(i, n) <=> P(i - 1, n) \/ M[i].nick = n
  <2> SUFFICES ASSUME NEW i \in 1 .. Len(M) PROVE \A n : P(i, n) <=> P(i - 1, n) \/ M[i].nick = n
    OBVIOUS
  <2>1. \A j : j \in 1 .. i <=> j \in 1 .. i - 1 \/ j = i
    BY <1>1
  <2> QED BY <2>1
<1>5. \A i, j \in 0 .. Len(M) : \A n : i < j /\ P(j, n) /\ ~P(i, n) => \E k \in i + 1 .. j : M[k].nick = n
  <2> SUFFICES ASSUME NEW i \in 0 .. Len(M), NEW j \in 0 .. Len(M), NEW n, i < j, P(j, n), ~P(i, n)
               PROVE  \E k \in i + 1 .. j : M[k].nick = n
    OBVIOUS
  <2>1. PICK k \in 1 .. j : M[k].nick = n
    OBVIOUS
  <2>2. k \in i + 1 .. j
    BY <1>1, <2>1
  <2> QED BY <2>1, <2>2
<1>6. \A i, j \in 0 .. Len(M) : \A n : i < j /\ P(i, n) => P(j, n)
  <2> SUFFICES ASSUME NEW i \in 0 .. Len(M), NEW j \in 0 .. Len(M), NEW n, i < j, P(i, n)
               PROVE  P(j, n)
    OBVIOUS
  <2>1. PICK k \in 1 .. i : M[k].nick = n
    OBVIOUS
  <2>2. k \in 1 .. j
    BY <1>1
  <2> QED BY <2>1, <2>2
<1> HIDE DEF v
<1>7. \A n \in N : v[0][n] = x[n] /\ v[Len(M)][n] = y[n]
  <2>1. 0 \in 0 .. Len(M) /\ Len(M) \in 0 .. Len(M)
    BY <1>1
  <2> QED BY <1>2, <1>3, <2>1
<1>8. ASSUME NEW n \in N, NEW i \in 1 .. Len(M) PROVE TakesTo(N, M[i], n, v[i - 1], v[i])
  <2>1. i - 1 \in 0 .. Len(M) /\ i \in 0 .. Len(M)
    BY <1>1
  <2>2. /\ v[i][n] = IF P(i, n) THEN y[n] ELSE x[n]
        /\ v[i - 1][n] = IF P(i - 1, n) THEN y[n] ELSE x[n]
        /\ P(i, n) <=> P(i - 1, n) \/ M[i].nick = n
    BY <1>2, <1>4, <2>1
  <2> HIDE DEF P
  <2>3. CASE M[i].nick = n
    BY <2>2, <2>3 DEF TakesTo, Begins, Ends
  <2>4. CASE M[i].nick # n
    BY <2>2, <2>4 DEF TakesTo, Begins, Ends
  <2> QED BY <2>3, <2>4
<1>9. ASSUME NEW n \in N, NEW i \in 0 .. Len(M), NEW j \in 0 .. Len(M), i < j
      PROVE  Lasts(M, n, v, i, j)
  <2>1. /\ v[i][n] = IF P(i, n) THEN y[n] ELSE x[n]
        /\ v[j][n] = IF P(j, n) THEN y[n] ELSE x[n]
        /\ P(i, n) => P(j, n)
    BY <1>2, <1>6, <1>9
  <2>2. CASE P(j, n) /\ ~P(i, n)
    <3>1. PICK k \in i + 1 .. j : M[k].nick = n
      BY <1>5, <1>9, <2>2
    <3>2. k \in 1 .. Len(M)
      BY <1>1
    <3>3. CASE M[k].type = "QUIT"
      BY <3>1, <3>3 DEF Lasts, Ends
    <3>4. CASE M[k].type # "QUIT"
      <4>1. x[n] = Gone
        BY <3>1, <3>2, <3>4
      <4> QED BY <2>1, <2>2, <4>1 DEF Lasts
    <3> QED BY <3>3, <3>4
  <2> HIDE DEF P
  <2>3. CASE P(j, n) <=> P(i, n)
    BY <2>1, <2>3 DEF Lasts
  <2> QED BY <2>1, <2>2, <2>3
<1>10. Passes(N, x, M, y, v)
  BY <1>7, <1>8, <1>9 DEF Passes
<1> QED BY <1>10 DEF History

\* The sync of a new link tells the peer, who knew nothing from here, of everyone here.
LEMMA SyncTold ==
  ASSUME Settled, IInv, FlowInv, NEW s \in Server, NEW t \in Server, t \in Edge[s], Calm(s),
         t \notin Servers(s), \A n \in Nick : users[t][n].con # s, NEW q \in Orders(KnownAt(s))
  PROVE  /\ SyncMsgs(s, q) \in Seq(Message)
         /\ History(Carried(s, t), Views(t), SyncMsgs(s, q), Views(s))
         /\ \A i \in 1 .. Len(SyncMsgs(s, q)) : Fits(s, t, SyncMsgs(s, q)[i])
<1> DEFINE M == SyncMsgs(s, q)
<1>1. KnownAt(s) \in SUBSET KnownAt(s) /\ KnownAt(s) \in SUBSET Nick
  BY DEF KnownAt
<1>2. M \in Seq(Message)
  BY <1>1, BatchTypes DEF IInv
<1>3. /\ DOMAIN q = 1 .. Len(M)
      /\ \A i \in 1 .. Len(M) : M[i] = LoginMsg(q[i], users[s][q[i]]) /\ q[i] \in KnownAt(s)
      /\ \A n \in KnownAt(s) : \E i \in 1 .. Len(M) : q[i] = n
  <2>1. DOMAIN q = 1 .. Cardinality(KnownAt(s)) /\ Cardinality(KnownAt(s)) \in Nat
        /\ \A i \in DOMAIN q : q[i] \in KnownAt(s)
    BY <1>1, OrdersType
  <2>2. Len(M) = Cardinality(KnownAt(s)) /\ \A i \in DOMAIN q : M[i] = LoginMsg(q[i], users[s][q[i]])
    BY <2>1 DEF SyncMsgs
  <2>3. \A n \in KnownAt(s) : \E i \in 1 .. Cardinality(KnownAt(s)) : q[i] = n
    BY DEF Orders
  <2> QED BY <2>1, <2>2, <2>3
<1> HIDE DEF M
<1>4. \A n \in KnownAt(s) : View(s, n) = Session(users[s][n])
  <2> SUFFICES ASSUME NEW n \in Nick, Known(s, n) PROVE Shown(s, n)
    BY DEF KnownAt, View
  <2>1. CASE Local(s, n) /\ conn[s][users[s][n].con].killed
    <3>1. users[s][n].con \in Conn /\ conn[s][users[s][n].con].class = "user"
      BY <2>1, NearBy DEF Local
    <3>2. MaxKills # 0
      BY <2>1, <3>1 DEF FlowInv, Marked
    <3> QED BY <2>1, <3>1, <3>2 DEF Settled, Calm
  <2> QED BY <2>1 DEF Shown
<1>5. \A n \in Carried(s, t) : Views(t)[n] = Gone
  <2>1. \A n \in Carried(s, t) : n \in Nick /\ ~Known(t, n)
    BY NearBy DEF Carried
  <2> QED BY <2>1, NearBy DEF Views
<1>6. \A n \in Nick : Views(s)[n] = View(s, n)
  BY DEF Views
<1>7. Carried(s, t) \subseteq Nick
  BY DEF Carried
<1>8. \A i \in 1 .. Len(M) : M[i].type = "LOGIN" /\ M[i].nick = q[i] /\ Session(M[i]) = Views(s)[q[i]]
  <2>1. \A i \in 1 .. Len(M) : q[i] \in Nick /\ View(s, q[i]) = Session(users[s][q[i]])
    BY <1>1, <1>3, <1>4
  <2>2. \A i \in 1 .. Len(M) : M[i].type = "LOGIN" /\ M[i].nick = q[i] /\ Session(M[i]) = Session(users[s][q[i]])
    <3>1. \A n, e : LoginMsg(n, e).type = "LOGIN" /\ LoginMsg(n, e).nick = n
                    /\ Session(LoginMsg(n, e)) = Session(e)
      BY DEF LoginMsg, Session
    <3> QED BY <1>3, <3>1
  <2> QED BY <1>6, <2>1, <2>2
<1>9. \A n \in Carried(s, t) : Views(s)[n] = Views(t)[n] \/ \E i \in 1 .. Len(M) : M[i].nick = n
  <2> SUFFICES ASSUME NEW n \in Carried(s, t)
               PROVE  Views(s)[n] = Views(t)[n] \/ \E i \in 1 .. Len(M) : M[i].nick = n
    OBVIOUS
  <2>1. CASE Known(s, n)
    BY <1>3, <1>7, <1>8, <2>1 DEF KnownAt
  <2>2. CASE ~Known(s, n)
    BY <1>5, <1>6, <1>7, <2>2, NearBy
  <2> QED BY <2>1, <2>2
<1>10. History(Carried(s, t), Views(t), M, Views(s))
  <2>1. \A i \in 1 .. Len(M) : /\ M[i].type = "LOGIN"
                               /\ M[i].nick \in Carried(s, t) =>
                                    Views(s)[M[i].nick] = Session(M[i]) /\ Views(t)[M[i].nick] = Gone
    BY <1>5, <1>8
  <2> QED BY <1>2, <1>9, <2>1, HistoryBatch
<1>11. \A i \in 1 .. Len(M) : Fits(s, t, M[i])
  <2> SUFFICES ASSUME NEW i \in 1 .. Len(M) PROVE q[i] \in Carried(s, t)
    BY <1>8 DEF Fits
  <2>1. q[i] \in Nick /\ Known(s, q[i])
    BY <1>3 DEF KnownAt
  <2>2. CASE Local(s, q[i])
    BY <2>1, <2>2, NearBy
  <2>3. CASE ~Local(s, q[i])
    <3>1. q[i] \in Carried(users[s][q[i]].con, s) /\ users[s][q[i]].con \in Servers(s)
      BY <2>1, <2>3, NearBy
    <3>2. users[s][q[i]].con \in Server /\ t \in Edge[s] \ {users[s][q[i]].con}
      BY <3>1 DEF Servers
    <3> QED BY <3>1, <3>2, Carrying DEF Settled, OneWay
  <2> QED BY <2>2, <2>3
<1> QED BY <1>2, <1>10, <1>11 DEF M

\* server_login_ack() at the first side of a new link.
LEMMA OpenFlow ==
  ASSUME Settled, IInv, FlowInv, NEW s \in Server, NEW t \in Server, Link(s, t)
  PROVE  FlowInv'
<1>1. PICK q \in Orders(KnownAt(s)) : Open(s, t, SyncMsgs(s, q))
  BY DEF Link
<1> DEFINE M == SyncMsgs(s, q)
<1>2. /\ t \in Edge[s] /\ Calm(s) /\ end[s][t] = "down" /\ end[t][s] = "down"
      /\ end' = [end EXCEPT ![s][t] = "up", ![t][s] = "pending"]
      /\ chan' = [chan EXCEPT ![s][t] = <<Ack>> \o M] /\ UNCHANGED <<users, conn>>
  BY <1>1 DEF Open
<1>3. s \in Edge[t] /\ s # t
  BY <1>2, Carrying DEF Settled, OneWay
<1>4. \A a, b \in Server : end'[a][b] = IF a = s /\ b = t THEN "up"
                                        ELSE IF a = t /\ b = s THEN "pending" ELSE end[a][b]
  <2> DEFINE f == [end EXCEPT ![s][t] = "up"]
  <2>1. /\ f \in [Server -> [Server -> {"down", "pending", "up", "dying"}]]
        /\ \A a, b \in Server : f[a][b] = IF a = s /\ b = t THEN "up" ELSE end[a][b]
    BY DEF IInv, TypeOK
  <2>2. end' = [f EXCEPT ![t][s] = "pending"]
    BY <1>2
  <2> HIDE DEF f
  <2>3. \A a, b \in Server : end'[a][b] = IF a = t /\ b = s THEN "pending" ELSE f[a][b]
    BY <2>1, <2>2
  <2> QED BY <1>3, <2>1, <2>3
<1>5. \A a, b \in Server : chan'[a][b] = IF a = s /\ b = t THEN <<Ack>> \o M ELSE chan[a][b]
  BY <1>2 DEF IInv, TypeOK
<1>51. t \in Edge[s] /\ end[s][t] = "down" /\ end[t][s] = "down" /\ users' = users /\ conn' = conn
  BY <1>2
<1>6. chan[s][t] = <<>> /\ chan[t][s] = <<>>
  BY <1>2 DEF FlowInv, LinkEnds
<1>7. t \notin Servers(s) /\ s \notin Servers(t)
  BY <1>2 DEF Servers
<1>8. \A n \in Nick : users[t][n].con # s /\ users[s][n].con # t
  BY <1>7 DEF IInv, EntriesHaveConnections
<1>9. /\ M \in Seq(Message) /\ History(Carried(s, t), Views(t), M, Views(s))
      /\ \A i \in 1 .. Len(M) : Fits(s, t, M[i])
  BY <1>2, <1>7, <1>8, SyncTold
<1> HIDE DEF M
<1>10. Ack \in Message /\ Ack.type = "ACK"
  BY DEF Ack, Message
<1>11. <<Ack>> \in Seq(Message) /\ Len(<<Ack>>) = 1 /\ <<Ack>>[1] = Ack
  BY <1>10, MessageSeqs
<1>12. History(Carried(s, t), Views(t), <<Ack>> \o M, Views(s))
  <2>1. \A n \in Carried(s, t) : TakesTo(Carried(s, t), Ack, n, Views(t), Views(t))
    BY <1>10 DEF TakesTo, Begins, Ends
  <2>2. History(Carried(s, t), Views(t), <<Ack>>, Views(t))
    BY <2>1, HistoryOne
  <2> QED BY <1>9, <1>11, <2>2, HistoryJoin
<1>13. \A a \in Server : Views(a)' = Views(a) /\ FromNear(a)' /\ Marked(a)'
  BY <1>2 DEF Views, View, Shown, Known, Local, FlowInv, FromNear, Marked, Carried
<1>14. ASSUME NEW a \in Server, NEW b \in Server PROVE LinkEnds(a, b)'
  <2>1. LinkEnds(a, b)
    BY DEF FlowInv
  <2>2. /\ end'[s][t] = "up" /\ end'[t][s] = "pending" /\ chan'[t][s] = <<>>
        /\ \A n \in Nick : users'[s][n].con # t
    BY <1>3, <1>4, <1>5, <1>6, <1>8, <1>51
  <2>3. CASE a = s /\ b = t
    BY <1>51, <2>2, <2>3 DEF LinkEnds
  <2>4. CASE a = t /\ b = s
    BY <1>3, <2>2, <2>4 DEF LinkEnds
  <2>5. CASE ~(a = s /\ b = t) /\ ~(a = t /\ b = s)
    <3>1. /\ end'[a][b] = end[a][b] /\ end'[b][a] = end[b][a]
          /\ chan'[a][b] = chan[a][b] /\ chan'[b][a] = chan[b][a] /\ users' = users
      BY <1>4, <1>5, <1>51, <2>5
    <3> QED BY <2>1, <3>1 DEF LinkEnds, HasEof
  <2> QED BY <2>3, <2>4, <2>5
<1>15. ASSUME NEW a \in Server, NEW b \in Server PROVE Directed(b, a)'
  <2>1. \A i \in 1 .. Len(chan[b][a]) : Fits(b, a, chan[b][a][i])
    BY DEF FlowInv, Directed
  <2>2. \A i \in 1 .. Len(<<Ack>>) : Fits(s, t, <<Ack>>[i])
    BY <1>10, <1>11 DEF Fits
  <2>3. \A i \in 1 .. Len(<<Ack>> \o M) : Fits(s, t, (<<Ack>> \o M)[i])
    BY <1>9, <1>11, <2>2, DirectedStays
  <2>4. \A i \in 1 .. Len(chan'[b][a]) : Fits(b, a, chan'[b][a][i])
    <3>1. CASE b = s /\ a = t
      BY <1>5, <2>3, <3>1
    <3>2. CASE ~(b = s /\ a = t)
      BY <1>5, <2>1, <3>2
    <3> QED BY <3>1, <3>2
  <2> QED BY <2>4 DEF Directed, Fits, Carried
<1>16. ASSUME NEW a \in Server, NEW b \in Server, Live(a, b)'
       PROVE  History(Carried(a, b), Views(b), chan'[a][b], Views(a))
  <2>1. CASE a = s /\ b = t
    BY <1>5, <1>12, <2>1
  <2>2. CASE ~(a = s /\ b = t)
    <3>1. ~(a = t /\ b = s)
      BY <1>3, <1>4, <1>16 DEF Live
    <3>2. Live(a, b)
      BY <1>4, <1>16, <2>2, <3>1 DEF Live
    <3> QED BY <1>5, <2>2, <3>2 DEF FlowInv, Told
  <2> QED BY <2>1, <2>2
<1>17. \A a, b \in Server : Live(a, b)' => Told(a, b)'
  BY <1>13, <1>16 DEF Told, Carried
<1> QED BY <1>13, <1>14, <1>15, <1>17 DEF FlowInv

\* server_login_ack() at the other side.
LEMMA RecvAckFlow ==
  ASSUME Settled, IInv, FlowInv, NEW s \in Server, NEW t \in Server, RecvAck(s, t)
  PROVE  FlowInv'
<1>1. PICK q \in Orders(KnownAt(s)) : Acknowledge(s, t, SyncMsgs(s, q))
  BY DEF RecvAck
<1> DEFINE M == SyncMsgs(s, q)
<1>2. /\ Calm(s) /\ end[s][t] = "pending" /\ chan[t][s] # <<>> /\ Head(chan[t][s]) = Ack
      /\ end' = [end EXCEPT ![s][t] = "up"]
      /\ chan' = IF end[t][s] # "down" THEN [Received(t, s) EXCEPT ![s][t] = @ \o M] ELSE Received(t, s)
      /\ UNCHANGED <<users, conn>>
  BY <1>1 DEF Acknowledge
<1>3. /\ t \in Edge[s] /\ s \in Edge[t] /\ s # t
      /\ chan[s][t] = <<>> /\ \A n \in Nick : users[t][n].con # s
      /\ end[t][s] # "pending"
  <2>1. LinkEnds(s, t) /\ LinkEnds(t, s)
    BY DEF FlowInv
  <2>2. t \in Edge[s] /\ chan[s][t] = <<>> /\ \A n \in Nick : users[t][n].con # s
    BY <1>2, <2>1 DEF LinkEnds
  <2>3. end[t][s] # "pending"
    BY <1>2, <2>1 DEF LinkEnds
  <2> QED BY <2>2, <2>3, Carrying DEF Settled, OneWay
<1>4. \A a, b \in Server : end'[a][b] = IF a = s /\ b = t THEN "up" ELSE end[a][b]
  BY <1>2 DEF IInv, TypeOK
<1>5. t \notin Servers(s)
  BY <1>2 DEF Servers
<1>6. /\ M \in Seq(Message) /\ History(Carried(s, t), Views(t), M, Views(s))
      /\ \A i \in 1 .. Len(M) : Fits(s, t, M[i])
  BY <1>2, <1>3, <1>5, SyncTold
<1> HIDE DEF M
<1>7. Ack.type = "ACK" /\ Ack # Eof
  BY DEF Ack, Eof
<1>8. \A a, b \in Server : chan'[a][b] = IF a = t /\ b = s THEN Tail(chan[t][s])
                                         ELSE IF a = s /\ b = t /\ end[t][s] # "down" THEN M ELSE chan[a][b]
  <2>1. \A a, b \in Server : Received(t, s)[a][b] = IF a = t /\ b = s THEN Tail(chan[t][s]) ELSE chan[a][b]
    BY <1>2, ReadDirected
  <2>2. <<>> \o M = M
    BY <1>6, ConcatEmptySeq
  <2>3. Received(t, s) \in Chans
    BY <1>2, ReceivedType DEF IInv, TypeOK, Chans
  <2>4. CASE end[t][s] # "down"
    <3>1. \A a, b \in Server : chan'[a][b] = IF a = s /\ b = t THEN Received(t, s)[s][t] \o M
                                             ELSE Received(t, s)[a][b]
      BY <1>2, <2>3, <2>4 DEF Chans
    <3>2. Received(t, s)[s][t] = <<>>
      BY <1>3, <2>1
    <3> QED BY <1>3, <2>1, <2>2, <2>4, <3>1, <3>2
  <2>5. CASE end[t][s] = "down"
    BY <1>2, <2>1, <2>5
  <2> QED BY <2>4, <2>5
<1>9. \A a \in Server : Views(a)' = Views(a) /\ FromNear(a)' /\ Marked(a)'
  BY <1>2 DEF Views, View, Shown, Known, Local, FlowInv, FromNear, Marked, Carried
<1>10. ASSUME NEW a \in Server, NEW b \in Server PROVE LinkEnds(a, b)'
  <2>1. LinkEnds(a, b)
    BY DEF FlowInv
  <2>2. CASE a = s /\ b = t
    <3>1. end[t][s] = "down" => HasEof(Tail(chan[t][s]))
      BY <1>2, <1>7, <2>1, <2>2, ReadDirected DEF LinkEnds
    <3>2. /\ end'[s][t] = "up" /\ end'[t][s] = end[t][s] /\ chan'[t][s] = Tail(chan[t][s])
      BY <1>3, <1>4, <1>8
    <3> QED BY <1>3, <2>2, <3>1, <3>2 DEF LinkEnds
  <2>3. CASE ~(a = s /\ b = t)
    <3>1. end'[a][b] = end[a][b]
      BY <1>4, <2>3
    <3>2. end[a][b] = "down" => chan'[b][a] = <<>>
      BY <1>8, <2>1, <2>3 DEF LinkEnds
    <3>3. end[a][b] = "pending" => chan'[a][b] = <<>>
      BY <1>3, <1>8, <2>1, <2>3 DEF LinkEnds
    <3>4. end'[b][a] = "down" /\ end[a][b] \in {"up", "pending"} => HasEof(chan'[b][a])
      BY <1>2, <1>4, <1>8, <2>1, <2>3 DEF LinkEnds
    <3>5. \A n \in Nick : users'[b][n].con = users[b][n].con
      BY <1>2
    <3> QED BY <2>1, <3>1, <3>2, <3>3, <3>4, <3>5 DEF LinkEnds
  <2> QED BY <2>2, <2>3
<1>11. ASSUME NEW a \in Server, NEW b \in Server PROVE Directed(b, a)'
  <2>1. \A i \in 1 .. Len(chan[b][a]) : Fits(b, a, chan[b][a][i])
    BY DEF FlowInv, Directed
  <2>2. \A i \in 1 .. Len(Tail(chan[t][s])) : Fits(t, s, Tail(chan[t][s])[i])
    BY <1>2, ReadDirected
  <2>3. \A i \in 1 .. Len(chan'[b][a]) : Fits(b, a, chan'[b][a][i])
    <3>1. CASE b = t /\ a = s
      BY <1>8, <2>2, <3>1
    <3>2. CASE b = s /\ a = t /\ end[t][s] # "down"
      BY <1>3, <1>6, <1>8, <3>2
    <3>3. CASE ~(b = t /\ a = s) /\ ~(b = s /\ a = t /\ end[t][s] # "down")
      BY <1>8, <2>1, <3>3
    <3> QED BY <3>1, <3>2, <3>3
  <2> QED BY <2>3 DEF Directed, Fits, Carried
<1>12. ASSUME NEW a \in Server, NEW b \in Server, Live(a, b)'
       PROVE  History(Carried(a, b), Views(b), chan'[a][b], Views(a))
  <2>1. CASE a = s /\ b = t
    BY <1>3, <1>4, <1>6, <1>8, <1>12, <2>1 DEF Live
  <2>2. CASE a = t /\ b = s
    <3>1. Live(t, s)
      BY <1>2, <1>3, <1>4, <1>12, <2>2 DEF Live
    <3> QED BY <1>2, <1>7, <1>8, <2>2, <3>1, SilentRead
  <2>3. CASE ~(a = s /\ b = t) /\ ~(a = t /\ b = s)
    <3>1. Live(a, b) /\ chan'[a][b] = chan[a][b]
      BY <1>4, <1>8, <1>12, <2>3 DEF Live
    <3> QED BY <3>1 DEF FlowInv, Told
  <2> QED BY <2>1, <2>2, <2>3
<1>13. \A a, b \in Server : Live(a, b)' => Told(a, b)'
  BY <1>9, <1>12 DEF Told, Carried
<1> QED BY <1>9, <1>10, <1>11, <1>13 DEF FlowInv

\* The QUITs of a split, one for each nick behind the link.
LEMMA SplitQuits ==
  ASSUME NEW S \in SUBSET Nick, NEW q \in Orders(S)
  PROVE  LET M == [i \in DOMAIN q |-> QuitMsg(q[i])]
         IN  /\ M \in Seq(Message)
             /\ \A i \in 1 .. Len(M) : M[i].type = "QUIT" /\ M[i].nick \in S
             /\ \A n \in S : \E i \in 1 .. Len(M) : M[i].nick = n
<1> DEFINE M == [i \in DOMAIN q |-> QuitMsg(q[i])]
<1>1. /\ DOMAIN q = 1 .. Cardinality(S) /\ Cardinality(S) \in Nat /\ \A i \in DOMAIN q : q[i] \in S
      /\ \A n \in S : \E i \in 1 .. Cardinality(S) : q[i] = n
  BY OrdersType DEF Orders
<1>2. \A n \in S : QuitMsg(n) \in Message /\ QuitMsg(n).type = "QUIT" /\ QuitMsg(n).nick = n
  BY DEF QuitMsg, Message
<1>3. \A i \in 1 .. Cardinality(S) : M[i] = QuitMsg(q[i]) /\ q[i] \in S
  BY <1>1
<1>4. M \in Seq(Message) /\ Len(M) = Cardinality(S)
  BY <1>1, <1>2
<1> HIDE DEF M
<1>5. \A i \in 1 .. Len(M) : M[i].type = "QUIT" /\ M[i].nick \in S
  BY <1>2, <1>3, <1>4
<1>6. \A n \in S : \E i \in 1 .. Len(M) : M[i].nick = n
  BY <1>1, <1>2, <1>3, <1>4
<1> QED BY <1>4, <1>5, <1>6 DEF M

\* What remove_connection() of a link leaves in the channels.
SplitChans(s, t, M) ==
  \A a, b \in Server :
    chan'[a][b] = IF a = t /\ b = s THEN <<>>
                  ELSE IF a = s /\ b = t
                       THEN IF end[t][s] = "down" THEN chan[s][t] ELSE chan[s][t] \o <<Eof>>
                  ELSE IF a = s /\ b \in Servers(s) /\ end[b][s] # "down"
                       THEN chan[s][b] \o M ELSE chan[a][b]

\* The same, as ReapLink writes it.
SplitOut(s, t, M) ==
  LET eof == IF end[t][s] = "down" THEN <<>> ELSE <<Eof>>
      out == [PassOn(chan, s, t, M) EXCEPT ![t][s] = <<>>]
  IN  chan' = [out EXCEPT ![s][t] = @ \o eof]

\* The channels after a split, one by one.
LEMMA SplitSends ==
  ASSUME NEW X, chan \in [Server -> [Server -> Seq(X)]],
         NEW s \in Server, NEW t \in Server, s # t, NEW M \in Seq(X), SplitOut(s, t, M)
  PROVE  SplitChans(s, t, M)
<1> DEFINE eof == IF end[t][s] = "down" THEN <<>> ELSE <<Eof>>
           ch  == PassOn(chan, s, t, M)
           out == [ch EXCEPT ![t][s] = <<>>]
<1>3. \A a, b \in Server : ch[a][b] =
        IF a = s /\ b \in Servers(s) \ {t} /\ end[b][s] # "down" THEN chan[s][b] \o M ELSE chan[a][b]
  BY DEF PassOn
<1>2. ch \in [Server -> [Server -> Seq(X)]]
  <2>1. \A a, b \in Server : chan[a][b] \in Seq(X) /\ chan[a][b] \o M \in Seq(X)
    BY ConcatProperties
  <2>2. ch = [ch EXCEPT ![s] = [b \in Server |-> ch[s][b]]] /\ DOMAIN ch = Server
    BY DEF PassOn
  <2>3. \A a, b \in Server : ch[a][b] \in Seq(X)
    BY <1>3, <2>1
  <2>4. \A a \in Server : ch[a] = [b \in Server |-> ch[a][b]]
    BY DEF PassOn
  <2> HIDE DEF ch
  <2>5. ch = [a \in Server |-> ch[a]]
    BY <2>2
  <2> QED BY <2>3, <2>4, <2>5
<1>4. chan' = [out EXCEPT ![s][t] = @ \o eof]
  BY DEF SplitOut
<1> HIDE DEF ch, eof
<1>5. /\ out \in [Server -> [Server -> Seq(X)]]
      /\ \A a, b \in Server : out[a][b] = IF a = t /\ b = s THEN <<>> ELSE ch[a][b]
  <2>1. <<>> \in Seq(X) /\ ch[t] \in [Server -> Seq(X)]
    BY <1>2
  <2>2. [ch[t] EXCEPT ![s] = <<>>] \in [Server -> Seq(X)]
    BY <2>1
  <2>3. out = [ch EXCEPT ![t] = [ch[t] EXCEPT ![s] = <<>>]]
    BY <1>2
  <2>4. out \in [Server -> [Server -> Seq(X)]]
    BY <1>2, <2>2, <2>3
  <2>5. \A a, b \in Server : out[a][b] = IF a = t /\ b = s THEN <<>> ELSE ch[a][b]
    BY <1>2
  <2> QED BY <2>4, <2>5
<1> HIDE DEF out
<1>6. \A a, b \in Server : chan'[a][b] = IF a = s /\ b = t THEN out[s][t] \o eof ELSE out[a][b]
  BY <1>4, <1>5
<1>7. out[s][t] \o eof = IF end[t][s] = "down" THEN chan[s][t] ELSE chan[s][t] \o <<Eof>>
  <2>1. out[s][t] = chan[s][t] /\ chan[s][t] \in Seq(X)
    BY <1>3, <1>5
  <2>2. chan[s][t] \o <<>> = chan[s][t]
    BY <2>1, ConcatEmptySeq
  <2> QED BY <2>1, <2>2 DEF eof
<1>8. \A a, b \in Server : ~(a = s /\ b = t) => chan'[a][b] = IF a = t /\ b = s THEN <<>> ELSE ch[a][b]
  BY <1>5, <1>6
<1>9. chan'[s][t] = IF end[t][s] = "down" THEN chan[s][t] ELSE chan[s][t] \o <<Eof>>
  BY <1>6, <1>7
<1> QED BY <1>3, <1>8, <1>9 DEF SplitChans

\* The two ends of every link after a split.
LEMMA SplitLinks ==
  ASSUME NEW X, Eof \in X, NEW s \in Server, NEW t \in Server, s # t, chan[s][t] \in Seq(X),
         NEW M, SplitChans(s, t, M),
         \A r, u \in Server : end'[r][u] = IF r = s /\ u = t THEN "down" ELSE end[r][u],
         \A r \in Server, n \in Nick : users'[r][n].con \in {users[r][n].con, None},
         \A n \in Nick : users'[s][n].con # t,
         NEW a \in Server, NEW b \in Server, LinkEnds(a, b)
  PROVE  LinkEnds(a, b)'
<1>1. CASE a = s /\ b = t
  <2>1. end'[s][t] = "down" /\ chan'[t][s] = <<>>
    BY DEF SplitChans
  <2> QED BY <1>1, <2>1 DEF LinkEnds
<1>2. CASE a = t /\ b = s
  <2>1. end'[t][s] = end[t][s] /\ chan'[t][s] = <<>>
    BY DEF SplitChans
  <2>3. end[t][s] = "down" => chan'[s][t] = <<>>
    BY <1>2 DEF SplitChans, LinkEnds
  <2>4. end[t][s] # "down" => HasEof(chan'[s][t])
    <3> SUFFICES ASSUME end[t][s] # "down" PROVE HasEof(chan'[s][t])
      OBVIOUS
    <3>1. chan'[s][t] = chan[s][t] \o <<Eof>>
      BY DEF SplitChans
    <3>2. <<Eof>> \in Seq(X)
      OBVIOUS
    <3>3. Len(chan[s][t]) \in Nat /\ Len(<<Eof>>) = 1 /\ <<Eof>>[1] = Eof
      BY <3>2, LenProperties
    <3>4. Len(chan[s][t] \o <<Eof>>) = Len(chan[s][t]) + 1
          /\ (chan[s][t] \o <<Eof>>)[Len(chan[s][t]) + 1] = Eof
      BY <3>2, <3>3, ConcatProperties
    <3>5. Len(chan[s][t]) + 1 \in 1 .. Len(chan[s][t]) + 1
      BY <3>3
    <3> QED BY <3>1, <3>4, <3>5 DEF HasEof
  <2> QED BY <1>2, <2>1, <2>3, <2>4 DEF LinkEnds
<1>3. CASE ~(a = s /\ b = t) /\ ~(a = t /\ b = s)
  <2>1. end'[a][b] = end[a][b] /\ end'[b][a] = end[b][a]
    BY <1>3
  <2>2. end[a][b] = "down" => chan'[b][a] = chan[b][a]
    BY <1>3 DEF SplitChans, LinkEnds
  <2>3. end[a][b] = "pending" => chan'[a][b] = chan[a][b]
    <3>1. end[a][b] = "pending" => b \notin Servers(a)
      BY DEF Servers
    <3> QED BY <1>3, <3>1 DEF SplitChans
  <2>4. end[b][a] = "down" => chan'[b][a] = chan[b][a]
    <3>1. end[b][a] = "down" => a \notin Servers(b)
      BY DEF Servers
    <3> QED BY <1>3, <3>1 DEF SplitChans
  <2>5. \A n \in Nick : users[b][n].con # a => users'[b][n].con # a
    BY DisjointNames
  <2> QED BY <2>1, <2>2, <2>3, <2>4, <2>5 DEF LinkEnds
<1> QED BY <1>1, <1>2, <1>3

\* remove_connection() of a server: everyone behind the link has quit, and everyone
\* behind it was learnt from it.
LEMMA ReapLinkFlow ==
  ASSUME Settled, IInv, FlowInv, NEW s \in Server, NEW t \in Server, ReapLink(s, t)
  PROVE  FlowInv'
<1> DEFINE gone == Behind(s, t)
<1>1. /\ end[s][t] = "dying" /\ end' = [end EXCEPT ![s][t] = "down"] /\ conn' = conn
      /\ users' = [users EXCEPT ![s] = [n \in Nick |-> IF n \in gone THEN Absent ELSE users[s][n]]]
  BY DEF ReapLink
<1>2. t \in Edge[s] /\ s \in Edge[t] /\ s # t
  BY <1>1, Carrying DEF Settled, OneWay, FlowInv, LinkEnds
<1>3. gone \in SUBSET Nick /\ gone \subseteq Carried(t, s) /\ \A n \in Nick : n \in gone <=> users[s][n].con = t
  <2>1. \A n \in Nick : users[s][n].con = t => n \in Carried(t, s)
    BY DEF FlowInv, FromNear
  <2> QED BY <2>1 DEF Behind
<1>4. PICK q \in Orders(gone) : SplitOut(s, t, [i \in DOMAIN q |-> QuitMsg(q[i])])
  BY DEF ReapLink, SplitOut
<1> DEFINE M == [i \in DOMAIN q |-> QuitMsg(q[i])]
<1>5. /\ M \in Seq(Message) /\ \A i \in 1 .. Len(M) : M[i].type = "QUIT" /\ M[i].nick \in gone
      /\ \A n \in gone : \E i \in 1 .. Len(M) : M[i].nick = n
  BY <1>3, <1>4, SplitQuits
<1>6. SplitChans(s, t, M)
  BY <1>2, <1>4, <1>5, SplitSends DEF IInv, TypeOK
<1> HIDE DEF M
<1>7. /\ \A a, b \in Server : end'[a][b] = IF a = s /\ b = t THEN "down" ELSE end[a][b]
      /\ \A r \in Server \ {s} : users'[r] = users[r]
      /\ \A n \in Nick : users'[s][n] = IF n \in gone THEN Absent ELSE users[s][n]
  BY <1>1 DEF IInv, TypeOK
<1>8. Absent.con = None /\ None \notin Server /\ None \notin Conn
  BY DisjointNames DEF Absent
<1> HIDE DEF gone
<1>9. /\ \A r \in Server \ {s} : Views(r)' = Views(r)
      /\ \A n \in gone : View(s, n)' = Gone
      /\ \A n \in Nick \ gone : View(s, n)' = View(s, n)
      /\ \A n \in Nick : Views(s)[n] = View(s, n) /\ Views(s)'[n] = View(s, n)'
  <2>1. \A r \in Server \ {s}, n \in Nick : View(r, n)' = View(r, n)
    BY <1>1, <1>7 DEF View, Shown, Known, Local
  <2>2. \A n \in gone : View(s, n)' = Gone
    BY <1>3, <1>7, <1>8 DEF View, Shown, Known
  <2>3. \A n \in Nick \ gone : View(s, n)' = View(s, n)
    BY <1>1, <1>7 DEF View, Shown, Known, Local
  <2> QED BY <2>1, <2>2, <2>3 DEF Views
<1>10. ASSUME NEW a \in Server, NEW b \in Server PROVE LinkEnds(a, b)'
  <2>1. Eof \in Message /\ chan[s][t] \in Seq(Message) /\ LinkEnds(a, b)
    BY DEF Eof, Message, IInv, TypeOK, FlowInv
  <2>2. /\ \A r \in Server, n \in Nick : users'[r][n].con \in {users[r][n].con, None}
        /\ \A n \in Nick : users'[s][n].con # t
    BY <1>3, <1>7, <1>8
  <2> QED BY <1>2, <1>6, <1>7, <2>1, <2>2, SplitLinks
<1>11. ASSUME NEW u \in Edge[s], u # t PROVE u \in Server /\ gone \subseteq Carried(s, u)
  BY <1>2, <1>3, <1>11, Carrying, Environment DEF Settled, OneWay
<1>12. ASSUME NEW a \in Server, NEW b \in Server PROVE Directed(a, b)'
  <2>1. chan[a][b] \in Seq(Message) /\ \A i \in 1 .. Len(chan[a][b]) : Fits(a, b, chan[a][b][i])
    BY DEF FlowInv, Directed, IInv, TypeOK
  <2>2. \A i \in 1 .. Len(chan'[a][b]) : Fits(a, b, chan'[a][b][i])
    <3>1. CASE a = t /\ b = s
      <4>1. chan'[a][b] = <<>> /\ 1 .. Len(<<>>) = {}
        BY <1>6, <3>1 DEF SplitChans
      <4> QED BY <4>1
    <3>2. CASE a = s /\ b = t
      <4>1. <<Eof>> \in Seq(Message) /\ \A i \in 1 .. Len(<<Eof>>) : Fits(a, b, <<Eof>>[i])
        BY MessageSeqs DEF Eof, Message, Fits
      <4>2. \A i \in 1 .. Len(chan[a][b] \o <<Eof>>) : Fits(a, b, (chan[a][b] \o <<Eof>>)[i])
        BY <2>1, <4>1, DirectedStays
      <4> QED BY <1>2, <1>6, <2>1, <3>2, <4>2 DEF SplitChans
    <3>3. CASE a = s /\ b # t /\ b \in Servers(s) /\ end[b][s] # "down"
      <4>1. b \in Edge[s]
        BY <3>3 DEF FlowInv, LinkEnds, Servers
      <4>2. \A i \in 1 .. Len(M) : Fits(a, b, M[i])
        BY <1>5, <1>11, <3>3, <4>1 DEF Fits
      <4>3. \A i \in 1 .. Len(chan[a][b] \o M) : Fits(a, b, (chan[a][b] \o M)[i])
        BY <1>5, <2>1, <4>2, DirectedStays
      <4>4. chan'[a][b] = chan[a][b] \o M
        BY <1>2, <1>6, <3>3 DEF SplitChans
      <4> QED BY <4>3, <4>4
    <3>4. CASE /\ ~(a = t /\ b = s) /\ ~(a = s /\ b = t)
               /\ ~(a = s /\ b # t /\ b \in Servers(s) /\ end[b][s] # "down")
      BY <1>6, <2>1, <3>4 DEF SplitChans
    <3> QED BY <3>1, <3>2, <3>3, <3>4
  <2> QED BY <2>2 DEF Directed, Fits, Carried
<1>13. ASSUME NEW a \in Server PROVE FromNear(a)' /\ Marked(a)'
  <2>1. FromNear(a) /\ Marked(a)
    BY DEF FlowInv
  <2>2. \A n \in Nick : users'[a][n] = users[a][n] \/ users'[a][n].con = None
    BY <1>7, <1>8
  <2>3. Marked(a)'
    BY <1>1, <2>1 DEF Marked
  <2>4. FromNear(a)'
    BY <1>8, <2>1, <2>2 DEF FromNear, Local, Carried
  <2> QED BY <2>3, <2>4
<1>14. ASSUME NEW a \in Server, NEW b \in Server, Live(a, b)'
       PROVE  History(Carried(a, b), Views(b)', chan'[a][b], Views(a)')
  <2>1. ~(a = s /\ b = t) /\ ~(a = t /\ b = s) /\ Live(a, b)
    BY <1>2, <1>7, <1>14 DEF Live
  <2>2. chan[a][b] \in Seq(Message) /\ History(Carried(a, b), Views(b), chan[a][b], Views(a))
    BY <2>1 DEF FlowInv, Told, IInv, TypeOK
  <2>3. b \in Edge[a] /\ a \in Edge[b] /\ a # b
    <3>1. end[b][a] # "down"
      BY <2>1 DEF Live
    <3> QED BY <3>1, Carrying DEF Settled, OneWay, FlowInv, LinkEnds
  <2>4. Carried(a, b) \subseteq Nick
    BY DEF Carried
  <2>5. CASE a = s
    <3>1. b \in Servers(s) /\ end[b][s] # "down" /\ b # t
      BY <2>1, <2>5 DEF Live, Servers
    <3>2. chan'[a][b] = chan[a][b] \o M
      BY <1>2, <1>6, <2>5, <3>1 DEF SplitChans
    <3>3. Views(b)' = Views(b)
      BY <1>9, <2>3, <2>5
    <3>4. History(Carried(a, b), Views(a), M, Views(a)')
      <4>1. \A n \in Carried(a, b) : Views(a)'[n] = Views(a)[n] \/ \E i \in 1 .. Len(M) : M[i].nick = n
        BY <1>5, <1>9, <2>4, <2>5
      <4>2. \A i \in 1 .. Len(M) : /\ M[i].type = "QUIT"
                                   /\ M[i].nick \in Carried(a, b) => Views(a)'[M[i].nick] = Gone
        BY <1>3, <1>5, <1>9, <2>5
      <4> QED BY <1>5, <4>1, <4>2, HistoryBatch
    <3> QED BY <1>5, <2>2, <3>2, <3>3, <3>4, HistoryJoin
  <2>6. CASE b = s
    <3>1. chan'[a][b] = chan[a][b]
      BY <1>6, <2>1, <2>3, <2>6 DEF SplitChans
    <3>2. \A n \in Carried(a, b) : n \notin gone
      <4>1. a \in Edge[s] /\ a # t
        BY <2>1, <2>3, <2>6
      <4> QED BY <1>11, <2>6, <4>1, Carrying DEF Settled, OneWay
    <3>3. \A n \in Carried(a, b) : Views(b)'[n] = Views(b)[n] /\ Views(a)'[n] = Views(a)[n]
      BY <1>9, <2>3, <2>4, <2>6, <3>2
    <3> QED BY <2>2, <3>1, <3>3, HistoryAlike
  <2>7. CASE a # s /\ b # s
    <3>1. chan'[a][b] = chan[a][b] /\ Views(b)' = Views(b) /\ Views(a)' = Views(a)
      BY <1>6, <1>9, <2>7 DEF SplitChans
    <3> QED BY <2>2, <3>1
  <2> QED BY <2>5, <2>6, <2>7
<1>15. \A a, b \in Server : Live(a, b)' => Told(a, b)'
  BY <1>14 DEF Told, Carried
<1> QED BY <1>10, <1>12, <1>13, <1>15 DEF FlowInv

\* Nobody is known when the servers start.
LEMMA InitFlow == Settled /\ Init => FlowInv
<1> SUFFICES ASSUME Settled, Init PROVE FlowInv
  OBVIOUS
<1>1. /\ \A s \in Server, n \in Nick : users[s][n].con = None
      /\ \A s \in Server, c \in Conn : conn[s][c].class = "free"
      /\ \A s, t \in Server : end[s][t] = IF Linked0 /\ t \in Edge[s] THEN "up" ELSE "down"
      /\ \A s, t \in Server : chan[s][t] = <<>>
  BY DEF Init, Absent, Free
<1>2. \A s, t \in Server : t \in Edge[s] => s \in Edge[t]
  BY Carrying DEF Settled, OneWay
<1>3. \A s, t \in Server : LinkEnds(s, t)
  BY <1>1, <1>2 DEF LinkEnds
<1>4. \A s, t \in Server : Directed(t, s)
  <2>1. \A i \in 1 .. Len(<<>>) : FALSE
    OBVIOUS
  <2> QED BY <1>1, <2>1 DEF Directed
<1>5. \A s \in Server : FromNear(s) /\ Marked(s)
  BY <1>1, DisjointNames DEF FromNear, Marked, Local
<1>6. \A s, t \in Server : Told(t, s)
  <2> SUFFICES ASSUME NEW s \in Server, NEW t \in Server PROVE Told(t, s)
    OBVIOUS
  <2>1. \A n \in Nick : Views(s)[n] = Gone /\ Views(t)[n] = Gone
    BY <1>1 DEF Views, View, Shown, Known
  <2>2. \A n \in Carried(t, s) : Views(s)[n] = Views(t)[n]
    BY <2>1 DEF Carried
  <2> QED BY <1>1, <2>2, HistoryNone DEF Told
<1> QED BY <1>3, <1>4, <1>5, <1>6 DEF FlowInv

\* Every step of every server keeps what is known and what is under way in balance.
LEMMA NextFlow == Settled /\ IInv /\ FlowInv /\ [Next]_vars => FlowInv'
<1> SUFFICES ASSUME Settled, IInv, FlowInv, [Next]_vars PROVE FlowInv'
  OBVIOUS
<1>1. CASE Tick \/ UNCHANGED vars
  BY <1>1, NothingFlows DEF Tick, vars
<1>2. ASSUME NEW s \in Server, EndRead(s) PROVE FlowInv'
  BY <1>2, NothingFlows DEF EndRead
<1>3. ASSUME NEW s \in Server, ClientStep(s) PROVE FlowInv'
  BY <1>3, LoginFlow, DisconnectFlow, KillFlow DEF ClientStep
<1>4. ASSUME NEW s \in Server, LinkStep(s) PROVE FlowInv'
  BY <1>4, OpenFlow, LinkFailsFlow DEF LinkStep
<1>5. ASSUME NEW s \in Server, NEW t \in Server, Receive(s, t) PROVE FlowInv'
  BY <1>5, RecvLoginFlow, RecvQuitFlow, RecvKillFlow, RecvAckFlow, RecvEofFlow DEF Receive
<1>6. ASSUME NEW s \in Server, Reap(s) PROVE FlowInv'
  BY <1>6, ReapUserFlow, ReapLinkFlow DEF Reap
<1> QED BY <1>1, <1>2, <1>3, <1>4, <1>5, <1>6 DEF Next

\* An entry that is not in use says nothing.
AbsentEntries == \A s \in Server, n \in Nick : ~Known(s, n) => users[s][n] = Absent

\* free_user() and the handlers leave no half of an entry.
LEMMA NextAbsent == IInv /\ AbsentEntries /\ [Next]_vars => AbsentEntries'
<1> SUFFICES ASSUME IInv, AbsentEntries, [Next]_vars PROVE AbsentEntries'
  OBVIOUS
<1> USE DEF AbsentEntries, Known
<1>1. None \notin Server \cup Conn /\ users \in [Server -> [Nick -> Entry]]
  BY DisjointNames DEF IInv, TypeOK
<1>2. ASSUME NEW s \in Server, NEW n, NEW e, users' = [users EXCEPT ![s][n] = e],
             e.con # None \/ e = Absent
      PROVE  AbsentEntries'
  <2>1. \A r \in Server, k \in Nick : users'[r][k] = IF r = s /\ k = n THEN e ELSE users[r][k]
    BY <1>1, <1>2
  <2> QED BY <1>2, <2>1
<1>3. CASE UNCHANGED users
  BY <1>3
<1>4. ASSUME NEW s \in Server, ClientStep(s) PROVE AbsentEntries'
  <2>1. ASSUME NEW c \in Conn, NEW n \in Nick, NEW ip \in Addr, Login(s, c, n, ip) PROVE AbsentEntries'
    <3> DEFINE e == [con |-> c, ts |-> now, home |-> s, ip |-> ip]
    <3>1. users' = [users EXCEPT ![s][n] = e] /\ e.con # None
      BY <1>1, <2>1 DEF Login
    <3> HIDE DEF e
    <3> QED BY <1>2, <3>1
  <2>2. ASSUME NEW c \in Conn, NEW n \in Nick, Kill(s, c, n) PROVE AbsentEntries'
    BY <1>2, <1>3, <2>2 DEF Kill, KillEntry
  <2>3. ASSUME NEW c \in Conn, Disconnect(s, c) PROVE AbsentEntries'
    BY <1>3, <2>3 DEF Disconnect
  <2> QED BY <1>4, <2>1, <2>2, <2>3 DEF ClientStep
<1>5. ASSUME NEW s \in Server, NEW t \in Server, Receive(s, t) PROVE AbsentEntries'
  <2>1. CASE RecvLogin(s, t)
    <3> DEFINE m == Head(chan[t][s])
               e == [con |-> t, ts |-> m.ts, home |-> m.home, ip |-> m.ip]
    <3>1. UNCHANGED users \/ users' = [users EXCEPT ![s][m.nick] = e]
      BY <2>1 DEF RecvLogin
    <3>2. e.con # None
      BY <1>1
    <3> HIDE DEF e
    <3>3. CASE users' = [users EXCEPT ![s][m.nick] = e]
      BY <1>2, <3>2, <3>3
    <3> QED BY <1>3, <3>1, <3>3
  <2>2. CASE RecvQuit(s, t)
    BY <1>2, <1>3, <2>2 DEF RecvQuit
  <2>3. CASE RecvKill(s, t)
    BY <1>2, <1>3, <2>3 DEF RecvKill, KillEntry
  <2>4. CASE RecvAck(s, t) \/ RecvEof(s, t)
    BY <1>3, <2>4, LinkTypes
  <2> QED BY <1>5, <2>1, <2>2, <2>3, <2>4 DEF Receive
<1>6. ASSUME NEW s \in Server, Reap(s) PROVE AbsentEntries'
  <2>1. ASSUME NEW c \in Conn, ReapUser(s, c) PROVE AbsentEntries'
    BY <1>2, <1>3, <2>1 DEF ReapUser
  <2>2. ASSUME NEW t \in Server, ReapLink(s, t) PROVE AbsentEntries'
    <3>1. users' = [users EXCEPT ![s] = [n \in Nick |->
                      IF n \in Behind(s, t) THEN Absent ELSE users[s][n]]]
      BY <2>2 DEF ReapLink
    <3>2. \A r \in Server, k \in Nick :
            users'[r][k] = IF r = s /\ k \in Behind(s, t) THEN Absent ELSE users[r][k]
      BY <1>1, <3>1
    <3> QED BY <3>2
  <2> QED BY <1>6, <2>1, <2>2 DEF Reap
<1>7. ASSUME NEW s \in Server, LinkStep(s) PROVE AbsentEntries'
  BY <1>3, <1>7, LinkTypes DEF LinkStep
<1> QED BY <1>3, <1>4, <1>5, <1>6, <1>7 DEF Next, Tick, EndRead, vars

\* The tables start empty.
LEMMA InitAbsent == Init => AbsentEntries
BY DEF Init, AbsentEntries

\* What the invariant says of an entry learnt over a link.
LEMMA BackedFlow == Settled /\ IInv /\ FlowInv => Backed
<1> SUFFICES ASSUME Settled, IInv, FlowInv, NEW s \in Server, NEW t \in Server, NEW n \in Nick,
                    users[s][n].con = t, end[s][t] # "dying"
             PROVE  \/ Known(t, n) /\ SameSession(s, t, n) /\ users[t][n].con # s
                    \/ \E i \in 1 .. Len(chan[t][s]) :
                         chan[t][s][i] = Eof \/ Ends(chan[t][s][i], n)
  BY DEF Backed, Ends
<1>1. Known(s, n) /\ ~Local(s, n)
  BY DisjointNames DEF Known, Local
<1>2. n \in Carried(t, s) /\ end[s][t] = "up" /\ View(s, n) = Session(users[s][n]) /\ View(s, n) # Gone
  BY <1>1, NearBy DEF Servers
<1>3. users[t][n].con # s
  <2>1. s \in Server /\ n \notin Carried(s, t)
    BY <1>2, Carrying DEF Settled, OneWay
  <2> QED BY <2>1 DEF FlowInv, FromNear
<1>4. LinkEnds(s, t) /\ LinkEnds(t, s)
  BY DEF FlowInv
<1>5. end[t][s] # "pending"
  BY <1>4 DEF LinkEnds
<1>6. CASE end[t][s] = "down"
  BY <1>2, <1>4, <1>6 DEF LinkEnds, HasEof
<1>7. CASE end[t][s] \in {"up", "dying"}
  <2>1. Live(t, s)
    BY <1>2, <1>7 DEF Live
  <2>2. History(Carried(t, s), Views(s), chan[t][s], Views(t)) /\ chan[t][s] \in Seq(Message)
    BY <2>1 DEF FlowInv, Told, IInv, TypeOK
  <2>3. Views(s)[n] = View(s, n) /\ Views(t)[n] = View(t, n)
    BY DEF Views
  <2>4. CASE View(t, n) = View(s, n)
    <3>1. Known(t, n) /\ Session(users[t][n]) = Session(users[s][n])
      BY <1>2, <2>4 DEF View, Shown
    <3>2. SameSession(s, t, n)
      BY <3>1 DEF Session, SameSession
    <3> QED BY <1>3, <3>1, <3>2
  <2>5. CASE View(t, n) # View(s, n)
    <3>1. \E k \in 1 .. Len(chan[t][s]) : Ends(chan[t][s][k], n)
      BY <1>2, <2>2, <2>3, <2>5, HistoryLasts
    <3> QED BY <3>1
  <2> QED BY <2>4, <2>5
<1>8. end[t][s] \in {"down", "pending", "up", "dying"}
  BY DEF IInv, TypeOK
<1> QED BY <1>5, <1>6, <1>7, <1>8

\* With nothing under way, the views of linked servers are the same.
LEMMA AgreementFlow == Settled /\ IInv /\ FlowInv /\ AbsentEntries => Agreement
<1> SUFFICES ASSUME Settled, IInv, FlowInv, AbsentEntries, Quiet,
                    NEW s \in Server, NEW t \in Server, NEW n \in Nick, Linked(s, t)
             PROVE  (Known(s, n) <=> Known(t, n)) /\ SameSession(s, t, n)
  BY DEF Agreement
<1>1. \A a \in Server : View(a, n) = IF Known(a, n) THEN Session(users[a][n]) ELSE Gone
  <2>1. \A a \in Server, c \in Conn : ~(conn[a][c].class = "user" /\ conn[a][c].killed)
    BY DEF Quiet, Doomed, FlowInv, Marked
  <2>2. \A a \in Server : Local(a, n) => ~conn[a][users[a][n].con].killed
    BY <2>1, NearBy DEF Local
  <2> QED BY <2>2 DEF View, Shown
<1>2. ASSUME NEW a \in Server, NEW b \in Server, n \in Carried(a, b), Linked(a, b)
      PROVE  View(a, n) = View(b, n)
  <2>1. Live(a, b) /\ chan[a][b] = <<>>
    BY <1>2 DEF Linked, Live, Quiet
  <2>2. History(Carried(a, b), Views(b), <<>>, Views(a))
    BY <2>1 DEF FlowInv, Told
  <2>3. PICK v : Passes(Carried(a, b), Views(b), <<>>, Views(a), v)
    BY <2>2 DEF History
  <2>4. Len(<<>>) = 0
    OBVIOUS
  <2>5. Views(b)[n] = Views(a)[n]
    BY <1>2, <2>3, <2>4 DEF Passes
  <2> QED BY <2>5 DEF Views
<1>3. t \in Edge[s]
  BY DEF Linked, FlowInv, LinkEnds
<1>4. n \in Carried(t, s) \/ n \in Carried(s, t)
  BY <1>3, Carrying DEF Settled, OneWay
<1>5. View(s, n) = View(t, n)
  BY <1>2, <1>4 DEF Linked
<1>6. \A a \in Server : Known(a, n) => Session(users[a][n]) # Gone
  BY NearBy
<1>7. Known(s, n) <=> Known(t, n)
  BY <1>1, <1>5, <1>6
<1>8. CASE Known(s, n)
  <2>1. Session(users[s][n]) = Session(users[t][n])
    BY <1>1, <1>5, <1>7, <1>8
  <2> QED BY <1>7, <2>1 DEF Session, SameSession
<1>9. CASE ~Known(s, n)
  BY <1>7, <1>9 DEF AbsentEntries, SameSession
<1> QED BY <1>7, <1>8, <1>9

-----------------------------------------------------------------------------
\* The invariants hold in every state.
LEMMA FlowAlways == ASSUME Settled PROVE Spec => [](IInv /\ FlowInv /\ AbsentEntries)
<1> DEFINE FInv == IInv /\ FlowInv /\ AbsentEntries
<1>1. Init => FInv
  BY InitIInv, InitFlow, InitAbsent
<1>2. FInv /\ [Next]_vars => FInv'
  BY NextIInv, NextFlow, NextAbsent
<1> QED BY <1>1, <1>2, PTL DEF Spec

\* The distributed table is never wrong without being told so: an entry learnt from a
\* peer is that peer's own session, or the QUIT, KILL or end of stream that will
\* remove it is on its way (login(), client_quit(), kill_user(), synch_server(),
\* server_split()), if nicks have one home.
THEOREM EntriesBacked == ASSUME Settled PROVE Spec => []Backed
<1>1. Spec => [](IInv /\ FlowInv /\ AbsentEntries)
  BY FlowAlways
<1>2. IInv /\ FlowInv /\ AbsentEntries => Backed
  BY BackedFlow
<1> QED BY <1>1, <1>2, PTL

\* When nothing is in flight, linked servers know the same sessions: no LOGIN, QUIT,
\* KILL, sync or split has forgotten anyone on its way through the network.
THEOREM ServersAgree == ASSUME Settled PROVE Spec => []Agreement
<1>1. Spec => [](IInv /\ FlowInv /\ AbsentEntries)
  BY FlowAlways
<1>2. IInv /\ FlowInv /\ AbsentEntries => Agreement
  BY AgreementFlow
<1> QED BY <1>1, <1>2, PTL

\* When nothing is in flight, nobody is believed to be online behind a link who is
\* not there (client_quit(), server_split()).
THEOREM NoGhosts == ASSUME Settled PROVE Spec => []NoGhost
<1>1. Spec => []Backed
  BY EntriesBacked
<1>2. Backed => NoGhost
  <2> SUFFICES ASSUME Backed, Quiet, NEW s \in Server, NEW t \in Server, NEW n \in Nick,
                      users[s][n].con = t
               PROVE  Known(t, n) /\ users[t][n].con # s /\ SameSession(s, t, n)
    BY DEF NoGhost
  <2>1. chan[t][s] = <<>> /\ end[s][t] # "dying"
    BY DEF Quiet
  <2>2. ~ \E i \in 1 .. Len(<<>>) : TRUE
    OBVIOUS
  <2>3. ~ \E i \in 1 .. Len(chan[t][s]) : TRUE
    BY <2>1, <2>2
  <2> QED BY <2>1, <2>3 DEF Backed
<1> QED BY <1>1, <1>2, PTL
=============================================================================
