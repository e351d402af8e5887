------------------------------ MODULE UserNet ------------------------------
(***************************************************************************)
(* The distributed table of logged-in users.  Each opennap server keeps a  *)
(* table Users (nick -> USER); a local login, a disconnect, a kill and a   *)
(* link joining or splitting change it, and LOGIN, QUIT and KILL messages  *)
(* flood the change over the FIFO links between servers.                   *)
(*                                                                         *)
(* Every server is one select() loop.  In its read phase it runs message   *)
(* handlers, which only mark connections with `destroy'; in its write      *)
(* phase it removes every connection so marked.  What other messages do to *)
(* a marked connection in between is the subject of several properties.    *)
(***************************************************************************)
EXTENDS Integers, Sequences, FiniteSets

CONSTANTS
  Server,     \* server names
  Conn,       \* slots of a server's Clients[] array used by users
  Nick,       \* user nicks
  Addr,       \* client ip addresses
  Level,      \* Level[n]: the registered user level of n (0 .. 4)
  Edge,       \* Edge[s]: the servers s may be linked with
  Home,       \* Home[n]: the servers where clients log in as n
  Ghosts,     \* TRUE if clients log in over a session from their address
  Leaver,     \* the nicks whose clients may disconnect
  Linked0,    \* TRUE if every edge is linked when the model starts
  UniqueTime, \* TRUE if no two logins carry the same timestamp
  CalmLinks,  \* TRUE if a link waits for the users killed at its ends to be removed
  MaxTime,    \* bound on the clock
  MaxLogins,  \* bound on the number of local logins
  MaxKills,   \* bound on the number of kill commands
  MaxLinks,   \* bound on the number of times a link is set up
  None        \* no connection, no server, no nick

MODERATOR == 2
ELITE     == 4

ASSUME DisjointNames ==
  /\ Server \cap Conn = {} /\ Server \cap Nick = {}
  /\ None \notin Server \cup Conn \cup Nick \cup Addr
ASSUME FiniteNicks == IsFiniteSet(Nick)
ASSUME Environment ==
  /\ Level \in [Nick -> 0 .. ELITE]
  /\ Edge \in [Server -> SUBSET Server]
  /\ Home \in [Nick -> SUBSET Server]
  /\ Leaver \subseteq Nick
  /\ {Ghosts, Linked0, UniqueTime, CalmLinks} \subseteq BOOLEAN
  /\ {MaxTime, MaxLogins, MaxKills, MaxLinks} \subseteq Nat

\* The links have no cycles (see NoLoop of ServerLink): next leads from every
\* server towards r, over each link one way.
LeadsTo(next, r) ==
  /\ next[r] \notin Edge[r]
  /\ \A s \in Server : \A t \in Edge[s] : (next[s] = t) # (next[t] = s)
ASSUME NoCycles == /\ \A s, t \in Server : t \in Edge[s] => s \in Edge[t]
                   /\ \A r \in Server : \E next \in [Server -> Server] : LeadsTo(next, r)

VARIABLES
  users,   \* users[s][n]: the USER entry of nick n at server s
  conn,    \* conn[s][c]: the local user CONNECTION in slot c of server s
  end,     \* end[s][t]: s's CONNECTION to t: down, pending, up or dying
  chan,    \* chan[s][t]: bytes sent by s to t that t has not read
  phase,   \* phase[s]: the part of the main loop s is in
  now,     \* the clock
  logins, kills, links   \* how much of the bounds has been used

vars == <<users, conn, end, chan, phase, now, logins, kills, links>>

-----------------------------------------------------------------------------
(* Data *)

\* A USER entry: con is the local connection or the link the user is behind;
\* ts (`connected'), home (`server') and ip describe the session.
Entry  == [con : Conn \cup Server \cup {None}, ts : Nat,
           home : Server \cup {None}, ip : Addr \cup {None}]
Absent == [con |-> None, ts |-> 0, home |-> None, ip |-> None]

\* A local CONNECTION.  "unknown" is the class zap_local_user() leaves behind.
Connection == [class : {"free", "unknown", "user"}, nick : Nick \cup {None},
               destroy : BOOLEAN, killed : BOOLEAN]
Free   == [class |-> "free", nick |-> None, destroy |-> FALSE, killed |-> FALSE]
Zapped == [class |-> "unknown", nick |-> None, destroy |-> TRUE, killed |-> TRUE]

Message ==
  [type : {"LOGIN"}, nick : Nick, ts : Nat, home : Server, ip : Addr]
    \cup [type : {"QUIT"}, nick : Nick]
    \cup [type : {"KILL"}, by : Nick \cup Server, nick : Nick]
    \cup [type : {"ACK", "EOF"}]

LoginMsgNoIp(n, e) == [type |-> "LOGIN", nick |-> n, ts |-> e.ts, home |-> e.home]
LoginMsg(n, e)  == [type |-> "LOGIN", nick |-> n, ts |-> e.ts,
                    home |-> e.home, ip |-> e.ip]
QuitMsg(n)      == [type |-> "QUIT", nick |-> n]
KillMsg(by, n)  == [type |-> "KILL", by |-> by, nick |-> n]
Ack             == [type |-> "ACK"]
Eof             == [type |-> "EOF"]

Known(s, n) == users[s][n].con # None
Local(s, n) == users[s][n].con \in Conn

\* the list `Servers' of s: links that have not been removed
Servers(s) == {t \in Server : end[s][t] \in {"up", "dying"}}

\* hash_foreach() visits a table in an order fixed by the hash function,
\* which is left open: every enumeration of the set S is an order
Orders(S) == {q \in [1 .. Cardinality(S) -> S] :
                \A x \in S : \E i \in 1 .. Cardinality(S) : q[i] = x}

\* pass_message(): queue msgs on every link but the one to `except'.  What
\* is sent to a peer that has closed its end is lost.
PassOn(ch, s, except, msgs) ==
  [ch EXCEPT ![s] = [t \in Server |->
     IF t \in Servers(s) \ {except} /\ end[t][s] # "down"
     THEN ch[s][t] \o msgs ELSE ch[s][t]]]

Received(t, s) == [chan EXCEPT ![t][s] = Tail(@)]

\* zap_local_user(): s frees the entry's connection at once, with no QUIT
NoZap(s, e) == conn[s]
Zap(s, e) == IF e.con \in Conn THEN [conn[s] EXCEPT ![e.con] = Zapped]
                               ELSE conn[s]

\* the users behind the link from s to t (server_split())
NobodyBehind(s, t) == {}
Behind(s, t) == {n \in Nick : users[s][n].con = t}

\* free_user() tells the peers, unless a KILL already did
NeverQuits(k) == FALSE
SaysQuit(k) == k.class = "user" /\ ~k.killed

Doomed(s) == \/ \E c \in Conn : conn[s][c].destroy
             \/ \E t \in Server : end[s][t] = "dying"

-----------------------------------------------------------------------------
Init ==
  /\ users  = [s \in Server |-> [n \in Nick |-> Absent]]
  /\ conn   = [s \in Server |-> [c \in Conn |-> Free]]
  /\ end    = [s \in Server |-> [t \in Server |->
                 IF Linked0 /\ t \in Edge[s] THEN "up" ELSE "down"]]
  /\ chan   = [s \in Server |-> [t \in Server |-> <<>>]]
  /\ phase  = [s \in Server |-> "read"]
  /\ now    = 0
  /\ logins = 0 /\ kills = 0 /\ links = 0

Tick == /\ now < MaxTime
        /\ now' = now + 1
        /\ UNCHANGED <<users, conn, end, chan, phase, logins, kills, links>>

(* Clients *)

\* login() on a connection in slot c that has not logged in yet.  A nick in
\* use from another address is refused, which changes nothing; from the same
\* address it is a ghost, killed everywhere and replaced.
Login(s, c, n, ip) ==
  LET old   == users[s][n]
      new   == [con |-> c, ts |-> now, home |-> s, ip |-> ip]
      ghost == IF Known(s, n) THEN <<KillMsg(s, n)>> ELSE <<>>
  IN  /\ phase[s] = "read" /\ conn[s][c] = Free /\ s \in Home[n]
      /\ logins < MaxLogins /\ logins' = logins + 1
      /\ Known(s, n) => old.ip = ip /\ Ghosts
      /\ UniqueTime => now < MaxTime
      /\ now' = IF UniqueTime THEN now + 1 ELSE now
      /\ users' = [users EXCEPT ![s][n] = new]
      /\ conn' = [conn EXCEPT ![s] = [Zap(s, old) EXCEPT ![c] =
                   [class |-> "user", nick |-> n,
                    destroy |-> FALSE, killed |-> FALSE]]]
      /\ chan' = PassOn(chan, s, None, ghost \o <<LoginMsg(n, new)>>)
      /\ UNCHANGED <<end, phase, kills, links>>

\* handle_connection() reads the end of a user's stream
Disconnect(s, c) ==
  /\ phase[s] = "read"
  /\ conn[s][c].class = "user" /\ ~conn[s][c].destroy
  /\ conn[s][c].nick \in Leaver
  /\ conn' = [conn EXCEPT ![s][c] = [@ EXCEPT !.destroy = TRUE]]
  /\ UNCHANGED <<users, end, chan, phase, now, logins, kills, links>>

\* the permission check of kill_user() for a user that kills
MayKill(m, n) == Level[n] < Level[m] \/ Level[m] = ELITE

\* what kill_user() does to an entry of nick n at s once it is allowed
KillEntry(s, n) ==
  IF Local(s, n)
  THEN /\ conn' = [conn EXCEPT ![s][users[s][n].con] =
                                 [@ EXCEPT !.destroy = TRUE, !.killed = TRUE]]
       /\ UNCHANGED users
  ELSE /\ users' = [users EXCEPT ![s][n] = Absent]
       /\ UNCHANGED conn

\* kill_user() from a local user
Kill(s, c, n) ==
  LET m == conn[s][c].nick
  IN  /\ phase[s] = "read"
      /\ conn[s][c].class = "user" /\ ~conn[s][c].destroy
      /\ Known(s, n) /\ MayKill(m, n)
      /\ kills < MaxKills /\ kills' = kills + 1
      /\ KillEntry(s, n)
      /\ chan' = PassOn(chan, s, None, <<KillMsg(m, n)>>)
      /\ UNCHANGED <<end, phase, now, logins, links>>

(* Messages from a peer *)

Deliver(s, t, type) == /\ phase[s] = "read" /\ end[s][t] = "up"
                     /\ chan[t][s] # <<>> /\ Head(chan[t][s]).type = type

\* nick collision: a LOGIN displaces the entry of a session that is newer
NeverDisplaces(m, old) == FALSE
NewestWins(m, old) == m.ts > old.ts
Displaces(m, old) == m.ts < old.ts

\* login() from a server
RecvLogin(s, t) ==
  LET m     == Head(chan[t][s])
      n     == m.nick
      old   == users[s][n]
      new   == [con |-> t, ts |-> m.ts, home |-> m.home, ip |-> m.ip]
      clash == IF Known(s, n) THEN <<KillMsg(s, n)>> ELSE <<>>
  IN  /\ Deliver(s, t, "LOGIN")
      /\ IF Known(s, n) /\ ~Displaces(m, old)
         THEN /\ chan' = Received(t, s)
              /\ UNCHANGED <<users, conn>>
         ELSE /\ users' = [users EXCEPT ![s][n] = new]
              /\ conn' = [conn EXCEPT ![s] = Zap(s, old)]
              /\ chan' = PassOn(Received(t, s), s, t,
                                clash \o <<LoginMsg(n, new)>>)
      /\ UNCHANGED <<end, phase, now, logins, kills, links>>

\* client_quit(): the QUIT names a nick, not the session that ended
RecvQuit(s, t) ==
  LET n == Head(chan[t][s]).nick
  IN  /\ Deliver(s, t, "QUIT")
      /\ IF Known(s, n) /\ ~Local(s, n)
         THEN /\ users' = [users EXCEPT ![s][n] = Absent]
              /\ chan' = PassOn(Received(t, s), s, t, <<QuitMsg(n)>>)
         ELSE /\ chan' = Received(t, s)
              /\ UNCHANGED users
      /\ UNCHANGED <<conn, end, phase, now, logins, kills, links>>

\* kill_user() from a server; a killer that is not a server must be known
RecvKill(s, t) ==
  LET m  == Head(chan[t][s])
      ok == /\ m.by \in Server \/ Known(s, m.by)
            /\ Known(s, m.nick)
            /\ m.by \in Server \/ MayKill(m.by, m.nick)
  IN  /\ Deliver(s, t, "KILL")
      /\ IF ok
         THEN /\ KillEntry(s, m.nick)
              /\ chan' = PassOn(Received(t, s), s, t, <<m>>)
         ELSE /\ chan' = Received(t, s)
              /\ UNCHANGED <<users, conn>>
      /\ UNCHANGED <<end, phase, now, logins, kills, links>>

(* Links *)

\* synch_server(): one LOGIN for every entry of Users
SyncMsgs(s, q) == [i \in DOMAIN q |-> LoginMsg(q[i], users[s][q[i]])]
LocalAt(s)     == {n \in Nick : Local(s, n)}
KnownAt(s)     == {n \in Nick : Known(s, n)}

\* synch_server() also tells of a user who is marked by a kill: see CalmLinks
Calm(s) == CalmLinks =>
  \A c \in Conn : ~(conn[s][c].class = "user" /\ conn[s][c].killed)

\* server_login_ack() at s, the side of a new link that gets there first; t
\* reaches it when it reads the ACK that precedes what s sends next
Open(s, t, sync) ==
  /\ phase[s] = "read" /\ t \in Edge[s] /\ Calm(s)
  /\ end[s][t] = "down" /\ end[t][s] = "down"
  /\ links < MaxLinks /\ links' = links + 1
  /\ end' = [end EXCEPT ![s][t] = "up", ![t][s] = "pending"]
  /\ chan' = [chan EXCEPT ![s][t] = <<Ack>> \o sync]
  /\ UNCHANGED <<users, conn, phase, now, logins, kills>>

Link(s, t) == \E q \in Orders(KnownAt(s)) : Open(s, t, SyncMsgs(s, q))

\* server_login_ack() at s for the other side
Acknowledge(s, t, sync) ==
  /\ phase[s] = "read" /\ end[s][t] = "pending" /\ Calm(s)
  /\ chan[t][s] # <<>> /\ Head(chan[t][s]) = Ack
  /\ end' = [end EXCEPT ![s][t] = "up"]
  /\ chan' = IF end[t][s] # "down"
             THEN [Received(t, s) EXCEPT ![s][t] = @ \o sync]
             ELSE Received(t, s)
  /\ UNCHANGED <<users, conn, phase, now, logins, kills, links>>

RecvAck(s, t) == \E q \in Orders(KnownAt(s)) : Acknowledge(s, t, SyncMsgs(s, q))

\* a read or write on the link fails
LinkFails(s, t) ==
  /\ phase[s] = "read" /\ end[s][t] = "up" /\ links < MaxLinks
  /\ end' = [end EXCEPT ![s][t] = "dying"]
  /\ UNCHANGED <<users, conn, chan, phase, now, logins, kills, links>>

\* handle_connection() reads the end of the peer's stream
RecvEof(s, t) ==
  /\ Deliver(s, t, "EOF")
  /\ end' = [end EXCEPT ![s][t] = "dying"]
  /\ chan' = Received(t, s)
  /\ UNCHANGED <<users, conn, phase, now, logins, kills, links>>

(* The write phase of main(): connections marked for removal are removed *)

EndRead(s) ==
  /\ phase[s] = "read" /\ Doomed(s)
  /\ phase' = [phase EXCEPT ![s] = "reap"]
  /\ UNCHANGED <<users, conn, end, chan, now, logins, kills, links>>

LoopPhase(s, more) == phase' = [phase EXCEPT ![s] = IF more THEN "reap" ELSE "read"]

\* what the write loop removes: also what zap_local_user() left behind
RemovableUser(k) == k.destroy /\ k.class = "user"
Removable(k) == k.destroy

\* remove_connection() of a user: remove_user() and free_user()
ReapUser(s, c) ==
  LET k == conn[s][c]
  IN  /\ phase[s] = "reap" /\ Removable(k)
      /\ conn' = [conn EXCEPT ![s][c] = Free]
      /\ users' = IF k.class = "user"
                  THEN [users EXCEPT ![s][k.nick] = Absent] ELSE users
      /\ chan' = IF SaysQuit(k)
                 THEN PassOn(chan, s, None, <<QuitMsg(k.nick)>>) ELSE chan
      /\ LoopPhase(s, \/ \E d \in Conn \ {c} : conn[s][d].destroy
                      \/ \E t \in Server : end[s][t] = "dying")
      /\ UNCHANGED <<end, now, logins, kills, links>>

\* remove_connection() of a server: every user behind it has quit
ReapLink(s, t) ==
  LET gone == Behind(s, t)
  IN  /\ phase[s] = "reap" /\ end[s][t] = "dying"
      /\ end' = [end EXCEPT ![s][t] = "down"]
      /\ users' = [users EXCEPT ![s] = [n \in Nick |->
                     IF n \in gone THEN Absent ELSE users[s][n]]]
      /\ \E q \in Orders(gone) :
           LET quits == [i \in DOMAIN q |-> QuitMsg(q[i])]
               eof   == IF end[t][s] = "down" THEN <<>> ELSE <<Eof>>
               out   == [PassOn(chan, s, t, quits) EXCEPT ![t][s] = <<>>]
           IN  chan' = [out EXCEPT ![s][t] = @ \o eof]
      /\ LoopPhase(s, \/ \E c \in Conn : conn[s][c].destroy
                      \/ \E u \in Server \ {t} : end[s][u] = "dying")
      /\ UNCHANGED <<conn, now, logins, kills, links>>

-----------------------------------------------------------------------------
ClientStep(s) ==
  \E c \in Conn :
    \/ \E n \in Nick, ip \in Addr : Login(s, c, n, ip)
    \/ Disconnect(s, c)
    \/ \E n \in Nick : Kill(s, c, n)

LinkStep(s) == \E t \in Server : Link(s, t) \/ LinkFails(s, t)

Receive(s, t) == \/ RecvLogin(s, t) \/ RecvQuit(s, t) \/ RecvKill(s, t)
                 \/ RecvAck(s, t) \/ RecvEof(s, t)

Reap(s) == \/ \E c \in Conn : ReapUser(s, c)
           \/ \E t \in Server : ReapLink(s, t)

Next == \/ Tick
        \/ \E s \in Server : ClientStep(s)
        \/ \E s \in Server : LinkStep(s)
        \/ \E s, t \in Server : Receive(s, t)
        \/ \E s \in Server : EndRead(s) \/ Reap(s)

Spec == Init /\ [][Next]_vars

\* The main loop never stops: it reads what has arrived and reaps what is
\* marked.  Clients, clocks and links owe nothing.
Fairness == \A s \in Server : /\ WF_vars(EndRead(s)) /\ WF_vars(Reap(s))
                              /\ \A t \in Server : WF_vars(Receive(s, t))

FairSpec == Spec /\ Fairness

-----------------------------------------------------------------------------
(* Properties *)

\* Every variable has its type.
TypeOK ==
  /\ users \in [Server -> [Nick -> Entry]]
  /\ conn \in [Server -> [Conn -> Connection]]
  /\ end \in [Server -> [Server -> {"down", "pending", "up", "dying"}]]
  /\ chan \in [Server -> [Server -> Seq(Message)]]
  /\ phase \in [Server -> {"read", "reap"}]
  /\ {now, logins, kills, links} \subseteq Nat

\* Each logged-in connection owns the table entry of its nick: what free_user()
\* and remove_user() free at reaping is that connection's own USER, whatever
\* ghosts, collisions, kills and QUITs came in between.
ConnectionsOwnEntries ==
  \A s \in Server, c \in Conn :
    conn[s][c].class = "user" => /\ conn[s][c].nick \in Nick
                                 /\ users[s][conn[s][c].nick].con = c

\* Conversely user->con never dangles: a local entry's connection is logged in
\* as that nick, and a remote entry's link has not been removed.
EntriesHaveConnections ==
  \A s \in Server, n \in Nick :
    LET c == users[s][n].con
    IN  /\ c \in Conn => /\ conn[s][c].class = "user" /\ conn[s][c].nick = n
                          /\ users[s][n].home = s
        /\ c \in Server => c \in Servers(s)

SameSession(s, t, n) == /\ users[s][n].ts = users[t][n].ts
                        /\ users[s][n].home = users[t][n].home

\* An entry learnt from t is backed by t: t has that session and did not learn
\* it from s, or t's notice that it is gone is on its way.  (The link from t
\* closing is such a notice.)
Backed ==
  \A s, t \in Server, n \in Nick :
    users[s][n].con = t =>
      \/ Known(t, n) /\ SameSession(s, t, n) /\ users[t][n].con # s
      \/ \E i \in 1 .. Len(chan[t][s]) :
           LET m == chan[t][s][i]
           IN  m = Eof \/ (m.type \in {"QUIT", "KILL"} /\ m.nick = n)
      \/ end[s][t] = "dying"

Linked(s, t) == end[s][t] = "up" /\ end[t][s] = "up"

\* nothing is in flight, waiting to be removed or half set up
Quiet == /\ \A s, t \in Server : /\ chan[s][t] = <<>>
                                 /\ end[s][t] \in {"up", "down"}
         /\ \A s \in Server : phase[s] = "read" /\ ~Doomed(s)

\* When the network is quiet, linked servers have the same users online:
\* nobody was forgotten by a QUIT, a KILL, a split or a new link's sync.
Agreement ==
  Quiet => \A s, t \in Server, n \in Nick :
             Linked(s, t) => /\ Known(s, n) <=> Known(t, n)
                             /\ SameSession(s, t, n)

\* When the network is quiet no server keeps a ghost: what it believes to be
\* behind a link is there.
NoGhost ==
  Quiet => \A s, t \in Server, n \in Nick :
             users[s][n].con = t => /\ Known(t, n) /\ users[t][n].con # s
                                    /\ SameSession(s, t, n)

\* When the network is quiet and whole, a nick collision has been resolved:
\* one client at most is logged in as n.
OneWinner ==
  (Quiet /\ \A s \in Server : \A t \in Edge[s] : end[s][t] = "up") =>
    \A s, t \in Server, n \in Nick : Local(s, n) /\ Local(t, n) => s = t

\* A session ends only by its own disconnect, or for the sake of an older
\* session or of a new login from the same address that is online somewhere:
\* crossing KILLs and LOGINs never end every session of a nick.
OldestWins ==
  [][\A s \in Server, n \in Nick :
       (Local(s, n) /\ users'[s][n] # users[s][n]) =>
          \/ conn[s][users[s][n].con].destroy /\ ~conn[s][users[s][n].con].killed
          \/ \E t \in Server : /\ Local(t, n)' /\ users'[t][n] # users[s][n]
                               /\ \/ users'[t][n].ts < users[s][n].ts
                                  \/ users'[t][n].ip = users[s][n].ip]_vars

\* The floods die out: once clients and links rest, every message is consumed
\* without raising new ones for ever and every marked connection is removed.
EventuallyQuiet == <>[]Quiet

\* README 10000: a QUIT means that the client's connection has closed, so the
\* session a QUIT removes from a table is no longer open at its home.
QuitMeansClosed ==
  [][\A s, t \in Server :
       (RecvQuit(s, t) /\ users' # users) =>
         LET n == Head(chan[t][s]).nick
             h == users[s][n].home
         IN  ~(Local(h, n) /\ SameSession(s, h, n))]_vars
=============================================================================
