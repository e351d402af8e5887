----------------------------- MODULE Transfers -----------------------------
(***************************************************************************)
(* Arranging a transfer.  A client asks its server for a file of another   *)
(* user (203, or 500 if that user is behind a firewall); the request finds *)
(* its way over the links to the other user's server, which asks its       *)
(* client (607); the client accepts (608) and the answer returns.  The     *)
(* links form a tree and stay up; every server knows every user.           *)
(***************************************************************************)
EXTENDS Integers, Sequences, FiniteSets

CONSTANTS
  Server,      \* server names
  Edge,        \* Edge[s]: the servers linked with s
  Nick,        \* users
  Home,        \* Home[n]: the server n is connected to
  Toward,      \* Toward[s][n]: user->con at s, the link that n is behind
  Firewalled,  \* the users whose data port is 0
  Ignores,     \* pairs <<n, m>>: n ignores m
  File,        \* names of files
  Requests,    \* the requests that clients make
  MaxRequests, \* bound on the number of requests made
  MaxChanges,  \* bound on the number of files unshared
  None         \* no link

DOWNLOAD == 203
DOWNLOAD_FIREWALL == 500

\* a request of `from' for `file' of `to'
Request == [tag : {DOWNLOAD, DOWNLOAD_FIREWALL}, from : Nick, to : Nick, file : File]

ASSUME Setting ==
  /\ Edge \in [Server -> SUBSET Server] /\ Home \in [Nick -> Server]
  /\ Toward \in [Server -> [Nick -> Server \cup {None}]] /\ None \notin Server
  /\ \A s \in Server, n \in Nick :
       IF Home[n] = s THEN Toward[s][n] = None ELSE Toward[s][n] \in Edge[s]
  /\ Firewalled \subseteq Nick /\ Ignores \subseteq Nick \X Nick
  /\ Requests \subseteq Request /\ {MaxRequests, MaxChanges} \subseteq Nat

VARIABLES
  shares,   \* shares[n]: the files n shares
  made,     \* the requests made
  net,      \* net[s][t]: messages from s that t has not read
  heard,    \* heard[n]: what the client n was told, of which request
  replied,  \* the requests that the asked client has replied to
  reported, \* the requests whose requester could not reach the data port
  changes   \* number of files unshared

vars == <<shares, made, net, heard, replied, reported, changes>>

-----------------------------------------------------------------------------
(* Data *)

\* SEND_ERROR, "is ignoring you", FILE_READY with port 0 and with the port of
\* the other user, "is not firewalled", "firewallerror", UPLOAD_REQUEST,
\* UPLOAD_FIREWALL, "Not sharing that file", LIMIT and DATA_PORT_ERROR
Notice == {"ERROR", "IGNORED", "PUSH", "READY", "OPEN", "BOTH_CLOSED",
           "ASKED", "CONNECT", "NOT_SHARING", "LIMIT", "PORT_ERROR"}

\* 203, 607 and 626 between servers, and 10018 with a notice for a remote user
Message == [type : {"DOWNLOAD", "UPLOAD_REQUEST", "DATA_PORT_ERROR"}, req : Request]
             \cup [type : {"ENCAPSULATED"}, to : Nick, what : Notice, req : Request]

Local(s, n) == Home[n] = s

Queue(ch, s, S, m) ==
  [ch EXCEPT ![s] = [t \in Server |-> IF t \in S THEN Append(ch[s][t], m) ELSE ch[s][t]]]

\* send_cmd() to a local client
Says(n, what, r) == heard' = [heard EXCEPT ![n] = @ \cup {<<what, r>>}]

\* send_user(): to the client, or encapsulated to the link it is behind
Tell(ch, s, n, what, r) ==
  IF Local(s, n)
  THEN Says(n, what, r) /\ net' = ch
  ELSE /\ net' = Queue(ch, s, {Toward[s][n]},
                       [type |-> "ENCAPSULATED", to |-> n, what |-> what, req |-> r])
       /\ UNCHANGED heard

\* send_cmd() to the link that n is behind
OtherLinks(s, n) == Edge[s] \ {Toward[s][n]}
LinkOf(s, n) == {Toward[s][n]}
Direct(type, r) == [type |-> type, req |-> r]

Forward(ch, s, n, type, r) ==
  /\ net' = Queue(ch, s, LinkOf(s, n), Direct(type, r))
  /\ UNCHANGED heard

-----------------------------------------------------------------------------
Init == /\ shares = [n \in Nick |-> File]
        /\ made = {}
        /\ net = [s \in Server |-> [t \in Server |-> <<>>]]
        /\ heard = [n \in Nick |-> {}]
        /\ replied = {}
        /\ reported = {}
        /\ changes = 0

\* remove_file()
Unshare(n, f) ==
  /\ changes < MaxChanges /\ f \in shares[n]
  /\ shares' = [shares EXCEPT ![n] = @ \ {f}]
  /\ changes' = changes + 1
  /\ UNCHANGED <<made, net, heard, replied, reported>>

\* what download() tells a requester of a firewalled user
NoPush(r) == FALSE
Push(r) == r.tag = DOWNLOAD /\ r.to \in Firewalled

\* download() at s, with the links ch left by the message it came in
Process(ch, s, r) ==
  LET here == Local(s, r.to)
  IN  IF here /\ <<r.to, r.from>> \in Ignores THEN Tell(ch, s, r.from, "IGNORED", r)
      ELSE IF here /\ r.file \notin shares[r.to] THEN Tell(ch, s, r.from, "ERROR", r)
      ELSE IF Push(r)
           THEN IF here THEN Tell(ch, s, r.from, "PUSH", r)
                        ELSE Forward(ch, s, r.to, "DOWNLOAD", r)
      ELSE IF r.tag = DOWNLOAD_FIREWALL /\ r.to \notin Firewalled
           THEN Says(r.from, "OPEN", r) /\ net' = ch
      ELSE IF r.tag = DOWNLOAD_FIREWALL /\ r.from \in Firewalled
           THEN Says(r.from, "BOTH_CLOSED", r) /\ net' = ch
      ELSE IF here THEN Says(r.to, "ASKED", r) /\ net' = ch
                   ELSE Forward(ch, s, r.to, "UPLOAD_REQUEST", r)

\* a client sends 203 or 500
Ask(r) == /\ Cardinality(made) < MaxRequests
          /\ r \notin made /\ made' = made \cup {r}
          /\ Process(net, Home[r.from], r)
          /\ UNCHANGED <<shares, replied, reported, changes>>

Received(s, t) == [net EXCEPT ![t][s] = Tail(@)]
Deliver(s, t, type) == net[t][s] # <<>> /\ Head(net[t][s]).type = type

\* download() from a server
RecvDownload(s, t) ==
  /\ Deliver(s, t, "DOWNLOAD")
  /\ Process(Received(s, t), s, Head(net[t][s]).req)
  /\ UNCHANGED <<shares, made, replied, reported, changes>>

\* the links on which upload_request() passes on a request for a user that is
\* not local: pass_message_args() spares the link that the user is behind
PassedTo(s, n) == Edge[s] \ {Toward[s][n]}

\* upload_request()
RecvUploadRequest(s, t) ==
  LET r == Head(net[t][s]).req
  IN  /\ Deliver(s, t, "UPLOAD_REQUEST")
      /\ IF Local(s, r.to)
         THEN /\ net' = Received(s, t)
              /\ IF r.file \in shares[r.to] THEN Says(r.to, "ASKED", r)
                                            ELSE UNCHANGED heard
         ELSE /\ net' = Queue(Received(s, t), s, PassedTo(s, r.to), Head(net[t][s]))
              /\ UNCHANGED heard
      /\ UNCHANGED <<shares, made, replied, reported, changes>>

\* pass_message(): what came from t is passed on to all but t
Returned(s, t) == {t}
Onward(s, t) == Edge[s] \ {t}

\* encapsulated(): a notice for a remote user is passed on
RecvEncapsulated(s, t) ==
  LET m == Head(net[t][s])
  IN  /\ Deliver(s, t, "ENCAPSULATED")
      /\ IF Local(s, m.to)
         THEN Says(m.to, m.what, m.req) /\ net' = Received(s, t)
         ELSE /\ net' = Queue(Received(s, t), s, Onward(s, t), m)
              /\ UNCHANGED heard
      /\ UNCHANGED <<shares, made, replied, reported, changes>>

\* a client that has been asked replies, once
Reply(r) == /\ <<"ASKED", r>> \in heard[r.to]
            /\ r \notin replied /\ replied' = replied \cup {r}
            /\ UNCHANGED <<shares, made, reported, changes>>

\* upload_ok(): it accepts (608)
Accept(r) ==
  LET n == r.to
  IN  /\ Reply(r)
      /\ IF r.file \notin shares[n] THEN Says(n, "NOT_SHARING", r) /\ UNCHANGED net
         ELSE IF n \in Firewalled THEN Says(n, "CONNECT", r) /\ UNCHANGED net
         ELSE Tell(net, Home[n], r.from, "READY", r)

\* queue_limit(): it has no slot free (619)
QueueLimit(r) ==
  /\ Reply(r)
  /\ IF r.file \notin shares[r.to] THEN Says(r.to, "NOT_SHARING", r) /\ UNCHANGED net
                                   ELSE Tell(net, Home[r.to], r.from, "LIMIT", r)

\* data_port_error() at s: the servers S, which are the other links of s, pass
\* it on, and a local user is told
PortError(ch, s, S, r) ==
  /\ net' = Queue(ch, s, S, Direct("DATA_PORT_ERROR", r))
  /\ IF Local(s, r.to) THEN Says(r.to, "PORT_ERROR", r) ELSE UNCHANGED heard

\* a client could not connect to the data port it was told of (626)
DataPortError(r) ==
  /\ <<"READY", r>> \in heard[r.from]
  /\ r \notin reported /\ reported' = reported \cup {r}
  /\ PortError(net, Home[r.from], Edge[Home[r.from]], r)
  /\ UNCHANGED <<shares, made, replied, changes>>

RecvDataPortError(s, t) ==
  /\ Deliver(s, t, "DATA_PORT_ERROR")
  /\ PortError(Received(s, t), s, Onward(s, t), Head(net[t][s]).req)
  /\ UNCHANGED <<shares, made, replied, reported, changes>>

-----------------------------------------------------------------------------
Receive(s, t) ==
  \/ RecvDownload(s, t) \/ RecvUploadRequest(s, t)
  \/ RecvEncapsulated(s, t) \/ RecvDataPortError(s, t)

Next == \/ \E n \in Nick, f \in File : Unshare(n, f)
        \/ \E r \in Requests : Ask(r) \/ Accept(r) \/ QueueLimit(r) \/ DataPortError(r)
        \/ \E s, t \in Server : Receive(s, t)

Spec == Init /\ [][Next]_vars

\* Servers read what arrives; clients need not ask, reply or report.
FairSpec == Spec /\ \A s, t \in Server : WF_vars(Receive(s, t))

-----------------------------------------------------------------------------
(* Properties *)

\* Every variable has its type.
TypeOK == /\ shares \in [Nick -> SUBSET File]
          /\ made \subseteq Requests /\ replied \subseteq made /\ reported \subseteq replied
          /\ net \in [Server -> [Server -> Seq(Message)]]
          /\ heard \in [Nick -> SUBSET (Notice \X Request)]
          /\ changes \in 0 .. MaxChanges

\* what became of a request: an answer to its client or a question to the other
Outcomes(r) ==
  {what \in {"ERROR", "IGNORED", "PUSH", "OPEN", "BOTH_CLOSED"} :
     <<what, r>> \in heard[r.from]}
  \cup {what \in {"ASKED"} : <<what, r>> \in heard[r.to]}

\* A user is asked for a file, and a requester sent to another's data port, only
\* if one of the two can accept the connection of the other; FILE_READY with a
\* port follows the other's consent.
Connectable ==
  \A r \in Requests :
    /\ <<"ASKED", r>> \in heard[r.to] => {r.from, r.to} \ Firewalled # {}
    /\ <<"CONNECT", r>> \in heard[r.to] => r.from \notin Firewalled
    /\ <<"READY", r>> \in heard[r.from] => r \in replied /\ r.to \notin Firewalled

\* upload_request() loses requests for a user more than one link away
Near(r) == Home[r.to] \in {Home[r.from]} \cup Edge[Home[r.from]]

\* A request has an outcome in the end, unless the file is unshared meanwhile
\* or a 607 has more than one link to go; a report of an unreachable data port
\* reaches its owner.
Answered ==
  \A r \in Requests :
    /\ (r \in made /\ (Near(r) \/ Push(r)))
         ~> (Outcomes(r) # {} \/ r.file \notin shares[r.to])
    /\ (r \in reported) ~> (<<"PORT_ERROR", r>> \in heard[r.to])

\* What is passed on along the tree of links comes to an end.
Drains == <>[](\A s, t \in Server : net[s][t] = <<>>)

\* napster.txt on 607: the message notifies the client that its file has been
\* requested, wherever that client is connected.
EveryRequestAnswered ==
  \A r \in Requests : (r \in made) ~> (Outcomes(r) # {} \/ r.file \notin shares[r.to])

\* A user is not asked for files by those it ignores.
IgnoredNeverAsk ==
  \A r \in Requests : <<"ASKED", r>> \in heard[r.to] => <<r.to, r.from>> \notin Ignores
=============================================================================
