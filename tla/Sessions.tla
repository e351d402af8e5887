----------------------------- MODULE Sessions ------------------------------
(***************************************************************************)
(* What hangs on a session of UserNet: shared files and the counters that  *)
(* follow them, uploads in progress, and hotlists.                         *)
(*                                                                         *)
(* A USER entry counts its files and uploads, a local CONNECTION holds the *)
(* files and the hotlist, and the server keeps totals and the global table *)
(* Hotlist.  Every way a session ends in UserNet releases all of it, and   *)
(* the counts travel to the peers on the same links as the LOGINs.         *)
(***************************************************************************)
EXTENDS UserNet, FiniteSetsExt, SequencesExt

CONSTANTS
  File,         \* names of files
  Max_Shared,   \* limit on shared files; 0 is no limit
  Max_Hotlist,  \* limit on hotlist entries; 0 is no limit
  Watched,      \* the nicks that clients put on their hotlists
  MaxUploads,   \* bound on the uploads a client starts
  MaxQueue      \* bound on the messages queued on a link by clients

ASSUME Limits == /\ {Max_Shared, Max_Hotlist, MaxUploads, MaxQueue} \subseteq Nat
                 /\ Watched \subseteq Nick
ASSUME FiniteSlots == IsFiniteSet(Conn)
ASSUME FiniteNet == IsFiniteSet(Server)

VARIABLES
  ext,     \* ext[s][n]: the counters of the USER entry of n at s
  opt,     \* opt[s][c]: the USEROPT of the connection in slot c of s
  hot,     \* hot[s][n]: hotlist->users, who watches n at s; no entry if empty
  num,     \* num[s]: Num_Files
  loc      \* loc[s]: Local_Files

ext_vars == <<ext, opt, hot, num, loc>>
all_vars == <<vars, ext_vars>>

-----------------------------------------------------------------------------
(* Data *)

Counters == [shared : Nat, sharing : BOOLEAN, unsharing : BOOLEAN, uploads : Nat]
NewUser == [shared |-> 0, sharing |-> FALSE, unsharing |-> FALSE, uploads |-> 0]

\* told: the nicks whose last notice to this client was a sign-on
UserOpt == [files : SUBSET File, hotlist : SUBSET Nick, told : SUBSET Nick]
NoOpt   == [files |-> {}, hotlist |-> {}, told |-> {}]

SharingMsg(n, k)  == [type |-> "SHARING", nick |-> n, shared |-> k]
UploadMsg(what, n) == [type |-> what, nick |-> n]

SumShared(s, S) == SumFunctionOnSet([n \in Nick |-> ext[s][n].shared], S)
SumHeld(s, S)   == SumFunctionOnSet([c \in Conn |-> Cardinality(opt[s][c].files)], S)

-----------------------------------------------------------------------------
(* The end of a session: remove_user() and free_user(), wherever UserNet   *)
(* drops or replaces an entry                                              *)

Changed(s) == {n \in Nick : users'[s][n] # users[s][n]}
FreedUsers(s) == {n \in Changed(s) : Known(s, n)}
SignedOn(s)   == {n \in Changed(s) : Known(s, n)'}
\* the connections that remove_user() is called for
Closed(s) == {c \in Conn : conn[s][c].class = "user" /\ conn'[s][c].class # "user"}

\* Local_Files counts the files of users whose connection is a user's
FreedAnyhow(s) == FreedUsers(s)
FreedLocally(s) == {n \in FreedUsers(s) : Local(s, n)}

\* a removed connection is taken off the entries on its own hotlist
StillWatching(s, n) == hot[s][n]
Watchers(s, n) == hot[s][n] \ {c \in Closed(s) : n \in opt[s][c].hotlist}

\* notices of free_user() and, after it, of login()
NotifiedLate(s, c) ==
  (opt[s][c].told \cup {n \in SignedOn(s) : c \in Watchers(s, n)})
    \ {n \in FreedUsers(s) : c \in hot[s][n]}
Notified(s, c) ==
  LET off == {n \in FreedUsers(s) : c \in hot[s][n]}
      on  == {n \in SignedOn(s) : c \in Watchers(s, n)}
  IN  (opt[s][c].told \ off) \cup on

Release ==
  /\ ext' = [s \in Server |-> [n \in Nick |->
               IF n \in Changed(s) THEN NewUser ELSE ext[s][n]]]
  /\ num' = [s \in Server |-> num[s] - SumShared(s, FreedUsers(s))]
  /\ loc' = [s \in Server |-> loc[s] - SumShared(s, FreedLocally(s))]
  /\ hot' = [s \in Server |-> [n \in Nick |-> Watchers(s, n)]]
  /\ opt' = [s \in Server |-> [c \in Conn |->
               IF c \in Closed(s) THEN NoOpt
               ELSE [opt[s][c] EXCEPT !.told = Notified(s, c)]]]

-----------------------------------------------------------------------------
(* Commands of a logged-in client.  Before a command is dispatched,        *)
(* handle_connection() reports the end of a series of share or unshare     *)
(* commands to the peers, if there are any.                                *)

\* a series of shares takes precedence over a series of unshares
Due(u, tag) == IF u.sharing THEN tag # "ADD" ELSE u.unsharing /\ tag # "REMOVE"

Reports(s, n, tag) == Servers(s) # {} /\ Due(ext[s][n], tag)

\* the entry after the report: one flag is reset
Reported(s, n, tag) ==
  IF ~Reports(s, n, tag) THEN ext[s][n]
  ELSE IF ext[s][n].sharing THEN [ext[s][n] EXCEPT !.sharing = FALSE]
                            ELSE [ext[s][n] EXCEPT !.unsharing = FALSE]

Report(s, n, tag) ==
  IF Reports(s, n, tag) THEN <<SharingMsg(n, ext[s][n].shared)>> ELSE <<>>

Client(s, c) == /\ phase[s] = "read"
                /\ conn[s][c].class = "user" /\ ~conn[s][c].destroy
                /\ \A t \in Server : Len(chan[s][t]) < MaxQueue
                /\ UNCHANGED <<users, conn, end, phase, now, logins, kills, links>>

\* the checks that add_file(), share_file() and, for each file of the list,
\* add_directory() make of the limit and of duplicates
MayShare(s, c, f, u) == /\ Max_Shared = 0 \/ u.shared <= Max_Shared
                        /\ f \notin opt[s][c].files

\* add_file() or share_file(), with insert_datum(), or one file of add_directory()
AddFile(s, c, f) ==
  LET n == conn[s][c].nick
      u == Reported(s, n, "ADD")
  IN  /\ Client(s, c)
      /\ chan' = PassOn(chan, s, None, Report(s, n, "ADD"))
      /\ IF MayShare(s, c, f, u)
         THEN /\ ext' = [ext EXCEPT ![s][n] =
                           [u EXCEPT !.shared = @ + 1, !.sharing = TRUE]]
              /\ opt' = [opt EXCEPT ![s][c].files = @ \cup {f}]
              /\ num' = [num EXCEPT ![s] = @ + 1]
              /\ loc' = [loc EXCEPT ![s] = @ + 1]
         ELSE /\ ext' = [ext EXCEPT ![s][n] = u]
              /\ UNCHANGED <<opt, num, loc>>
      /\ UNCHANGED hot

\* remove_file()
RemoveFile(s, c, f) ==
  LET n == conn[s][c].nick
      u == Reported(s, n, "REMOVE")
  IN  /\ Client(s, c)
      /\ chan' = PassOn(chan, s, None, Report(s, n, "REMOVE"))
      /\ IF u.shared # 0 /\ f \in opt[s][c].files
         THEN /\ ext' = [ext EXCEPT ![s][n] =
                           [u EXCEPT !.shared = @ - 1, !.unsharing = TRUE]]
              /\ opt' = [opt EXCEPT ![s][c].files = @ \ {f}]
              /\ num' = [num EXCEPT ![s] = @ - 1]
              /\ loc' = [loc EXCEPT ![s] = @ - 1]
         ELSE /\ ext' = [ext EXCEPT ![s][n] = u]
              /\ UNCHANGED <<opt, num, loc>>
      /\ UNCHANGED hot

\* any other command, whose own messages are msgs
Other(s, c, msgs) ==
  LET n == conn[s][c].nick
  IN  /\ Client(s, c)
      /\ chan' = PassOn(chan, s, None, Report(s, n, "OTHER") \o msgs)
      /\ UNCHANGED <<num, loc>>

\* the command changes nothing here
Command(s, c) ==
  LET n == conn[s][c].nick
  IN  /\ Other(s, c, <<>>)
      /\ ext' = [ext EXCEPT ![s][n] = Reported(s, n, "OTHER")]
      /\ UNCHANGED <<opt, hot>>

\* upload_start() and upload_end()
Counted(u, what) == IF what = "START" THEN [u EXCEPT !.uploads = @ + 1]
                    ELSE [u EXCEPT !.uploads = IF @ > 0 THEN @ - 1 ELSE 0]

\* transfer_count_wrapper(): the command is passed on
RelayStart(what, n) == IF what = "START" THEN <<UploadMsg(what, n)>> ELSE <<>>
Relay(what, n) == <<UploadMsg(what, n)>>

Upload(s, c, what) ==
  LET n == conn[s][c].nick
      u == Reported(s, n, "OTHER")
  IN  /\ Other(s, c, Relay(what, n))
      /\ what = "START" => u.uploads < MaxUploads
      /\ ext' = [ext EXCEPT ![s][n] = Counted(u, what)]
      /\ UNCHANGED <<opt, hot>>

\* add_hotlist()
AddHotlist(s, c, n) ==
  LET me == conn[s][c].nick
      ok == /\ Max_Hotlist = 0 \/ Cardinality(opt[s][c].hotlist) <= Max_Hotlist
            /\ c \notin hot[s][n]
  IN  /\ Other(s, c, <<>>)
      /\ ext' = [ext EXCEPT ![s][me] = Reported(s, me, "OTHER")]
      /\ ok
      /\ hot' = [hot EXCEPT ![s][n] = @ \cup {c}]
      /\ opt' = [opt EXCEPT ![s][c] =
                   [opt[s][c] EXCEPT !.hotlist = @ \cup {n},
                                     !.told = IF Known(s, n) THEN @ \cup {n} ELSE @]]

\* remove_hotlist(); an entry that others alone watch is left as it is
RemoveHotlist(s, c, n) ==
  LET me == conn[s][c].nick
  IN  /\ Other(s, c, <<>>)
      /\ ext' = [ext EXCEPT ![s][me] = Reported(s, me, "OTHER")]
      /\ hot[s][n] # {}
      /\ hot' = [hot EXCEPT ![s][n] = @ \ {c}]
      /\ opt' = [opt EXCEPT ![s][c] =
                   [opt[s][c] EXCEPT !.hotlist = @ \ {n}, !.told = @ \ {n}]]

-----------------------------------------------------------------------------
(* Messages of peers *)

\* what a new count of an entry adds to the total
Adds(old, new) == new - old

\* user_sharing(): the notice names a nick, not a session, and is taken for a
\* local user too
RecvSharing(s, t) ==
  LET m == Head(chan[t][s])
      n == m.nick
  IN  /\ Deliver(s, t, "SHARING")
      /\ IF Known(s, n)
         THEN /\ ext' = [ext EXCEPT ![s][n].shared = m.shared]
              /\ num' = [num EXCEPT ![s] = @ + Adds(ext[s][n].shared, m.shared)]
              /\ chan' = PassOn(Received(t, s), s, t, <<m>>)
         ELSE /\ chan' = Received(t, s)
              /\ UNCHANGED <<ext, num>>
      /\ UNCHANGED <<users, conn, end, phase, now, logins, kills, links,
                     opt, hot, loc>>

\* upload_start() and upload_end() from a server; pop_user() refuses a user
\* that is unknown or local
RecvUpload(s, t) ==
  LET m == Head(chan[t][s])
      n == m.nick
  IN  /\ Deliver(s, t, "START") \/ Deliver(s, t, "END")
      /\ IF Known(s, n) /\ ~Local(s, n)
         THEN /\ ext' = [ext EXCEPT ![s][n] = Counted(@, m.type)]
              /\ chan' = PassOn(Received(t, s), s, t, <<m>>)
         ELSE /\ chan' = Received(t, s)
              /\ UNCHANGED ext
      /\ UNCHANGED <<users, conn, end, phase, now, logins, kills, links,
                     opt, hot, num, loc>>

\* sync_user(): the LOGIN of an entry and, if it shares, its count
SyncLogin(s, n) == <<LoginMsg(n, users[s][n])>>
SyncUser(s, n) ==
  <<LoginMsg(n, users[s][n])>> \o
    (IF ext[s][n].shared # 0 THEN <<SharingMsg(n, ext[s][n].shared)>> ELSE <<>>)
SyncUsers(s, q) == FlattenSeq([i \in DOMAIN q |-> SyncUser(s, q[i])])

JoinLink(s, t) ==
  \E q \in Orders(KnownAt(s)) : \/ Open(s, t, SyncUsers(s, q))
                                \/ Acknowledge(s, t, SyncUsers(s, q))

-----------------------------------------------------------------------------
SessionsInit ==
  /\ Init
  /\ ext = [s \in Server |-> [n \in Nick |-> NewUser]]
  /\ opt = [s \in Server |-> [c \in Conn |-> NoOpt]]
  /\ hot = [s \in Server |-> [n \in Nick |-> {}]]
  /\ num = [s \in Server |-> 0]
  /\ loc = [s \in Server |-> 0]

\* steps of UserNet on which the extension only releases what ends
UserStep ==
  \/ Tick
  \/ \E s \in Server :
       \/ \E c \in Conn : \/ \E n \in Nick, ip \in Addr : Login(s, c, n, ip)
                          \/ Disconnect(s, c)
       \/ EndRead(s) \/ Reap(s)
       \/ \E t \in Server : \/ LinkFails(s, t) \/ JoinLink(s, t)
                            \/ RecvLogin(s, t) \/ RecvQuit(s, t)
                            \/ RecvKill(s, t) \/ RecvEof(s, t)

CommandStep ==
  \E s \in Server, c \in Conn :
    \/ \E f \in File : AddFile(s, c, f) \/ RemoveFile(s, c, f)
    \/ Command(s, c)
    \/ \E what \in {"START", "END"} : Upload(s, c, what)
    \/ \E n \in Watched : AddHotlist(s, c, n) \/ RemoveHotlist(s, c, n)

SessionsNext == \/ UserStep /\ Release
                \/ CommandStep
                \/ \E s, t \in Server : RecvSharing(s, t) \/ RecvUpload(s, t)

SessionsSpec == SessionsInit /\ [][SessionsNext]_all_vars

-----------------------------------------------------------------------------
(* Properties *)

\* Every variable of the extension has its type; no total falls below zero.
SessionsTypeOK ==
  /\ ext \in [Server -> [Nick -> Counters]]
  /\ opt \in [Server -> [Conn -> UserOpt]]
  /\ hot \in [Server -> [Nick -> SUBSET Conn]]
  /\ num \in [Server -> Nat] /\ loc \in [Server -> Nat]

\* Num_Files is the sum of the counts of the users known to a server, its peers'
\* included, and Local_Files and the counts of local users are the files their
\* connections hold: no release and no notice counts a file twice, and neither
\* remove_file() nor free_user() counts below zero.
FilesMatch ==
  \A s \in Server :
    /\ num[s] = SumShared(s, Nick)
    /\ loc[s] = SumHeld(s, Conn)
    /\ \A n \in LocalAt(s) :
         ext[s][n].shared = Cardinality(opt[s][users[s][n].con].files)

\* When nothing is in flight every server has the number of files of a user
\* that the user's own server has, unless the report waits for the next command
\* of the client (a comment of handle_connection() accepts that case only).
SharesReach ==
  Quiet => \A s \in Server, n \in Nick :
             LET h == users[s][n].home
             IN  (Known(s, n) /\ Known(h, n)) =>
                   \/ ext[s][n].shared = ext[h][n].shared
                   \/ ext[h][n].sharing \/ ext[h][n].unsharing

\* When nothing is in flight no server believes in more uploads of a user than
\* the user's own server: a server that joined during an upload knows less, and
\* the END of an upload it never heard of takes nothing from another.
NoPhantomUploads ==
  Quiet => \A s \in Server, n \in Nick :
             LET h == users[s][n].home
             IN  (Known(s, n) /\ Known(h, n)) =>
                   ext[s][n].uploads <= ext[h][n].uploads

\* The two ends of the hotlists mirror each other and only logged-in connections
\* watch: hotlist->users never points at a connection that is gone.
HotlistsMirror ==
  \A s \in Server, c \in Conn, n \in Nick :
    /\ c \in hot[s][n] <=> n \in opt[s][c].hotlist
    /\ c \in hot[s][n] => conn[s][c].class = "user"

\* remove_file.c:43 asserts that Local_Files is positive when a file that a
\* connection holds is removed.
RemovalCounted ==
  \A s \in Server, c \in Conn :
    (conn[s][c].class = "user" /\ opt[s][c].files # {}) => loc[s] > 0

\* A client's last notice about a nick on its hotlist is true, whatever ghosts,
\* collisions, kills and splits ended or replaced the session.
NoticesTrue ==
  \A s \in Server, c \in Conn :
    opt[s][c].told = opt[s][c].hotlist \cap KnownAt(s)
=============================================================================
