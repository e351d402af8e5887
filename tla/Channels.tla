----------------------------- MODULE Channels -----------------------------
(***************************************************************************)
(* Chat channels.  A server keeps the table Channels; a channel and its    *)
(* members point at each other (chan->users, user->channels), and so do a  *)
(* channel and those invited to it (chan->invited, user->invited).  A      *)
(* client's command is checked and carried out by its own server, and      *)
(* passed to the peers, where the same handler checks it once more.        *)
(*                                                                         *)
(* The users of Nick are the same throughout; each has one home server and *)
(* one session at a time.  A link comes up and goes down at both ends at   *)
(* once: UserNet and ServerLink have the handshake.                        *)
(***************************************************************************)
EXTENDS Integers, Sequences, FiniteSets, SequencesExt

CONSTANTS
  Server,     \* server names
  Edge,       \* Edge[s]: the servers s may be linked with
  Linked0,    \* TRUE if every edge is linked at the start
  Nick,       \* user nicks
  Home,       \* Home[n]: the server where n logs in
  Level,      \* Level[n]: the user level of n
  Muzzled,    \* users muzzled on every channel
  Chan,       \* channel names
  Registered, \* the channels of the channels file
  FileOps,    \* the operators the channels file gives them
  Rollover,   \* Rollover[c]: the name join() tries when c is full
  Limits,     \* the values of a channel limit; 0 is no limit
  Channel_Limit,     \* limit of a new channel
  Max_User_Channels, \* number of channels a user may join
  Strict,     \* TRUE if users may not create channels
  Modes,      \* the channel modes in use
  Commands,   \* the commands that clients use
  Ruled,      \* the channels on which they use others than JOIN and PART
  MaxQueue,   \* bound on the commands queued on a link
  MaxLinks,   \* bound on the times a link is set up
  None        \* no server, no nick, no channel

USER == 1
MODERATOR == 2
ELITE == 4

ASSUME Setting ==
  /\ Edge \in [Server -> SUBSET Server] /\ Home \in [Nick -> Server]
  /\ Level \in [Nick -> 0 .. ELITE]
  /\ Muzzled \subseteq Nick /\ FileOps \subseteq Nick
  /\ Registered \cup Ruled \subseteq Chan /\ Rollover \in [Chan -> Chan \cup {None}]
  /\ Modes \subseteq {"MODERATED", "INVITE"} /\ Limits \subseteq Nat /\ Channel_Limit \in Limits
  /\ {Max_User_Channels, MaxQueue, MaxLinks} \subseteq Nat /\ {Strict, Linked0} \subseteq BOOLEAN
  /\ None \notin Chan \cup Nick \cup Server

VARIABLES
  srv,   \* srv[s]: the tables of server s
  net,   \* net[s][t]: messages from s that t has not read
  up,    \* the pairs of servers that are linked
  links  \* how many times a link was set up

vars == <<srv, net, up, links>>

-----------------------------------------------------------------------------
(* Data *)

\* A CHANNEL.  user is the flag ON_CHANNEL_USER (not in the channels file);
\* flags[n] are the CHANUSER flags of member n.
ChanRec ==
  [exists : BOOLEAN, user : BOOLEAN, modes : SUBSET Modes,
   limit : Limits, level : {USER, MODERATOR}, members : SUBSET Nick,
   flags : [Nick -> SUBSET {"op", "voice", "muzzled"}],
   ops : SUBSET Nick, invited : SUBSET Nick, bans : SUBSET Nick]

\* the channel join() makes
NewChan == [exists |-> TRUE, user |-> TRUE, modes |-> {}, limit |-> Channel_Limit,
            level |-> USER, members |-> {}, flags |-> [n \in Nick |-> {}],
            ops |-> {}, invited |-> {}, bans |-> {}]
NoChan  == [NewChan EXCEPT !.exists = FALSE]

\* load_channels()
Predefined == [NewChan EXCEPT !.user = FALSE, !.ops = FileOps]

\* The tables of one server: users online and the link each is behind, the
\* channels, and each user's lists of channels joined and of invitations.
Tables == [on : SUBSET Nick, via : [Nick -> Server \cup {None}], chan : [Chan -> ChanRec],
           joined : [Nick -> SUBSET Chan], asked : [Nick -> SUBSET Chan]]

\* A command as the client and the peers send it; the sender None stands for the
\* server itself.  A limit or level sent to a new peer has a time-stamp.
Plain    == {"JOIN", "PART", "CLEAR", "CLEARBANS", "DROP"}
Targeted == {"KICK", "OP", "DEOP", "INVITE", "VOICE", "UNVOICE", "MUZZLE",
             "UNMUZZLE", "BAN", "UNBAN"}
Message ==
  [cmd : {"LOGIN", "QUIT"}, by : Nick]
    \cup [cmd : Plain, by : Nick, ch : Chan]
    \cup [cmd : Targeted, by : Nick \cup {None}, ch : Chan, nick : Nick]
    \cup [cmd : {"MODE"}, by : Nick \cup {None}, ch : Chan, on : BOOLEAN, mode : Modes]
    \cup [cmd : {"LIMIT"}, by : Nick \cup {None}, ch : Chan, val : Limits, ts : BOOLEAN]
    \cup [cmd : {"LEVEL"}, by : Nick \cup {None}, ch : Chan, val : {USER, MODERATOR},
          ts : BOOLEAN]

\* the level of a sender; no handler checks the rights of a server
Rank(n)        == IF n = None THEN ELITE ELSE Level[n]
Mod(n)         == Rank(n) >= MODERATOR
IsOp(v, c, n)  == "op" \in v.chan[c].flags[n]                \* is_chanop()
Rules(v, c, n) == Mod(n) \/ IsOp(v, c, n)

\* an empty channel of users is destroyed, one of the channels file is kept
Emptied(h, gone) == h.user /\ h.members \subseteq gone

\* free_channel() withdraws the invitations to the channels of dead
Withdraw(v, dead) == [n \in Nick |-> v.asked[n] \ {c \in dead : n \in v.chan[c].invited}]

\* the members gone leave a channel that stays
Lose(h, gone) == [h EXCEPT !.members = @ \ gone,
                           !.flags = [n \in Nick |-> IF n \in gone THEN {} ELSE @[n]]]

\* part_channel() for every pair <<user, channel>> of S
PartAll(v, S) ==
  LET gone(c) == {n \in Nick : <<n, c>> \in S}
      dead    == {c \in Chan : gone(c) # {} /\ Emptied(v.chan[c], gone(c))}
  IN  [v EXCEPT !.chan = [c \in Chan |-> IF c \in dead THEN NoChan
                                       ELSE Lose(v.chan[c], gone(c))],
                !.joined = [n \in Nick |-> @[n] \ {c \in Chan : <<n, c>> \in S}],
                !.asked = Withdraw(v, dead)]

\* free_user() of every user of S, who leave all lists
Uninvite(h, gone) == [h EXCEPT !.invited = @ \ gone]
DropInvites(v, S) ==
  [v EXCEPT !.chan = [c \in Chan |-> Uninvite(v.chan[c], {n \in S : c \in v.asked[n]})],
            !.asked = [n \in Nick |-> IF n \in S THEN {} ELSE @[n]]]
Forget(v, S) ==
  [DropInvites(v, S) EXCEPT !.on = @ \ S,
                            !.via = [n \in Nick |-> IF n \in S THEN None ELSE @[n]]]
FreeUserOnly(v, S) == Forget(v, S)
FreeUser(v, S) == Forget(PartAll(v, {p \in S \X Chan : p[2] \in v.joined[p[1]]}), S)

(* join() *)

\* an operator of c or a moderator passes the checks on bans, invitation, limit
Privileged(v, c, n) == Mod(n) \/ n \in v.chan[c].ops

Barred(v, c, n) ==
  LET h == v.chan[c]
  IN  \/ c \in v.joined[n] \/ Level[n] < h.level
      \/ ~Privileged(v, c, n) /\ (n \in h.bans \/ ("INVITE" \in h.modes /\ c \notin v.asked[n]))

Full(v, c, n) == /\ ~Privileged(v, c, n) /\ v.chan[c].limit > 0
                 /\ Cardinality(v.chan[c].members) >= v.chan[c].limit

\* the channel n gets into when asking for c, or None
Landing(v, n) ==
  LET landing[c \in Chan] ==
        IF ~v.chan[c].exists THEN IF Strict /\ ~Mod(n) THEN None ELSE c
        ELSE IF Barred(v, c, n) THEN None
        ELSE IF ~Full(v, c, n) THEN c
        ELSE IF v.chan[c].user \/ Rollover[c] = None THEN None
        ELSE landing[Rollover[c]]
  IN  landing

MayJoin(v, m) ==
  /\ ~Mod(m.by) => Cardinality(v.joined[m.by]) <= Max_User_Channels /\ m.by \notin Muzzled
  /\ Landing(v, m.by)[m.ch] \in Chan

\* n becomes a member
Entered(h, n) ==
  [h EXCEPT !.members = @ \cup {n},
            !.flags[n] = IF n \in h.ops THEN {"op"} ELSE {},
            !.invited = IF "INVITE" \in h.modes THEN @ \ {n} ELSE @]
Enter(v, n, c) ==
  LET h == IF v.chan[c].exists THEN v.chan[c] ELSE NewChan
  IN  [v EXCEPT !.chan[c] = Entered(h, n),
                !.joined[n] = @ \cup {c},
                !.asked[n] = IF "INVITE" \in h.modes THEN @ \ {c} ELSE @]

\* can_kick()
MayKick(v, c, a, b) == \/ Level[a] = ELITE \/ Level[a] > Level[b]
                       \/ IsOp(v, c, a) /\ Level[a] = Level[b]

\* whom clear_channel() by a puts out of c
Cleared(v, c, a) == {b \in v.chan[c].members \ {a} : MayKick(v, c, a, b)}

\* channel_op(): c becomes a channel for the channels file
Op(v, c, n) == [v EXCEPT !.chan[c] = [v.chan[c] EXCEPT
  !.ops = @ \cup {n}, !.user = FALSE,
  !.flags[n] = IF n \in v.chan[c].members THEN @ \cup {"op"} ELSE @]]
DeopList(v, c, n) == [v EXCEPT !.chan[c] = [v.chan[c] EXCEPT !.ops = @ \ {n}]]
Deop(v, c, n) == [v EXCEPT !.chan[c] = [v.chan[c] EXCEPT
  !.ops = @ \ {n}, !.flags[n] = @ \ {"op"}]]

\* channel_voice() and channel_muzzle(): plus is set, minus reset, if n is in c
MarkOnly(v, c, n, plus, minus) ==
  [v EXCEPT !.chan[c].flags[n] =
     IF n \in v.chan[c].members THEN IF plus = {} THEN @ \ minus ELSE @ \cup plus ELSE @]
Mark(v, c, n, plus, minus) ==
  [v EXCEPT !.chan[c].flags[n] =
     IF n \in v.chan[c].members THEN (@ \ minus) \cup plus ELSE @]

\* channel_invite() puts both on a list
Ask(v, c, n) == [v EXCEPT !.chan[c].invited = @ \cup {n}, !.asked[n] = @ \cup {c}]

\* channel_drop()
DropAlways(v, c) == [v EXCEPT !.chan[c].user = TRUE]
Drop(v, c) == IF v.chan[c].members # {} THEN [v EXCEPT !.chan[c].user = TRUE]
              ELSE [v EXCEPT !.chan[c] = NoChan, !.asked = Withdraw(v, {c})]

-----------------------------------------------------------------------------
Init ==
  /\ srv = [s \in Server |->
       [on |-> {}, via |-> [n \in Nick |-> None],
        chan |-> [c \in Chan |-> IF c \in Registered THEN Predefined ELSE NoChan],
        joined |-> [n \in Nick |-> {}], asked |-> [n \in Nick |-> {}]]]
  /\ net = [s \in Server |-> [t \in Server |-> <<>>]]
  /\ up = IF Linked0 THEN {e \in Server \X Server : e[2] \in Edge[e[1]]} ELSE {}
  /\ links = 0

Servers(s) == {t \in Server : <<s, t>> \in up}

\* pass_message(): every peer but the one it came from gets m
PassRemote(q, s, from, m) ==
  [q EXCEPT ![s] = [t \in Server |-> IF t \in Servers(s) \ {from} /\ from # None
                                     THEN Append(q[s][t], m) ELSE q[s][t]]]
PassOn(q, s, from, m) ==
  [q EXCEPT ![s] = [t \in Server |-> IF t \in Servers(s) \ {from}
                                     THEN Append(q[s][t], m) ELSE q[s][t]]]

\* A handler at s runs for m, read from a client (from is None) or from a
\* server.  If the checks ok fail, the message is dropped; else the tables
\* become v and out is passed on.
Handle(s, from, m, ok, v, out) ==
  LET rest == IF from = None THEN net ELSE [net EXCEPT ![from][s] = Tail(@)]
  IN  /\ from = None => ok /\ \A t \in Servers(s) : Len(net[s][t]) < MaxQueue
      /\ srv' = IF ok THEN [srv EXCEPT ![s] = v] ELSE srv
      /\ net' = IF ok THEN PassOn(rest, s, from, out) ELSE rest
      /\ UNCHANGED <<up, links>>

Login(s, from, m) ==
  /\ m.cmd = "LOGIN"
  /\ Handle(s, from, m, m.by \notin srv[s].on,
            [srv[s] EXCEPT !.on = @ \cup {m.by}, !.via[m.by] = from], m)

Quit(s, from, m) ==
  /\ m.cmd = "QUIT"
  /\ Handle(s, from, m, m.by \in srv[s].on, FreeUser(srv[s], {m.by}), m)

Join(s, from, m) ==
  /\ m.cmd = "JOIN"
  /\ LET v == srv[s]
         c == Landing(v, m.by)[m.ch]
     IN  Handle(s, from, m, m.by \in v.on /\ MayJoin(v, m),
                Enter(v, m.by, c), [m EXCEPT !.ch = c])

Part(s, from, m) ==
  /\ m.cmd = "PART"
  /\ Handle(s, from, m, m.ch \in srv[s].joined[m.by], PartAll(srv[s], {<<m.by, m.ch>>}), m)

\* a command on an existing channel by a server or a user who is online
Valid(v, m) == m.by \in v.on \cup {None} /\ v.chan[m.ch].exists

Kick(s, from, m) ==
  LET v == srv[s]
  IN  /\ m.cmd = "KICK"
      /\ Handle(s, from, m,
           /\ Valid(v, m) /\ m.nick \in v.on
           /\ m.ch \in v.joined[m.by] \cap v.joined[m.nick]
           /\ Level[m.by] >= v.chan[m.ch].level /\ MayKick(v, m.ch, m.by, m.nick),
           PartAll(v, {<<m.nick, m.ch>>}), m)

Clear(s, from, m) ==
  LET v == srv[s]
  IN  /\ m.cmd = "CLEAR"
      /\ Handle(s, from, m, Valid(v, m) /\ Level[m.by] >= v.chan[m.ch].level,
                PartAll(v, Cleared(v, m.ch, m.by) \X {m.ch}), m)

SetOp(s, from, m) ==
  LET v == srv[s]
      n == m.nick
  IN  /\ m.cmd \in {"OP", "DEOP"}
      /\ Handle(s, from, m, Valid(v, m) /\ Mod(m.by),
           IF m.cmd = "OP"
           THEN IF n \in v.chan[m.ch].ops THEN v ELSE Op(v, m.ch, n)
           ELSE IF n \in v.chan[m.ch].ops THEN Deop(v, m.ch, n) ELSE v, m)

Mode(s, from, m) ==
  LET v == srv[s]
  IN  /\ m.cmd = "MODE"
      /\ Handle(s, from, m,
           /\ Valid(v, m) /\ Rank(m.by) >= v.chan[m.ch].level /\ Rules(v, m.ch, m.by)
           /\ m.on # (m.mode \in v.chan[m.ch].modes),
           [v EXCEPT !.chan[m.ch].modes = IF m.on THEN @ \cup {m.mode} ELSE @ \ {m.mode}], m)

Invite(s, from, m) ==
  LET v == srv[s]
      h == v.chan[m.ch]
  IN  /\ m.cmd = "INVITE"
      /\ Handle(s, from, m,
           /\ Valid(v, m) /\ "INVITE" \in h.modes /\ Level[m.by] >= h.level
           /\ m.by \in h.members /\ m.nick \in v.on \ h.members
           /\ m.ch \notin v.asked[m.nick],
           Ask(v, m.ch, m.nick), m)

Voice(s, from, m) ==
  LET v == srv[s]
  IN  /\ m.cmd \in {"VOICE", "UNVOICE"}
      /\ Handle(s, from, m, Valid(v, m) /\ Rules(v, m.ch, m.by),
           IF m.cmd = "VOICE" THEN Mark(v, m.ch, m.nick, {"voice"}, {"muzzled"})
                              ELSE Mark(v, m.ch, m.nick, {}, {"voice"}), m)

Muzzle(s, from, m) ==
  LET v == srv[s]
  IN  /\ m.cmd \in {"MUZZLE", "UNMUZZLE"}
      /\ Handle(s, from, m,
           /\ Valid(v, m) /\ Rules(v, m.ch, m.by) /\ m.nick \in v.on
           /\ Rank(m.by) = ELITE \/ Rank(m.by) >= Level[m.nick],
           IF m.cmd = "MUZZLE" THEN Mark(v, m.ch, m.nick, {"muzzled"}, {"voice"})
                               ELSE Mark(v, m.ch, m.nick, {}, {"muzzled"}), m)

Ban(s, from, m) ==
  LET v == srv[s]
  IN  /\ m.cmd \in {"BAN", "UNBAN"}
      /\ Handle(s, from, m,
           /\ Valid(v, m) /\ Rules(v, m.ch, m.by)
           /\ (m.cmd = "BAN") # (m.nick \in v.chan[m.ch].bans),
           [v EXCEPT !.chan[m.ch].bans = IF m.cmd = "BAN" THEN @ \cup {m.nick}
                                                          ELSE @ \ {m.nick}], m)

ClearBans(s, from, m) ==
  LET v == srv[s]
  IN  /\ m.cmd = "CLEARBANS"
      /\ Handle(s, from, m,
           Valid(v, m) /\ m.ch \in v.joined[m.by] /\ Rules(v, m.ch, m.by),
           [v EXCEPT !.chan[m.ch].bans = {}], m)

\* channel_limit() and channel_level() check the rights of their own clients only.
\* Whether a time-stamp is newer than that of the channel is left open.
Newer(m) == IF m.ts THEN BOOLEAN ELSE {FALSE}
Limit(s, from, m) ==
  LET v == srv[s]
  IN  /\ m.cmd = "LIMIT"
      /\ \E newer \in Newer(m) : Handle(s, from, m,
           /\ v.chan[m.ch].exists /\ ~newer /\ v.chan[m.ch].limit # m.val
           /\ from = None => m.by \in v.on /\ Rules(v, m.ch, m.by),
           [v EXCEPT !.chan[m.ch].limit = m.val], [m EXCEPT !.ts = FALSE])

SetLevel(s, from, m) ==
  LET v == srv[s]
  IN  /\ m.cmd = "LEVEL"
      /\ \E newer \in Newer(m) : Handle(s, from, m,
           /\ v.chan[m.ch].exists /\ ~newer /\ v.chan[m.ch].level # m.val
           /\ from = None => /\ m.by \in v.on /\ Rules(v, m.ch, m.by)
                             /\ Level[m.by] >= v.chan[m.ch].level /\ Level[m.by] >= m.val,
           [v EXCEPT !.chan[m.ch].level = m.val], [m EXCEPT !.ts = FALSE])

DropChan(s, from, m) ==
  LET v == srv[s]
  IN  /\ m.cmd = "DROP"
      /\ Handle(s, from, m,
           /\ Valid(v, m) /\ ~v.chan[m.ch].user
           /\ Mod(m.by) /\ Level[m.by] >= v.chan[m.ch].level,
           Drop(v, m.ch), m)

Handler(s, from, m) ==
  \/ Login(s, from, m) \/ Quit(s, from, m)
  \/ Join(s, from, m) \/ Part(s, from, m)
  \/ Kick(s, from, m) \/ Clear(s, from, m)
  \/ SetOp(s, from, m) \/ Mode(s, from, m) \/ Invite(s, from, m)
  \/ Voice(s, from, m) \/ Muzzle(s, from, m)
  \/ Ban(s, from, m) \/ ClearBans(s, from, m)
  \/ Limit(s, from, m) \/ SetLevel(s, from, m) \/ DropChan(s, from, m)

\* what the clients send, and the servers they send it to
Typed == [s \in Server |-> {m \in Message :
  /\ m.cmd \in Commands /\ m.by # None /\ Home[m.by] = s
  /\ m.cmd \notin {"LOGIN", "QUIT", "JOIN", "PART"} => m.ch \in Ruled
  /\ m.cmd \in {"LIMIT", "LEVEL"} => ~m.ts}]
Client(s) == \E m \in Typed[s] : Handler(s, None, m)
Receive(s, t) == net[t][s] # <<>> /\ Handler(s, t, Head(net[t][s]))

(* Links *)

\* synch_server(): every user with the channels joined, then every channel.  Of the
\* modes only the moderation is sent, and no bans or invitations are.
Given(flag, m) == IF flag THEN <<m>> ELSE <<>>
Each(S, F(_))  == LET q == SetToSeq(S) IN FlattenSeq([i \in DOMAIN q |-> F(q[i])])

SyncUserOnly(v, n) == <<[cmd |-> "LOGIN", by |-> n]>>
SyncUser(v, n) ==
  <<[cmd |-> "LOGIN", by |-> n]>>
    \o Each(v.joined[n], LAMBDA c : <<[cmd |-> "JOIN", by |-> n, ch |-> c]>>)

SyncChan(v, c) ==
  LET h == v.chan[c]
      told(cmd, n) == [cmd |-> cmd, by |-> None, ch |-> c, nick |-> n]
      flag(n) == IF "voice" \in h.flags[n] THEN <<told("VOICE", n)>>
                 ELSE Given("muzzled" \in h.flags[n], told("MUZZLE", n))
      stamped(cmd, val) == [cmd |-> cmd, by |-> None, ch |-> c, val |-> val, ts |-> TRUE]
  IN  Given(h.level # USER, stamped("LEVEL", h.level))
        \o Given(h.limit # Channel_Limit, stamped("LIMIT", h.limit))
        \o Each(h.ops, LAMBDA n : <<told("OP", n)>>)
        \o Given("MODERATED" \in h.modes,
                 [cmd |-> "MODE", by |-> None, ch |-> c, on |-> TRUE, mode |-> "MODERATED"])
        \o Each(h.members, flag)

Sync(v) == Each(v.on, LAMBDA n : SyncUser(v, n))
             \o Each({c \in Chan : v.chan[c].exists}, LAMBDA c : SyncChan(v, c))

LinkUp(s, t) ==
  /\ t \in Edge[s] /\ <<s, t>> \notin up
  /\ links < MaxLinks /\ links' = links + 1
  /\ up' = up \cup {<<s, t>>, <<t, s>>}
  /\ net' = [net EXCEPT ![s][t] = Sync(srv[s]), ![t][s] = Sync(srv[t])]
  /\ UNCHANGED srv

\* remove_connection() of the link at both ends: the users behind it have quit
LinkDown(s, t) ==
  LET cut     == {<<s, t>>, <<t, s>>}
      gone    == [u \in Server |-> {n \in Nick : <<u, srv[u].via[n]>> \in cut}]
      quit(n) == <<[cmd |-> "QUIT", by |-> n]>>
  IN  /\ <<s, t>> \in up /\ links < MaxLinks
      /\ up' = up \ cut
      /\ srv' = [u \in Server |-> FreeUser(srv[u], gone[u])]
      /\ net' = [u \in Server |-> [x \in Server |->
                   IF <<u, x>> \in cut THEN <<>>
                   ELSE IF x \in Servers(u) THEN net[u][x] \o Each(gone[u], quit)
                   ELSE net[u][x]]]
      /\ UNCHANGED links

Next == \E s \in Server : \/ Client(s)
                          \/ \E t \in Server : \/ Receive(s, t)
                                                \/ LinkUp(s, t) \/ LinkDown(s, t)

Spec == Init /\ [][Next]_vars

-----------------------------------------------------------------------------
(* Properties *)

\* Every variable has its type.
TypeOK == /\ srv \in [Server -> Tables]
          /\ net \in [Server -> [Server -> Seq(Message)]]
          /\ up \subseteq Server \X Server /\ links \in Nat

\* A channel's list of members and its members' lists of channels say the same,
\* and so do the two lists of invitations, through joins, quits, mode changes and
\* the destruction of channels with guests still invited; all are about users that
\* are online and channels that exist: part_channel(), notify_ops() and
\* free_channel() follow no dangling pointer.
Mirrors(v) ==
  \A n \in Nick, c \in Chan :
    LET h == v.chan[c]
    IN  /\ n \in h.members <=> c \in v.joined[n]
        /\ n \in h.invited <=> c \in v.asked[n]
        /\ n \in h.members \cup h.invited => n \in v.on /\ h.exists
ListsMirror == \A s \in Server : Mirrors(srv[s])

\* No channel made by users outlives its last member.
Populated(h) == h.exists /\ h.user => h.members # {}
UserChannelsPopulated == \A s \in Server, c \in Chan : Populated(srv[s].chan[c])

\* The members with operator status are exactly those on the operator list,
\* whichever came first, the join or the op, and across drops and rejoins.
StatusTrue(h) == \A n \in Nick : n \in h.members => ("op" \in h.flags[n] <=> n \in h.ops)
OpsMatch == \A s \in Server, c \in Chan : StatusTrue(srv[s].chan[c])

\* check_permission(): whether member n may speak on c
MaySpeak(v, c, n) ==
  \/ Rules(v, c, n)
  \/ IF "MODERATED" \in v.chan[c].modes THEN "voice" \in v.chan[c].flags[n]
                                        ELSE "muzzled" \notin v.chan[c].flags[n]

\* A plain member muzzled on a channel stays silent when the channel becomes
\* moderated, where check_permission() looks at the voice flag alone.
MuzzledAreSilent ==
  \A s \in Server, c \in Chan, n \in Nick :
    "muzzled" \in srv[s].chan[c].flags[n] /\ ~Rules(srv[s], c, n) => ~MaySpeak(srv[s], c, n)

Quiet == \A s, t \in Server : net[s][t] = <<>>

\* When nothing is in flight, linked servers have the same members in each channel,
\* whatever was joined and left while they were apart; and a voice or a muzzle that
\* only the server of its owner can have given has come over: synch_server() tells
\* it all, in an order the handlers accept.
RuledAtHome(n) == \A m \in Nick : Mod(m) => Home[m] = Home[n]
MembersAgree ==
  Quiet => \A s \in Server, c \in Chan : \A t \in Servers(s) :
    LET a == srv[s].chan[c]
        b == srv[t].chan[c]
    IN  /\ a.members = b.members
        /\ \A n \in Nick : RuledAtHome(n) => a.flags[n] = b.flags[n]

\* When all commands come from the clients of one server and nothing is in flight,
\* a peer that checked each of them once more has come to the same tables: a
\* rollover, a ban or an operator's right is never judged differently.
Replicated == Quiet =>
  \A s, t \in Server : srv[s] = [srv[t] EXCEPT !.via = srv[s].via]

\* synch.c 108: sync_chan() gives send_cmd() the four modes of a channel, so a new
\* peer comes to have them all.
ModesArrive ==
  Quiet => \A s \in Server, c \in Chan : \A t \in Servers(s) :
    srv[s].chan[c].exists /\ srv[t].chan[c].exists =>
      srv[s].chan[c].modes = srv[t].chan[c].modes

\* NEWS 253: a channel's limit is the maximum number of users allowed in it.  No
\* one here may pass the limit by rank.
LimitHeld ==
  \A s \in Server, c \in Chan :
    LET h == srv[s].chan[c]
    IN  h.exists /\ h.limit > 0 =>
          Cardinality({n \in Nick : n \in srv[Home[n]].chan[c].members}) <= h.limit

\* list.c 27: list_delete() is given a list that is not empty.  join() hands it
\* both lists of invitations of an invite-only channel.
ListsNotEmpty ==
  [][\A s \in Server, n \in Nick, c \in Chan :
       LET h == srv[s].chan[c]
       IN  h.exists /\ "INVITE" \in h.modes /\ n \in srv'[s].chan[c].members \ h.members =>
             h.invited # {} /\ srv[s].asked[n] # {}]_vars
=============================================================================
