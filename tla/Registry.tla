----------------------------- MODULE Registry -----------------------------
(***************************************************************************)
(* The registration of one account.  Every server has its own database     *)
(* User_Db, saved in the file users; an administrator's or the user's      *)
(* command changes it and is passed on to the servers that are linked.     *)
(* Time-stamps, and what is sent when the user logs in or a link comes up, *)
(* are to bring the databases and the user's entries together again.       *)
(*                                                                         *)
(* A handler, with the removal of what it marks, is one step.  A link      *)
(* comes up and goes down at both ends at once: UserNet and ServerLink     *)
(* have the handshake.  Administrators are elite and known to every server *)
(* they are linked with.  The server options are those of the sample       *)
(* configuration: neither registered_only nor auto_register.               *)
(***************************************************************************)
EXTENDS Integers, Sequences, FiniteSets

CONSTANTS
  Server,      \* server names
  Edge,        \* Edge[s]: the servers s may be linked with
  Home,        \* the server the user logs in at
  Admins,      \* the servers at which administrators give commands
  Pass,        \* passwords
  Level,       \* the user levels that are given
  Commands,    \* the commands that are given
  None,        \* no entry, no server, no time-stamp
  Db0,         \* Db0[s]: the entry of the users file of s at the start
  Linked0,     \* TRUE if every edge is linked at the start
  Careful,     \* TRUE if commands, logins, new links and the clock wait for the
               \* effects of what was before, and commands for another second
  Fragile,     \* the servers that save their files and crash
  Faulty,      \* the servers whose disk fails in ways userdb_dump() does not make good
  NickExpire,  \* Nick_Expire
  MaxTime,     \* bound on the clock
  MaxCommands, \* bound on the commands
  MaxLinks,    \* bound on the times a link is set up
  MaxLogins,   \* bound on the logins
  MaxDumps,    \* bound on the times a database is saved
  MaxCrashes   \* bound on the crashes of servers

LEVEL_USER      == 1
LEVEL_MODERATOR == 2

\* A USERDB entry: pass is the hash of a password, which tells passwords apart
Entry == [pass : Pass, level : Level, ts : Nat, seen : Nat,
          muzzled : BOOLEAN, cloaked : BOOLEAN]

ASSUME Setting ==
  /\ Edge \in [Server -> SUBSET Server] /\ Home \in Server /\ Admins \cup Fragile \cup Faulty \subseteq Server
  /\ LEVEL_USER \in Level /\ Level \subseteq Nat
  /\ Db0 \in [Server -> Entry \cup {None}]
  /\ None \notin Entry \cup Server \cup Nat
  /\ {Linked0, Careful} \subseteq BOOLEAN
  /\ {NickExpire, MaxTime, MaxCommands, MaxLinks, MaxLogins, MaxDumps, MaxCrashes}
       \subseteq Nat

VARIABLES
  db,     \* db[s]: the entry of the account in User_Db of s
  user,   \* user[s]: the entry of the user in Users of s
  up,     \* the pairs of servers that are linked
  net,    \* net[s][t]: what s has sent to t and t has not read
  saved,  \* saved[s]: the file users of s
  tmp,    \* tmp[s]: the file users.tmp of s
  slip,   \* slip[s]: history, what has gone wrong since users was last replaced
  step,   \* step[s]: runs, is in a step of userdb_dump(), or is down
  now,    \* the clock
  commands, links, logins, dumps, crashes   \* how much of the bounds has been used

file == <<saved, tmp, slip>>
used == <<commands, links, logins, dumps, crashes>>
vars == <<db, user, up, net, file, step, now, used>>

-----------------------------------------------------------------------------
(* Data *)

User == [con : Server \cup {None}, pass : Pass, level : Level,
         muzzled : BOOLEAN, cloaked : BOOLEAN]

Message ==
  [type : {"QUIT", "KILL", "MUZZLE", "UNMUZZLE", "NUKE"}]
    \cup [type : {"LOGIN", "PASS", "ALTER"}, pass : Pass]
    \cup [type : {"LEVEL"}, level : Level, ts : Nat \cup {None}]
    \cup [type : {"CLOAK"}, on : BOOLEAN]
    \cup [type : {"REGISTER"}, pass : Pass, level : Level]
    \cup [type : {"REGINFO"}, pass : Pass, level : Level, ts : Nat, seen : Nat]

Msg(type)            == [type |-> type]
LoginMsg(pw)         == [type |-> "LOGIN", pass |-> pw]
LevelMsg(level, ts)  == [type |-> "LEVEL", level |-> level, ts |-> ts]
CloakMsg(on)         == [type |-> "CLOAK", on |-> on]
RegInfo(d)           == [type |-> "REGINFO", pass |-> d.pass, level |-> d.level,
                         ts |-> d.ts, seen |-> d.seen]

Registered(s) == db[s] # None
Online(s)     == user[s] # None
Local(s)      == Online(s) /\ user[s].con = None
Servers(s)    == {t \in Server : <<s, t>> \in up}
Runs(s)       == step[s] = "runs"

\* send_cmd() to every server of T, pass_message() to all but one
Send(q, s, T, msgs)       == [q EXCEPT ![s] = [t \in Server |->
                                IF t \in T THEN q[s][t] \o msgs ELSE q[s][t]]]
SendAll(q, s, except, msg) == Send(q, s, Servers(s), <<msg>>)                \* a mutant
PassOn(q, s, except, msg)  == Send(q, s, Servers(s) \ {except}, <<msg>>)

\* create_db(), and the other places that make an entry
NewEntry(pw, level) == [pass |-> pw, level |-> level, ts |-> now, seen |-> now,
                        muzzled |-> FALSE, cloaked |-> FALSE]
CreateDb(u)         == NewEntry(u.pass, u.level)

\* nothing is on its way and no database is being saved
Quiet == /\ \A s, t \in Server : net[s][t] = <<>>
         /\ \A s \in Server : Runs(s)
-----------------------------------------------------------------------------
\* a file of the database: not there; cut short, so that the line of the account is not
\* in it; or whole, as far as the account goes
File     == [kind : {"none", "short", "whole"}, entry : Entry \cup {None}]
Copy(d)  == [kind |-> "whole", entry |-> d]
Short    == [kind |-> "short", entry |-> None]
NoFile   == [kind |-> "none", entry |-> None]
Whole(f) == f.kind = "whole"

\* slip[s]: nothing; a failed write that nobody noticed; a failed rename(); or one after
\* which users.tmp has been opened again
Slips == {"none", "unwritten", "unnamed", "reopened"}

Init ==
  /\ db   = Db0
  /\ user = [s \in Server |-> None]
  /\ up   = IF Linked0 THEN {e \in Server \X Server : e[2] \in Edge[e[1]]} ELSE {}
  /\ net  = [s \in Server |-> [t \in Server |-> <<>>]]
  /\ saved = [s \in Server |-> Copy(Db0[s])]
  /\ tmp  = [s \in Server |-> NoFile]
  /\ slip = [s \in Server |-> "none"]
  /\ step = [s \in Server |-> "runs"]
  /\ now  = 1
  /\ commands = 0 /\ links = 0 /\ logins = 0 /\ dumps = 0 /\ crashes = 0

(* Handlers.  from is the link a command came by, None for a local client; q   *)
(* is net without the command.                                                 *)

Ignore(q) == net' = q /\ UNCHANGED <<db, user>>

\* what login() tells every server of the account d
Given(flag, msg) == IF flag THEN <<msg>> ELSE <<>>
ToldLevel(d)     == Given(d.level # LEVEL_USER, LevelMsg(d.level, d.ts))     \* a mutant
Told(d)          == Given(d.level # LEVEL_USER, LevelMsg(d.level, d.ts))
                      \o Given(d.muzzled, Msg("MUZZLE")) \o Given(d.cloaked, CloakMsg(TRUE))

\* login() once it is admitted: the entry, and what User_Db holds for it
Admit(s, from, pw, d, q) ==
  LET u == [con |-> from, pass |-> pw, level |-> LEVEL_USER,
            muzzled |-> FALSE, cloaked |-> FALSE]
      p == PassOn(q, s, from, LoginMsg(pw))
  IN  IF d = None
      THEN user' = [user EXCEPT ![s] = u] /\ net' = p /\ UNCHANGED db
      ELSE /\ user' = [user EXCEPT ![s] = [u EXCEPT !.level = d.level,
                                            !.muzzled = d.muzzled, !.cloaked = d.cloaked]]
           /\ db' = [db EXCEPT ![s] = [d EXCEPT !.seen = now]]
           /\ net' = Send(p, s, Servers(s), Told(d))

\* login() from a server; a wrong password kills the user and sends what this
\* server has registered.  The older of two sessions stays: see UserNet.
RecvLogin(s, t, m, q) ==
  IF Registered(s) /\ db[s].pass # m.pass
  THEN Ignore(Send(q, s, Servers(s), <<Msg("KILL"), RegInfo(db[s])>>))
  ELSE IF Online(s) THEN Ignore(q)
  ELSE Admit(s, t, m.pass, db[s], q)

\* client_quit() and kill_user() from a server
RecvQuit(s, t, m, q) ==
  IF Online(s) /\ (m.type = "QUIT" => ~Local(s))
  THEN /\ user' = [user EXCEPT ![s] = None] /\ net' = PassOn(q, s, t, m)
       /\ UNCHANGED db
  ELSE Ignore(q)

\* the check of the time-stamp that a server sends
AnyLevel(m, d) == FALSE                                                      \* a mutant
OutOfDate(m, d) == m.ts # None /\ m.ts > d.ts

\* level()
LevelCmd(s, from, m, q) ==
  LET u     == user[s]
      d     == IF Registered(s) \/ ~Online(s) THEN db[s] ELSE CreateDb(u)
      moot  == \/ Registered(s) /\ db[s].level = m.level
               \/ Online(s) /\ u.level = m.level
      keeps(flag) == flag /\ m.level >= LEVEL_MODERATOR
  IN  IF moot \/ d = None THEN Ignore(q)
      ELSE IF from # None /\ OutOfDate(m, d)
      THEN /\ db' = [db EXCEPT ![s] = d] /\ UNCHANGED user
           /\ net' = Send(q, s, {from}, <<LevelMsg(d.level, d.ts)>>)
      ELSE /\ db' = [db EXCEPT ![s] = [d EXCEPT !.level = m.level, !.ts = now,
                                                !.cloaked = keeps(@)]]
           /\ user' = IF ~Online(s) THEN user
                      ELSE [user EXCEPT ![s].level = m.level, ![s].cloaked = keeps(@)]
           /\ net' = PassOn(q, s, from, LevelMsg(m.level, None))

\* muzzle()
Muzzle(s, from, m, q) ==
  LET d == IF Registered(s) \/ ~Online(s) THEN db[s] ELSE CreateDb(user[s])
      muzzled == (Online(s) /\ user[s].muzzled) \/ d.muzzled
  IN  IF d = None THEN Ignore(q)
      ELSE IF muzzled THEN db' = [db EXCEPT ![s] = d] /\ net' = q /\ UNCHANGED user
      ELSE /\ db' = [db EXCEPT ![s] = [d EXCEPT !.muzzled = TRUE]]
           /\ user' = IF Online(s) THEN [user EXCEPT ![s].muzzled = TRUE] ELSE user
           /\ net' = PassOn(q, s, from, m)
Unmuzzle(s, from, m, q) ==
  IF ~Registered(s) \/ ~db[s].muzzled \/ (Online(s) /\ ~user[s].muzzled) THEN Ignore(q)
  ELSE /\ db' = [db EXCEPT ![s].muzzled = FALSE]
       /\ user' = IF Online(s) THEN [user EXCEPT ![s].muzzled = FALSE] ELSE user
       /\ net' = PassOn(q, s, from, m)

\* pop_user(): a server does not give commands for a user who is local
Pops(s, from) == Online(s) /\ (from # None => ~Local(s))

\* cloak(): m.on asks for the cloak to be on, which it is not when it is passed on
Cloak(s, from, m, q) ==
  IF ~Pops(s, from) \/ user[s].level < LEVEL_MODERATOR \/ (m.on /\ user[s].cloaked)
  THEN Ignore(q)
  ELSE /\ user' = [user EXCEPT ![s].cloaked = ~@]
       /\ IF Registered(s)
          THEN /\ db' = [db EXCEPT ![s].cloaked = ~user[s].cloaked, ![s].ts = now]
               /\ net' = PassOn(q, s, from, CloakMsg(FALSE))
          ELSE net' = q /\ UNCHANGED db

\* change_pass() and alter_pass(): pass stays what the user logged in with
SetPass(s, from, m, q) ==
  IF m.type = "PASS" /\ ~Pops(s, from) THEN Ignore(q)
  ELSE /\ db' = IF Registered(s)
                THEN [db EXCEPT ![s].pass = m.pass, ![s].ts = now] ELSE db
       /\ net' = PassOn(q, s, from, m)
       /\ UNCHANGED user

\* nuke()
Nuke(s, from, m, q) ==
  /\ db' = [db EXCEPT ![s] = None] /\ net' = PassOn(q, s, from, m) /\ UNCHANGED user

\* register_user()
Register(s, from, m, q) ==
  IF Registered(s) THEN Ignore(q)
  ELSE /\ db' = [db EXCEPT ![s] = NewEntry(m.pass, m.level)]
       /\ net' = PassOn(q, s, from, m) /\ UNCHANGED user

\* reginfo(): the entry that was made first stays
Supersedes(m, d) == m.ts <= d.ts
RecvRegInfo(s, t, m, q) ==
  IF Registered(s) /\ ~Supersedes(m, db[s])
  THEN Ignore(Send(q, s, Servers(s), <<RegInfo(db[s])>>))
  ELSE /\ db' = [db EXCEPT ![s] =
                   [pass |-> m.pass, level |-> m.level, ts |-> m.ts, seen |-> m.seen,
                    muzzled |-> Registered(s) /\ db[s].muzzled,
                    cloaked |-> Registered(s) /\ db[s].cloaked]]
       /\ net' = PassOn(q, s, t, m) /\ UNCHANGED user

Handle(s, from, m, q) ==
  \/ m.type = "LEVEL" /\ LevelCmd(s, from, m, q)
  \/ m.type = "MUZZLE" /\ Muzzle(s, from, m, q)
  \/ m.type = "UNMUZZLE" /\ Unmuzzle(s, from, m, q)
  \/ m.type = "CLOAK" /\ Cloak(s, from, m, q)
  \/ m.type \in {"PASS", "ALTER"} /\ SetPass(s, from, m, q)
  \/ m.type = "NUKE" /\ Nuke(s, from, m, q)
  \/ m.type = "REGISTER" /\ Register(s, from, m, q)

-----------------------------------------------------------------------------
(* Steps *)

Tick == /\ now < MaxTime /\ now' = now + 1
        /\ Careful => Quiet
        /\ UNCHANGED <<db, user, up, net, file, step, used>>

\* a command of an administrator, or of the user at home
UserCmds  == [type : {"PASS"}, pass : Pass] \cup [type : {"CLOAK"}, on : {FALSE}]
AdminCmds == [type : {"MUZZLE", "UNMUZZLE", "NUKE"}]
               \cup [type : {"ALTER"}, pass : Pass]
               \cup [type : {"LEVEL"}, level : Level, ts : {None}]
               \cup [type : {"REGISTER"}, pass : Pass, level : Level]
Remakes   == {"REGISTER", "NUKE"}
Command(s, m) ==
  /\ Runs(s) /\ m.type \in Commands
  /\ commands < MaxCommands /\ commands' = commands + 1
  /\ \/ m \in AdminCmds /\ s \in Admins
     \/ m \in UserCmds /\ s = Home /\ Online(s)
  /\ Careful => /\ Quiet /\ \A t \in Server : Registered(t) => db[t].ts # now
                /\ m.type \in Remakes => \A t \in Server : ~Online(t)
  /\ Handle(s, None, m, net)
  /\ UNCHANGED <<up, file, step, now, links, logins, dumps, crashes>>

\* login() of the client, which may ask to be registered
Login(s, pw) ==
  /\ Runs(s) /\ s = Home /\ ~Online(s) /\ logins < MaxLogins
  /\ Careful => Quiet
  /\ \/ (Registered(s) => db[s].pass = pw) /\ Admit(s, None, pw, db[s], net)
     \/ /\ "SIGNUP" \in Commands /\ ~Registered(s)
        /\ Admit(s, None, pw, NewEntry(pw, LEVEL_USER), net)
  /\ logins' = logins + 1
  /\ UNCHANGED <<up, file, step, now, commands, links, dumps, crashes>>

\* the client closes its connection
Logout(s) ==
  /\ Runs(s) /\ "QUIT" \in Commands /\ Local(s)
  /\ user' = [user EXCEPT ![s] = None]
  /\ net' = PassOn(net, s, None, Msg("QUIT"))
  /\ UNCHANGED <<db, up, file, step, now, used>>

Receive(s, t) ==
  /\ Runs(s) /\ net[t][s] # <<>>
  /\ LET m == Head(net[t][s])
         q == [net EXCEPT ![t][s] = Tail(@)]
     IN  \/ m.type = "LOGIN" /\ RecvLogin(s, t, m, q)
         \/ m.type \in {"QUIT", "KILL"} /\ RecvQuit(s, t, m, q)
         \/ m.type = "REGINFO" /\ RecvRegInfo(s, t, m, q)
         \/ Handle(s, t, m, q)
  /\ UNCHANGED <<up, file, step, now, used>>

\* sync_user(): the time-stamp is that of an entry which is taken to exist
Synchs(s) == Online(s) /\ user[s].level # LEVEL_USER => Registered(s)
SyncUser(s) ==
  LET u == user[s]
  IN  IF ~Online(s) THEN <<>>
      ELSE <<LoginMsg(u.pass)>>
             \o (IF u.level # LEVEL_USER THEN <<LevelMsg(u.level, db[s].ts)>> ELSE <<>>)
             \o Given(u.cloaked, CloakMsg(TRUE)) \o Given(u.muzzled, Msg("MUZZLE"))

LinkUp(s, t) ==
  /\ Runs(s) /\ Runs(t) /\ t \in Edge[s] /\ <<s, t>> \notin up
  /\ links < MaxLinks /\ links' = links + 1
  /\ Careful => Quiet
  /\ Synchs(s) /\ Synchs(t)
  /\ up' = up \cup {<<s, t>>, <<t, s>>}
  /\ net' = [net EXCEPT ![s][t] = SyncUser(s), ![t][s] = SyncUser(t)]
  /\ UNCHANGED <<db, user, file, step, now, commands, logins, dumps, crashes>>

\* the links E go down: at every server the users behind them have quit
Lost(E, dead) ==
  LET behind == {s \in Server : Online(s) /\ <<s, user[s].con>> \in E}
  IN  /\ up' = up \ E
      /\ user' = [s \in Server |-> IF s \in behind \cup dead THEN None ELSE user[s]]
      /\ net' = [s \in Server |-> [t \in Server |->
                   IF <<s, t>> \in E THEN <<>>
                   ELSE IF s \in behind /\ <<s, t>> \in up
                   THEN Append(net[s][t], Msg("QUIT")) ELSE net[s][t]]]

LinkDown(s, t) ==
  /\ <<s, t>> \in up /\ links < MaxLinks
  /\ Lost({<<s, t>>, <<t, s>>}, {})
  /\ UNCHANGED <<db, file, step, now, used>>

(* The users file *)

\* a mutant: the old file goes first
DumpOver(s) ==
  /\ Runs(s) /\ s \in Fragile /\ dumps < MaxDumps /\ dumps' = dumps + 1
  /\ saved' = [saved EXCEPT ![s] = NoFile] /\ tmp' = [tmp EXCEPT ![s] = Short]
  /\ step' = [step EXCEPT ![s] = "writes"] /\ UNCHANGED slip
  /\ UNCHANGED <<db, user, up, net, now, commands, links, logins, crashes>>

\* userdb_dump(): users.tmp is opened, which cuts what it held
Dump(s) ==
  /\ Runs(s) /\ s \in Fragile /\ dumps < MaxDumps /\ dumps' = dumps + 1
  /\ tmp' = [tmp EXCEPT ![s] = Short] /\ UNCHANGED saved
  /\ slip' = [slip EXCEPT ![s] = IF @ = "unnamed" THEN "reopened" ELSE @]
  /\ step' = [step EXCEPT ![s] = "writes"]
  /\ UNCHANGED <<db, user, up, net, now, commands, links, logins, crashes>>

\* dump_userdb(): an account that has expired is dropped from memory as well.  The
\* results of fputs() and fprintf() are not looked at, only those of the last fflush()
\* and fclose(): a failure that these tell of leaves users as it was, another one does not.
Expired(d) == d # None /\ now - d.seen >= NickExpire /\ d.level < LEVEL_MODERATOR
WriteTmp(s) ==
  LET d == IF Expired(db[s]) THEN None ELSE db[s]
  IN  /\ step[s] = "writes"
      /\ db' = [db EXCEPT ![s] = d]
      /\ \/ /\ tmp' = [tmp EXCEPT ![s] = Copy(d)] /\ UNCHANGED slip
            /\ step' = [step EXCEPT ![s] = "written"]
         \/ step' = [step EXCEPT ![s] = "runs"] /\ UNCHANGED <<tmp, slip>>
         \/ /\ s \in Faulty
            /\ tmp' = [tmp EXCEPT ![s] = Short]
            /\ slip' = [slip EXCEPT ![s] = "unwritten"]
            /\ step' = [step EXCEPT ![s] = "written"]
      /\ UNCHANGED <<user, up, net, saved, now, used>>

\* a failed unlink() is not fatal: users may not be there
UnlinkUsers(s) ==
  /\ step[s] = "written"
  /\ \/ saved' = [saved EXCEPT ![s] = NoFile]
     \/ s \in Faulty /\ UNCHANGED saved
  /\ step' = [step EXCEPT ![s] = "unlinked"]
  /\ UNCHANGED <<db, user, up, net, tmp, slip, now, used>>

\* a failed rename() ends userdb_dump(), and the server goes on
RenameTmp(s) ==
  /\ step[s] = "unlinked"
  /\ \/ /\ saved' = [saved EXCEPT ![s] = tmp[s]] /\ tmp' = [tmp EXCEPT ![s] = NoFile]
        /\ slip' = [slip EXCEPT ![s] = IF Whole(tmp[s]) THEN "none" ELSE @]
     \/ /\ s \in Faulty /\ UNCHANGED <<saved, tmp>>
        /\ slip' = [slip EXCEPT ![s] = IF @ = "none" THEN "unnamed" ELSE @]
  /\ step' = [step EXCEPT ![s] = "runs"]
  /\ UNCHANGED <<db, user, up, net, now, used>>

Crash(s) ==
  /\ step[s] # "down" /\ s \in Fragile /\ crashes < MaxCrashes /\ crashes' = crashes + 1
  /\ step' = [step EXCEPT ![s] = "down"]
  /\ db' = [db EXCEPT ![s] = None]
  /\ Lost({e \in up : s \in {e[1], e[2]}}, {s})
  /\ UNCHANGED <<file, now, commands, links, logins, dumps>>

\* userdb_init(): without the file users the server does not start, with a short one it
\* starts with what there is
Start(s) ==
  /\ step[s] = "down" /\ saved[s].kind # "none"
  /\ db' = [db EXCEPT ![s] = saved[s].entry]
  /\ step' = [step EXCEPT ![s] = "runs"]
  /\ UNCHANGED <<user, up, net, file, now, used>>

Save(s) == WriteTmp(s) \/ UnlinkUsers(s) \/ RenameTmp(s)

Next == Tick \/ \E s \in Server :
  \/ \E m \in UserCmds \cup AdminCmds : Command(s, m)
  \/ \E pw \in Pass : Login(s, pw)
  \/ Logout(s)
  \/ \E t \in Server : Receive(s, t) \/ LinkUp(s, t) \/ LinkDown(s, t)
  \/ Dump(s) \/ Save(s) \/ Crash(s) \/ Start(s)

Spec == Init /\ [][Next]_vars

\* the main loop reads what has arrived and userdb_dump() comes to its end
Fairness == \A s \in Server : WF_vars(Save(s) \/ \E t \in Server : Receive(s, t))
FairSpec == Spec /\ Fairness
-----------------------------------------------------------------------------
(* Properties *)

\* Every variable has its type.
TypeOK ==
  /\ db \in [Server -> Entry \cup {None}]
  /\ user \in [Server -> User \cup {None}]
  /\ up \subseteq Server \X Server
  /\ net \in [Server -> [Server -> Seq(Message)]]
  /\ {saved, tmp} \subseteq [Server -> File]
  /\ slip \in [Server -> Slips]
  /\ step \in [Server -> {"runs", "writes", "written", "unlinked", "down"}]
  /\ {now, commands, links, logins, dumps, crashes} \subseteq Nat

\* the servers that are linked with s and know the user
Together(s) == {t \in Servers(s) \cup {s} : Online(t)}

\* Once all is read, linked servers give a user one level, and it is the level that
\* is registered where the user is, however the databases differed while the servers
\* were apart: level(), login() and sync_user() send time-stamps for this.
LevelsAgree ==
  Quiet => \A s \in Server : Online(s) =>
             /\ \A t \in Together(s) : user[t].level = user[s].level
             /\ Registered(s) => user[s].level = db[s].level

\* Once all is read, linked servers agree on whether a user is muzzled: login() and
\* sync_user() tell of a muzzle that was given while the servers were apart.
MuzzlesAgree ==
  Quiet => \A s \in Server : Online(s) =>
             \A t \in Together(s) : user[t].muzzled = user[s].muzzled

\* A crash at any step of userdb_dump() leaves a whole copy of the database on disk, and
\* so do failed writes that are noticed and a failed unlink() or rename(): what users.tmp,
\* written before users is unlinked, is for.  It takes a failed write that nobody notices,
\* or another userdb_dump() after a failed rename(), to lose it.
Recoverable == \A s \in Server :
  Whole(saved[s]) \/ Whole(tmp[s]) \/ slip[s] \in {"unwritten", "reopened"}

\* What a command, a login or a link causes comes to an end: no server passes a
\* change on, or sends its own entry back, for ever.
EventuallyQuiet == <>[](\A s, t \in Server : net[s][t] = <<>>)

-----------------------------------------------------------------------------
(* What the code does not keep *)

\* Linked servers agree on whether a user is cloaked; cloak() is passed on as a
\* change and login() sends it as a state.
CloaksAgree ==
  Quiet => \A s \in Server : Online(s) =>
             \A t \in Together(s) : user[t].cloaked = user[s].cloaked

\* The assertion login() makes of a user it cloaks: user->level > LEVEL_USER.
CloakedAreModerators == \A s \in Server :
  Online(s) /\ user[s].cloaked => user[s].level >= LEVEL_MODERATOR

\* The assertion sync_user() makes: the account of a user with a level is registered.
SynchsAll == \A s \in Server : Synchs(s)

\* A user who gave the right password where the login was is not killed by a peer.
NobodyKilled == \A s, t \in Server : \A i \in DOMAIN net[s][t] : net[s][t][i].type # "KILL"

\* A whole copy of the database is on disk whatever fails, as writing users.tmp first is
\* to see to.
CopyOnDisk == \A s \in Server : Whole(saved[s]) \/ Whole(tmp[s])
=============================================================================
