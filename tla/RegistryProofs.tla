-------------------------- MODULE RegistryProofs --------------------------
(***************************************************************************)
(* What Registry promises of the users file, for every set of servers.     *)
(***************************************************************************)
EXTENDS Registry, TLAPS

\* Where nothing has gone wrong, users is whole until it is unlinked, and users.tmp is whole
\* from then on: after a crash either may be what is left.  After a failed rename()
\* users.tmp is whole until it is opened again.
FileShape == /\ saved = [s \in Server |-> saved[s]]
             /\ tmp = [s \in Server |-> tmp[s]]
             /\ slip = [s \in Server |-> slip[s]]
             /\ step = [s \in Server |-> step[s]]
DumpInOrder == \A s \in Server :
  /\ slip[s] \in Slips
  /\ slip[s] = "none" =>
       /\ Whole(saved[s]) \/ saved[s].kind = "none"
       /\ step[s] \in {"runs", "writes", "written"} => Whole(saved[s])
       /\ step[s] \in {"written", "unlinked"} => Whole(tmp[s])
  /\ slip[s] = "unnamed" => step[s] \in {"runs", "down"} /\ Whole(tmp[s])
FileInv == FileShape /\ DumpInOrder /\ Recoverable

\* The file that is opened, written, unlinked and renamed stays one of the two at
\* every step of userdb_dump(), and after a crash in any of them.
LEMMA FileInit == Init => FileInv
BY DEF Init, FileInv, FileShape, DumpInOrder, Recoverable, Copy, NoFile, Whole, Slips, file

\* Steps of the other handlers leave the files alone.
LEMMA FileUntouched == ASSUME FileInv, UNCHANGED <<file, step>> PROVE FileInv'
BY DEF FileInv, FileShape, DumpInOrder, Recoverable, Whole, file

LEMMA FileNext == FileInv /\ [Next]_vars => FileInv'
<1> SUFFICES ASSUME FileInv, [Next]_vars PROVE FileInv'
  OBVIOUS
<1> USE DEF FileInv, FileShape, DumpInOrder, Recoverable, Copy, Short, NoFile, Whole, Slips, file
<1>1. CASE Tick \/ UNCHANGED vars
  BY <1>1, FileUntouched DEF Tick, vars
<1>2. ASSUME NEW s \in Server,
             \/ \E m \in UserCmds \cup AdminCmds : Command(s, m)
             \/ \E pw \in Pass : Login(s, pw)
             \/ Logout(s)
             \/ \E t \in Server : Receive(s, t) \/ LinkUp(s, t) \/ LinkDown(s, t)
      PROVE FileInv'
  <2>1. UNCHANGED <<file, step>>
    BY <1>2 DEF Command, Login, Logout, Receive, LinkUp, LinkDown
  <2>2. QED
    BY <2>1, FileUntouched
<1>3. ASSUME NEW s \in Server, Dump(s) PROVE FileInv'
  BY <1>3 DEF Dump, Runs
<1>4. ASSUME NEW s \in Server, WriteTmp(s) PROVE FileInv'
  BY <1>4 DEF WriteTmp
<1>5. ASSUME NEW s \in Server, UnlinkUsers(s) PROVE FileInv'
  BY <1>5 DEF UnlinkUsers
<1>6. ASSUME NEW s \in Server, RenameTmp(s) PROVE FileInv'
  BY <1>6 DEF RenameTmp
<1>7. ASSUME NEW s \in Server, Crash(s) PROVE FileInv'
  BY <1>7 DEF Crash
<1>8. ASSUME NEW s \in Server, Start(s) PROVE FileInv'
  BY <1>8 DEF Start
<1>9. QED
  BY <1>1, <1>2, <1>3, <1>4, <1>5, <1>6, <1>7, <1>8 DEF Next, Save

\* However many servers save, fail and crash, each has a whole copy of its database on disk,
\* unless a write failed unnoticed or a dump was begun after a rename() that failed.
THEOREM AlwaysRecoverable == Spec => []Recoverable
<1>1. FileInv => Recoverable
  BY DEF FileInv
<1>2. QED
  BY FileInit, FileNext, <1>1, PTL DEF Spec
=============================================================================
