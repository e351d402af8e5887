-------------------------- MODULE SessionsProofs --------------------------
(***************************************************************************)
(* Proofs about the hotlists and the shared files in Sessions, and about   *)
(* what peers count of files and uploads, for all servers, connections,    *)
(* nicks, files, links and bounds.                                         *)
(***************************************************************************)
EXTENDS Sessions, UserNetProofs, WellFoundedInduction

\* What the hotlists are made of.
ListsTyped ==
  /\ opt \in [Server -> [Conn -> UserOpt]]
  /\ hot \in [Server -> [Nick -> SUBSET Conn]]

\* The inductive invariant: a notice goes to those that hotlist->users names, so
\* what a client was told is true because the two ends of the lists agree.
HotlistInv == ListsTyped /\ HotlistsMirror /\ NoticesTrue

\* Nobody watches at first.
LEMMA InitHotlists == ASSUME SessionsInit PROVE HotlistInv
<1>1. ListsTyped
  BY DEF SessionsInit, ListsTyped, NoOpt, UserOpt
<1>2. HotlistsMirror
  BY DEF SessionsInit, HotlistsMirror, NoOpt
<1>3. NoticesTrue
  BY DEF SessionsInit, NoticesTrue, NoOpt
<1>4. QED
  BY <1>1, <1>2, <1>3 DEF HotlistInv

\* Whichever way sessions end and begin, what remove_user(), free_user() and login()
\* do to the hotlists keeps them in order.
LEMMA ReleaseKeeps == ASSUME HotlistInv, Release PROVE HotlistInv'
<1>1. ASSUME NEW s \in Server, NEW c \in Conn
      PROVE  /\ c \in Closed(s) => opt'[s][c] = NoOpt
             /\ c \notin Closed(s) => opt'[s][c] = [opt[s][c] EXCEPT !.told = Notified(s, c)]
  BY DEF Release
<1>2. ASSUME NEW s \in Server, NEW n \in Nick PROVE hot'[s][n] = Watchers(s, n)
  BY DEF Release
<1>3. ASSUME NEW s \in Server, NEW c \in Conn PROVE opt[s][c] \in UserOpt
  BY DEF HotlistInv, ListsTyped
<1>4. ASSUME NEW s \in Server, NEW c \in Conn PROVE Notified(s, c) \in SUBSET Nick
  <2>1. opt[s][c].told \in SUBSET Nick
    BY <1>3 DEF UserOpt
  <2>2. QED
    BY <2>1 DEF Notified, FreedUsers, SignedOn, Changed
<1>5. ASSUME NEW s \in Server, NEW c \in Conn, c \notin Closed(s)
      PROVE  /\ opt'[s][c].hotlist = opt[s][c].hotlist /\ opt'[s][c].told = Notified(s, c)
             /\ opt'[s][c] \in UserOpt
  <2>1. opt'[s][c] = [opt[s][c] EXCEPT !.told = Notified(s, c)]
    BY <1>1, <1>5
  <2>2. opt[s][c] \in UserOpt /\ Notified(s, c) \in SUBSET Nick
    BY <1>3, <1>4
  <2> HIDE DEF Notified
  <2>3. QED
    BY <2>1, <2>2 DEF UserOpt
<1>6. ListsTyped'
  <2>1. ASSUME NEW s \in Server, NEW c \in Conn PROVE opt'[s][c] \in UserOpt
    <3>1. CASE c \in Closed(s)
      <4>1. opt'[s][c] = NoOpt
        BY <1>1, <3>1
      <4>2. QED
        BY <4>1 DEF UserOpt, NoOpt
    <3>2. CASE c \notin Closed(s)
      BY <1>5, <3>2
    <3>3. QED
      BY <3>1, <3>2
  <2>2. ASSUME NEW s \in Server, NEW n \in Nick PROVE hot'[s][n] \in SUBSET Conn
    BY <1>2 DEF Watchers, HotlistInv, ListsTyped
  <2>3. /\ opt' = [s \in Server |-> [c \in Conn |-> opt'[s][c]]]
        /\ hot' = [s \in Server |-> [n \in Nick |-> hot'[s][n]]]
    BY DEF Release
  <2>4. QED
    BY <2>1, <2>2, <2>3 DEF ListsTyped
<1>7. HotlistsMirror'
  <2> SUFFICES ASSUME NEW s \in Server, NEW c \in Conn, NEW n \in Nick
      PROVE  /\ c \in hot'[s][n] <=> n \in opt'[s][c].hotlist
             /\ c \in hot'[s][n] => conn'[s][c].class = "user"
    BY DEF HotlistsMirror
  <2>1. /\ c \in hot[s][n] <=> n \in opt[s][c].hotlist
        /\ c \in hot[s][n] => conn[s][c].class = "user"
    BY DEF HotlistInv, HotlistsMirror
  <2>2. CASE c \in Closed(s)
    <3>1. opt'[s][c] = NoOpt
      BY <1>1, <2>2
    <3>2. c \notin hot'[s][n]
      BY <1>2, <2>1, <2>2 DEF Watchers
    <3>3. QED
      BY <3>1, <3>2 DEF NoOpt
  <2>3. CASE c \notin Closed(s)
    <3>1. c \in hot'[s][n] <=> c \in hot[s][n]
      BY <1>2, <2>3 DEF Watchers
    <3>2. opt'[s][c].hotlist = opt[s][c].hotlist
      BY <1>5, <2>3
    <3>3. QED
      BY <2>1, <2>3, <3>1, <3>2 DEF Closed
  <2>4. QED
    BY <2>2, <2>3
<1>8. NoticesTrue'
  <2> SUFFICES ASSUME NEW s \in Server, NEW c \in Conn
      PROVE  opt'[s][c].told = opt'[s][c].hotlist \cap KnownAt(s)'
    BY DEF NoticesTrue
  <2>1. CASE c \in Closed(s)
    <3>1. opt'[s][c] = NoOpt
      BY <1>1, <2>1
    <3>2. QED
      BY <3>1 DEF NoOpt
  <2>2. CASE c \notin Closed(s)
    <3>1. opt[s][c].told = opt[s][c].hotlist \cap KnownAt(s)
      BY DEF HotlistInv, NoticesTrue
    <3>2. \A n \in Nick : c \in hot[s][n] <=> n \in opt[s][c].hotlist
      BY DEF HotlistInv, HotlistsMirror
    <3>3. \A n \in Nick : c \in Watchers(s, n) <=> n \in opt[s][c].hotlist
      BY <2>2, <3>2 DEF Watchers
    <3>4. \A n \in Nick : n \notin Changed(s) => (Known(s, n)' <=> Known(s, n))
      BY DEF Changed, Known
    <3>5. \A n \in Nick : n \in Notified(s, c) <=> n \in opt[s][c].hotlist /\ Known(s, n)'
      BY <3>1, <3>2, <3>3, <3>4 DEF Notified, FreedUsers, SignedOn, KnownAt
    <3>6. Notified(s, c) \subseteq Nick /\ opt[s][c].hotlist \subseteq Nick
      BY <1>3, <1>4 DEF UserOpt
    <3>7. QED
      BY <1>5, <2>2, <3>5, <3>6 DEF KnownAt
  <2>3. QED
    BY <2>1, <2>2
<1>9. QED
  BY <1>6, <1>7, <1>8 DEF HotlistInv

\* A command of a client that changes both ends of one entry of a hotlist.
LEMMA EntryKeeps ==
  ASSUME HotlistInv, NEW s \in Server, NEW c \in Conn, NEW n \in Nick,
         UNCHANGED <<conn, users>>, conn[s][c].class = "user",
         NEW H \in SUBSET Conn, hot' = [hot EXCEPT ![s][n] = H],
         NEW o \in UserOpt, opt' = [opt EXCEPT ![s][c] = o],
         H \ {c} = hot[s][n] \ {c}, o.hotlist \ {n} = opt[s][c].hotlist \ {n},
         c \in H <=> n \in o.hotlist, o.told = o.hotlist \cap KnownAt(s)
  PROVE  HotlistInv'
<1>1. ListsTyped'
  BY DEF HotlistInv, ListsTyped
<1>2. ASSUME NEW t \in Server, NEW d \in Conn
      PROVE  opt'[t][d] = IF t = s /\ d = c THEN o ELSE opt[t][d]
  BY DEF HotlistInv, ListsTyped
<1>3. ASSUME NEW t \in Server, NEW m \in Nick
      PROVE  hot'[t][m] = IF t = s /\ m = n THEN H ELSE hot[t][m]
  BY DEF HotlistInv, ListsTyped
<1>4. HotlistsMirror'
  <2> SUFFICES ASSUME NEW t \in Server, NEW d \in Conn, NEW m \in Nick
      PROVE  /\ d \in hot'[t][m] <=> m \in opt'[t][d].hotlist
             /\ d \in hot'[t][m] => conn[t][d].class = "user"
    BY DEF HotlistsMirror
  <2>1. /\ d \in hot[t][m] <=> m \in opt[t][d].hotlist
        /\ d \in hot[t][m] => conn[t][d].class = "user"
    BY DEF HotlistInv, HotlistsMirror
  <2>2. QED
    BY <1>2, <1>3, <2>1
<1>5. NoticesTrue'
  <2> SUFFICES ASSUME NEW t \in Server, NEW d \in Conn
      PROVE  opt'[t][d].told = opt'[t][d].hotlist \cap KnownAt(t)
    BY DEF NoticesTrue, KnownAt, Known
  <2>1. opt[t][d].told = opt[t][d].hotlist \cap KnownAt(t)
    BY DEF HotlistInv, NoticesTrue
  <2>2. QED
    BY <1>2, <2>1
<1>6. QED
  BY <1>1, <1>4, <1>5 DEF HotlistInv

\* A step on which no hotlist changes.
LEMMA ElseKeeps ==
  ASSUME HotlistInv, UNCHANGED <<conn, users, hot>>, opt' \in [Server -> [Conn -> UserOpt]],
         \A s \in Server, c \in Conn : /\ opt'[s][c].hotlist = opt[s][c].hotlist
                                       /\ opt'[s][c].told = opt[s][c].told
  PROVE  HotlistInv'
<1>1. ListsTyped'
  BY DEF HotlistInv, ListsTyped
<1>2. HotlistsMirror'
  BY DEF HotlistInv, HotlistsMirror
<1>3. NoticesTrue'
  BY DEF HotlistInv, NoticesTrue, KnownAt, Known
<1>4. QED
  BY <1>1, <1>2, <1>3 DEF HotlistInv

\* add_hotlist()
LEMMA AddKeeps ==
  ASSUME HotlistInv, NEW s \in Server, NEW c \in Conn, NEW n \in Nick, AddHotlist(s, c, n)
  PROVE  HotlistInv'
<1> DEFINE H == hot[s][n] \cup {c}
           o == [opt[s][c] EXCEPT !.hotlist = @ \cup {n},
                                  !.told = IF Known(s, n) THEN @ \cup {n} ELSE @]
<1>1. /\ UNCHANGED <<conn, users>> /\ conn[s][c].class = "user"
      /\ hot' = [hot EXCEPT ![s][n] = H] /\ opt' = [opt EXCEPT ![s][c] = o]
  BY DEF AddHotlist, Other, Client
<1>2. opt[s][c] \in UserOpt /\ hot[s][n] \in SUBSET Conn
  BY DEF HotlistInv, ListsTyped
<1>3. opt[s][c].told = opt[s][c].hotlist \cap KnownAt(s)
  BY DEF HotlistInv, NoticesTrue
<1>4. n \in KnownAt(s) <=> Known(s, n)
  BY DEF KnownAt
<1>5. /\ o \in UserOpt /\ o.hotlist = opt[s][c].hotlist \cup {n}
      /\ o.told = IF Known(s, n) THEN opt[s][c].told \cup {n} ELSE opt[s][c].told
  <2> DEFINE u == opt[s][c]
  <2>1. o = [u EXCEPT !.hotlist = @ \cup {n}, !.told = IF Known(s, n) THEN @ \cup {n} ELSE @]
    OBVIOUS
  <2>2. u \in UserOpt
    BY <1>2
  <2> HIDE DEF o, u
  <2>3. /\ o.files = u.files /\ o.hotlist = u.hotlist \cup {n}
        /\ o.told = IF Known(s, n) THEN u.told \cup {n} ELSE u.told
        /\ o = [files |-> u.files, hotlist |-> o.hotlist, told |-> o.told]
    BY <2>1, <2>2 DEF UserOpt
  <2>4. QED
    BY <2>2, <2>3 DEF UserOpt, u
<1> HIDE DEF o
<1>6. o.told = o.hotlist \cap KnownAt(s)
  BY <1>3, <1>4, <1>5
<1>7. /\ H \in SUBSET Conn /\ H \ {c} = hot[s][n] \ {c}
      /\ o.hotlist \ {n} = opt[s][c].hotlist \ {n} /\ (c \in H <=> n \in o.hotlist)
  BY <1>2, <1>5
<1> HIDE DEF H
<1>8. QED
  BY <1>1, <1>5, <1>6, <1>7, EntryKeeps

\* remove_hotlist()
LEMMA RemoveKeeps ==
  ASSUME HotlistInv, NEW s \in Server, NEW c \in Conn, NEW n \in Nick, RemoveHotlist(s, c, n)
  PROVE  HotlistInv'
<1> DEFINE H == hot[s][n] \ {c}
           o == [opt[s][c] EXCEPT !.hotlist = @ \ {n}, !.told = @ \ {n}]
<1>1. /\ UNCHANGED <<conn, users>> /\ conn[s][c].class = "user"
      /\ hot' = [hot EXCEPT ![s][n] = H] /\ opt' = [opt EXCEPT ![s][c] = o]
  BY DEF RemoveHotlist, Other, Client
<1>2. opt[s][c] \in UserOpt /\ hot[s][n] \in SUBSET Conn
  BY DEF HotlistInv, ListsTyped
<1>3. opt[s][c].told = opt[s][c].hotlist \cap KnownAt(s)
  BY DEF HotlistInv, NoticesTrue
<1>4. /\ o \in UserOpt /\ o.hotlist = opt[s][c].hotlist \ {n} /\ o.told = opt[s][c].told \ {n}
  <2> DEFINE u == opt[s][c]
  <2>1. o = [u EXCEPT !.hotlist = @ \ {n}, !.told = @ \ {n}]
    OBVIOUS
  <2>2. u \in UserOpt
    BY <1>2
  <2> HIDE DEF o, u
  <2>3. /\ o.files = u.files /\ o.hotlist = u.hotlist \ {n} /\ o.told = u.told \ {n}
        /\ o = [files |-> u.files, hotlist |-> o.hotlist, told |-> o.told]
    BY <2>1, <2>2 DEF UserOpt
  <2>4. QED
    BY <2>2, <2>3 DEF UserOpt, u
<1> HIDE DEF o
<1>5. o.told = o.hotlist \cap KnownAt(s)
  BY <1>3, <1>4
<1>6. /\ H \in SUBSET Conn /\ H \ {c} = hot[s][n] \ {c}
      /\ o.hotlist \ {n} = opt[s][c].hotlist \ {n} /\ (c \in H <=> n \in o.hotlist)
  BY <1>2, <1>4
<1> HIDE DEF H
<1>7. QED
  BY <1>1, <1>4, <1>5, <1>6, EntryKeeps

\* Sharing and unsharing change the files of the connection.
LEMMA FilesKeep ==
  ASSUME HotlistInv, NEW s \in Server, NEW c \in Conn, NEW f \in File,
         AddFile(s, c, f) \/ RemoveFile(s, c, f)
  PROVE  HotlistInv'
<1>1. UNCHANGED <<conn, users, hot>>
  BY DEF AddFile, RemoveFile, Client
<1>2. PICK F \in SUBSET File : opt' = [opt EXCEPT ![s][c].files = F] \/ opt' = opt
  <2>1. opt[s][c].files \cup {f} \in SUBSET File /\ opt[s][c].files \ {f} \in SUBSET File
    BY DEF HotlistInv, ListsTyped, UserOpt
  <2>2. \/ opt' = [opt EXCEPT ![s][c].files = @ \cup {f}]
        \/ opt' = [opt EXCEPT ![s][c].files = @ \ {f}] \/ opt' = opt
    <3>1. CASE AddFile(s, c, f)
      BY <3>1 DEF AddFile
    <3>2. CASE RemoveFile(s, c, f)
      BY <3>2 DEF RemoveFile
    <3>3. QED
      BY <3>1, <3>2
  <2>3. QED
    BY <2>1, <2>2
<1>3. opt \in [Server -> [Conn -> UserOpt]]
  BY DEF HotlistInv, ListsTyped
<1>4. /\ opt' \in [Server -> [Conn -> UserOpt]]
      /\ \A t \in Server, d \in Conn : /\ opt'[t][d].hotlist = opt[t][d].hotlist
                                       /\ opt'[t][d].told = opt[t][d].told
  <2>1. CASE opt' = opt
    BY <1>3, <2>1
  <2>2. CASE opt' = [opt EXCEPT ![s][c].files = F]
    <3>1. opt' \in [Server -> [Conn -> UserOpt]]
      <4> DEFINE o == [opt[s][c] EXCEPT !.files = F]
      <4>1. opt' = [opt EXCEPT ![s][c] = o]
        BY <2>2
      <4>2. o \in UserOpt
        <5> DEFINE u == opt[s][c]
        <5>1. u \in UserOpt /\ o = [u EXCEPT !.files = F]
          BY <1>3
        <5> HIDE DEF o, u
        <5>2. QED
          BY <5>1 DEF UserOpt
      <4> HIDE DEF o
      <4>3. QED
        BY <1>3, <4>1, <4>2
    <3>2. ASSUME NEW t \in Server, NEW d \in Conn
          PROVE  opt'[t][d].hotlist = opt[t][d].hotlist /\ opt'[t][d].told = opt[t][d].told
      <4>1. opt[t][d] \in UserOpt
        BY <1>3
      <4>2. CASE t = s /\ d = c
        <5>1. opt'[t][d] = [opt[t][d] EXCEPT !.files = F]
          BY <1>3, <2>2, <4>2
        <5>2. QED
          BY <4>1, <5>1 DEF UserOpt
      <4>3. CASE ~(t = s /\ d = c)
        BY <1>3, <2>2, <4>3
      <4>4. QED
        BY <4>2, <4>3
    <3>3. QED
      BY <3>1, <3>2
  <2>3. QED
    BY <1>2, <2>1, <2>2
<1>5. QED
  BY <1>1, <1>4, ElseKeeps

\* All steps of Sessions.
LEMMA NextHotlists == ASSUME HotlistInv, [SessionsNext]_all_vars PROVE HotlistInv'
<1>1. CASE UserStep /\ Release
  BY <1>1, ReleaseKeeps
<1>2. ASSUME NEW s \in Server, NEW c \in Conn, NEW f \in File,
             AddFile(s, c, f) \/ RemoveFile(s, c, f)
      PROVE  HotlistInv'
  BY <1>2, FilesKeep
<1>3. ASSUME NEW s \in Server, NEW c \in Conn,
             Command(s, c) \/ \E what \in {"START", "END"} : Upload(s, c, what)
      PROVE  HotlistInv'
  <2>1. UNCHANGED <<conn, users, hot, opt>>
    BY <1>3 DEF Command, Upload, Other, Client
  <2>2. QED
    BY <2>1, ElseKeeps DEF HotlistInv, ListsTyped
<1>4. ASSUME NEW s \in Server, NEW c \in Conn, NEW n \in Watched,
             AddHotlist(s, c, n) \/ RemoveHotlist(s, c, n)
      PROVE  HotlistInv'
  <2>1. n \in Nick
    BY Limits
  <2>2. QED
    BY <1>4, <2>1, AddKeeps, RemoveKeeps
<1>5. ASSUME NEW s \in Server, NEW t \in Server, RecvSharing(s, t) \/ RecvUpload(s, t)
      PROVE  HotlistInv'
  <2>1. UNCHANGED <<conn, users, hot, opt>>
    BY <1>5 DEF RecvSharing, RecvUpload
  <2>2. QED
    BY <2>1, ElseKeeps, SMTT(30) DEF HotlistInv, ListsTyped
<1>6. CASE UNCHANGED all_vars
  <2>1. UNCHANGED <<conn, users, hot, opt>>
    BY <1>6 DEF all_vars, vars, ext_vars
  <2>2. QED
    BY <2>1, ElseKeeps DEF HotlistInv, ListsTyped
<1>7. QED
  BY <1>1, <1>2, <1>3, <1>4, <1>5, <1>6 DEF SessionsNext, CommandStep

\* The invariant of the hotlists.
LEMMA AlwaysHotlistInv == SessionsSpec => []HotlistInv
BY InitHotlists, NextHotlists, PTL DEF SessionsSpec

\* The two ends of the hotlists mirror each other and only logged-in connections
\* watch, however sessions end: hotlist->users never points at a freed connection.
THEOREM AlwaysMirrored == SessionsSpec => []HotlistsMirror
<1>1. HotlistInv => HotlistsMirror
  BY DEF HotlistInv
<1>2. QED
  BY <1>1, AlwaysHotlistInv, PTL

\* A client's last notice about a nick on its hotlist is true.
THEOREM AlwaysTold == SessionsSpec => []NoticesTrue
<1>1. HotlistInv => NoticesTrue
  BY DEF HotlistInv
<1>2. QED
  BY <1>1, AlwaysHotlistInv, PTL

-----------------------------------------------------------------------------
(* Sums over finite sets, and sequences of sequences                       *)

\* Counting up from 0 reaches every number.
LEMMA Counting ==
  ASSUME NEW X \in SUBSET Nat, 0 \in X, \A k \in X : k + 1 \in X
  PROVE  X = Nat
<1> SUFFICES ASSUME NEW b \in Nat, b \notin X PROVE FALSE
  OBVIOUS
<1>1. IsWellFoundedOn(OpToRel(<, Nat), Nat)
  BY NatLessThanWellFounded, Zenon
<1>2. PICK k \in Nat \ X : \A j \in Nat \ X : ~(<<j, k>> \in OpToRel(<, Nat))
  BY <1>1, WFMin, Zenon
<1>3. k # 0
  OBVIOUS
<1>4. k - 1 \in Nat /\ k - 1 + 1 = k /\ k - 1 < k
  BY <1>3
<1>5. <<k - 1, k>> \in OpToRel(<, Nat)
  BY <1>4 DEF OpToRel
<1>6. k - 1 \in X
  BY <1>2, <1>4, <1>5, Zenon
<1> QED BY <1>4, <1>6

\* Building the subsets of a finite set up from {} reaches all of them.
LEMMA Building ==
  ASSUME NEW S, IsFiniteSet(S), NEW X, {} \in X,
         \A T \in SUBSET S : (T # {} /\ \A x \in T : T \ {x} \in X) => T \in X
  PROVE  \A T \in SUBSET S : T \in X
<1> DEFINE K == {k \in Nat : \A T \in SUBSET S : Cardinality(T) = k => T \in X}
<1>1. \A T \in SUBSET S : IsFiniteSet(T) /\ Cardinality(T) \in Nat
  BY FS_Subset, FS_CardinalityType
<1>2. 0 \in K
  BY <1>1, FS_EmptySet
<1>3. ASSUME NEW k \in K PROVE k + 1 \in K
  <2> SUFFICES ASSUME NEW T \in SUBSET S, Cardinality(T) = k + 1 PROVE T \in X
    OBVIOUS
  <2>0. k \in Nat /\ k + 1 # 0
    OBVIOUS
  <2>1. T # {}
    BY <2>0, FS_EmptySet
  <2>2. ASSUME NEW x \in T PROVE T \ {x} \in X
    <3>1. Cardinality(T \ {x}) = k
      BY <1>1, FS_RemoveElement
    <3>2. T \ {x} \in SUBSET S
      OBVIOUS
    <3> QED BY <3>1, <3>2
  <2> QED BY <2>1, <2>2
<1>4. K \in SUBSET Nat
  OBVIOUS
<1> HIDE DEF K
<1>5. K = Nat
  BY <1>2, <1>3, <1>4, Counting
<1> QED BY <1>1, <1>5 DEF K

Chosen(S) == CHOOSE x \in S : TRUE
NextSum(f, g, T) == IF T = {} THEN 0 ELSE f[Chosen(T)] + g[T \ {Chosen(T)}]

\* The definition, unfolded.
LEMMA SumUnfolds ==
  ASSUME NEW f, NEW S
  PROVE  SumFunctionOnSet(f, S) =
           (CHOOSE g : g = [T \in SUBSET S |-> NextSum(f, g, T)])[S]
BY DEF SumFunctionOnSet, FoldFunctionOnSet, MapThenFoldSet, Chosen, NextSum

\* The term that comes next is one of the terms.
LEMMA ChosenIn == ASSUME NEW S, S # {} PROVE Chosen(S) \in S
BY DEF Chosen

\* There is a function that sums up along that definition.
LEMMA SumExists ==
  ASSUME NEW S, IsFiniteSet(S), NEW f, \A x \in S : f[x] \in Int
  PROVE  \E g \in [SUBSET S -> Int] : \A T \in SUBSET S : g[T] = NextSum(f, g, T)
<1> DEFINE Sub(k) == {T \in SUBSET S : Cardinality(T) <= k}
           Good(k, g) == \A T \in Sub(k) : g[T] = NextSum(f, g, T)
           K == {k \in Nat : \E g \in [Sub(k) -> Int] : Good(k, g)}
<1>1. \A T \in SUBSET S : IsFiniteSet(T) /\ Cardinality(T) \in Nat
  BY FS_Subset, FS_CardinalityType
<1>2. 0 \in K
  <2> DEFINE g == [T \in Sub(0) |-> 0]
  <2>1. \A T \in Sub(0) : T = {}
    BY <1>1, FS_EmptySet
  <2>2. g \in [Sub(0) -> Int]
    OBVIOUS
  <2>3. Good(0, g)
    BY <2>1 DEF NextSum
  <2> QED BY <2>2, <2>3
<1>3. ASSUME NEW k \in K PROVE k + 1 \in K
  <2>1. PICK g \in [Sub(k) -> Int] : Good(k, g)
    OBVIOUS
  <2> DEFINE h == [T \in Sub(k + 1) |-> NextSum(f, g, T)]
  <2>2. ASSUME NEW T \in Sub(k + 1), T # {}
        PROVE  /\ Chosen(T) \in S /\ T \ {Chosen(T)} \in Sub(k)
               /\ T \ {Chosen(T)} \in Sub(k + 1)
    <3>1. Chosen(T) \in T
      BY <2>2, ChosenIn
    <3>2. Cardinality(T \ {Chosen(T)}) = Cardinality(T) - 1
      BY <1>1, <3>1, FS_RemoveElement
    <3>3. Cardinality(T) - 1 <= k /\ Cardinality(T) - 1 <= k + 1
      BY <1>1
    <3> QED BY <3>1, <3>2, <3>3
  <2>3. ASSUME NEW T \in Sub(k + 1) PROVE NextSum(f, g, T) \in Int
    <3>1. CASE T = {}
      BY <3>1 DEF NextSum
    <3>2. CASE T # {}
      <4>1. f[Chosen(T)] \in Int /\ g[T \ {Chosen(T)}] \in Int
        BY <2>2, <3>2
      <4> QED BY <3>2, <4>1 DEF NextSum
    <3> QED BY <3>1, <3>2
  <2>4. h \in [Sub(k + 1) -> Int]
    BY <2>3
  <2>5. ASSUME NEW T \in Sub(k) PROVE h[T] = g[T]
    <3>1. T \in Sub(k + 1)
      BY <1>1
    <3> QED BY <2>1, <3>1
  <2>6. ASSUME NEW T \in Sub(k + 1) PROVE h[T] = NextSum(f, h, T)
    <3>1. h[T] = NextSum(f, g, T)
      OBVIOUS
    <3>2. T # {} => h[T \ {Chosen(T)}] = g[T \ {Chosen(T)}]
      BY <2>2, <2>5
    <3> HIDE DEF h
    <3> QED BY <3>1, <3>2 DEF NextSum
  <2>7. k + 1 \in Nat
    OBVIOUS
  <2> HIDE DEF h
  <2> QED BY <2>4, <2>6, <2>7
<1>4. K \in SUBSET Nat
  OBVIOUS
<1> HIDE DEF K
<1>5. K = Nat
  BY <1>2, <1>3, <1>4, Counting
<1>6. Cardinality(S) \in K
  BY <1>1, <1>5
<1>7. Sub(Cardinality(S)) = SUBSET S
  BY <1>1, FS_Subset
<1> QED BY <1>6, <1>7 DEF K

\* SumFunctionOnSet() sums up along its recursive definition.
LEMMA SumSteps ==
  ASSUME NEW S, IsFiniteSet(S), NEW f, \A x \in S : f[x] \in Int
  PROVE  \E g \in [SUBSET S -> Int] : /\ \A T \in SUBSET S : g[T] = NextSum(f, g, T)
                                      /\ SumFunctionOnSet(f, S) = g[S]
<1> DEFINE g == CHOOSE h : h = [T \in SUBSET S |-> NextSum(f, h, T)]
<1>1. PICK e \in [SUBSET S -> Int] : \A T \in SUBSET S : e[T] = NextSum(f, e, T)
  BY SumExists
<1>2. e = [T \in SUBSET S |-> NextSum(f, e, T)]
  BY <1>1
<1>3. g = [T \in SUBSET S |-> NextSum(f, g, T)]
  BY <1>2
<1>4. SumFunctionOnSet(f, S) = g[S]
  BY SumUnfolds
<1> HIDE DEF g
<1>5. \A T \in SUBSET S : g[T] = NextSum(f, g, T)
  BY <1>3
<1>6. \A T \in SUBSET S : g[T] \in Int
  <2> DEFINE X == {T \in SUBSET S : g[T] \in Int}
  <2>1. {} \in X
    <3>1. {} \in SUBSET S
      OBVIOUS
    <3>2. g[{}] = NextSum(f, g, {})
      BY <1>5, <3>1
    <3>3. NextSum(f, g, {}) = 0
      BY DEF NextSum
    <3> QED BY <3>1, <3>2, <3>3
  <2>2. ASSUME NEW T \in SUBSET S, T # {}, \A x \in T : T \ {x} \in X PROVE T \in X
    <3>1. Chosen(T) \in T
      BY <2>2, ChosenIn
    <3>2. f[Chosen(T)] \in Int /\ g[T \ {Chosen(T)}] \in Int
      BY <2>2, <3>1
    <3> QED BY <1>5, <2>2, <3>2 DEF NextSum
  <2> HIDE DEF X
  <2>3. \A T \in SUBSET S : T \in X
    BY <2>1, <2>2, Building
  <2> QED BY <2>3 DEF X
<1>7. g \in [SUBSET S -> Int]
  BY <1>3, <1>6
<1> QED BY <1>4, <1>5, <1>7

\* The sum of no terms, and one term taken off a sum.
LEMMA SumBasics ==
  ASSUME NEW S, IsFiniteSet(S), NEW f, \A x \in S : f[x] \in Int
  PROVE  /\ SumFunctionOnSet(f, S) \in Int
         /\ S = {} => SumFunctionOnSet(f, S) = 0
         /\ \A x \in S : /\ SumFunctionOnSet(f, S \ {x}) \in Int
                         /\ SumFunctionOnSet(f, S) = f[x] + SumFunctionOnSet(f, S \ {x})
<1>1. PICK g \in [SUBSET S -> Int] : /\ \A T \in SUBSET S : g[T] = NextSum(f, g, T)
                                     /\ SumFunctionOnSet(f, S) = g[S]
  BY SumSteps
<1>2. ASSUME NEW T \in SUBSET S PROVE SumFunctionOnSet(f, T) = g[T]
  <2>1. IsFiniteSet(T)
    BY FS_Subset
  <2>2. PICK h \in [SUBSET T -> Int] : /\ \A U \in SUBSET T : h[U] = NextSum(f, h, U)
                                       /\ SumFunctionOnSet(f, T) = h[T]
    BY <2>1, SumSteps
  <2> DEFINE X == {U \in SUBSET T : h[U] = g[U]}
  <2>3. {} \in X
    BY <1>1, <2>2 DEF NextSum
  <2>4. ASSUME NEW U \in SUBSET T, U # {}, \A x \in U : U \ {x} \in X PROVE U \in X
    <3>1. h[U \ {Chosen(U)}] = g[U \ {Chosen(U)}]
      BY <2>4, ChosenIn
    <3>2. h[U] = NextSum(f, h, U) /\ g[U] = NextSum(f, g, U)
      BY <1>1, <2>2
    <3> QED BY <3>1, <3>2 DEF NextSum
  <2> HIDE DEF X
  <2>5. \A U \in SUBSET T : U \in X
    BY <2>1, <2>3, <2>4, Building
  <2> QED BY <2>2, <2>5 DEF X
<1>3. S = {} => g[S] = 0
  BY <1>1 DEF NextSum
<1> DEFINE X == {T \in SUBSET S : \A x \in T : g[T] = f[x] + g[T \ {x}]}
<1>4. {} \in X
  OBVIOUS
<1>5. ASSUME NEW T \in SUBSET S, T # {}, \A x \in T : T \ {x} \in X PROVE T \in X
  <2> SUFFICES ASSUME NEW x \in T PROVE g[T] = f[x] + g[T \ {x}]
    OBVIOUS
  <2> DEFINE y == Chosen(T)
             A == T \ {x}
             B == T \ {y}
             C == (T \ {x}) \ {y}
  <2>1. y \in T
    BY <1>5, ChosenIn
  <2>2. g[T] = f[y] + g[B]
    BY <1>1, <1>5 DEF NextSum
  <2>3. CASE y = x
    BY <2>2, <2>3
  <2>4. CASE y # x
    <3>1. g[B] = f[x] + g[B \ {x}]
      BY <1>5, <2>1, <2>4
    <3>2. g[A] = f[y] + g[C]
      BY <1>5, <2>1, <2>4
    <3>3. B \ {x} = C
      OBVIOUS
    <3>4. C \in SUBSET S /\ A \in SUBSET S
      OBVIOUS
    <3>5. g[C] \in Int /\ g[A] \in Int /\ f[x] \in Int /\ f[y] \in Int
      BY <3>4, <2>1
    <3> HIDE DEF y, A, B, C
    <3>6. g[B] = f[x] + g[C]
      BY <3>1, <3>3
    <3>7. g[T] = f[x] + g[A]
      BY <2>2, <3>2, <3>5, <3>6
    <3> QED BY <3>7 DEF A
  <2> QED BY <2>3, <2>4
<1> HIDE DEF X
<1>6. S \in X
  BY <1>4, <1>5, Building
<1>7. \A x \in S : S \ {x} \in SUBSET S
  OBVIOUS
<1> QED BY <1>1, <1>2, <1>3, <1>6, <1>7 DEF X

\* Sums of the same terms.
LEMMA SumSame ==
  ASSUME NEW S, IsFiniteSet(S), NEW f, NEW g, \A x \in S : f[x] \in Int /\ f[x] = g[x]
  PROVE  SumFunctionOnSet(f, S) = SumFunctionOnSet(g, S)
<1> DEFINE X == {T \in SUBSET S : SumFunctionOnSet(f, T) = SumFunctionOnSet(g, T)}
<1>1. \A T \in SUBSET S : IsFiniteSet(T)
  BY FS_Subset
<1>2. {} \in X
  BY <1>1, SumBasics
<1>3. ASSUME NEW T \in SUBSET S, T # {}, \A x \in T : T \ {x} \in X PROVE T \in X
  <2>1. PICK x \in T : TRUE
    BY <1>3
  <2>2. SumFunctionOnSet(f, T \ {x}) = SumFunctionOnSet(g, T \ {x})
    BY <1>3
  <2>3. \A y \in T : f[y] \in Int /\ g[y] \in Int
    OBVIOUS
  <2>4. SumFunctionOnSet(f, T) = f[x] + SumFunctionOnSet(f, T \ {x})
    BY <1>1, <2>3, SumBasics
  <2>5. SumFunctionOnSet(g, T) = g[x] + SumFunctionOnSet(g, T \ {x})
    BY <1>1, <2>3, SumBasics
  <2> QED BY <2>2, <2>4, <2>5
<1> HIDE DEF X
<1>4. \A T \in SUBSET S : T \in X
  BY <1>2, <1>3, Building
<1> QED BY <1>4 DEF X

\* A sum of numbers is one, and no less than any of them.
LEMMA SumNat ==
  ASSUME NEW S, IsFiniteSet(S), NEW f, \A x \in S : f[x] \in Nat
  PROVE  /\ SumFunctionOnSet(f, S) \in Nat
         /\ \A x \in S : f[x] <= SumFunctionOnSet(f, S)
<1> DEFINE X == {T \in SUBSET S : SumFunctionOnSet(f, T) \in Nat}
<1>1. \A T \in SUBSET S : IsFiniteSet(T)
  BY FS_Subset
<1>2. {} \in X
  <2>1. SumFunctionOnSet(f, {}) = 0
    BY <1>1, SumBasics
  <2> QED BY <2>1
<1>3. ASSUME NEW T \in SUBSET S PROVE \A x \in T : f[x] \in Int
  OBVIOUS
<1>4. ASSUME NEW T \in SUBSET S, T # {}, \A x \in T : T \ {x} \in X PROVE T \in X
  <2>1. PICK x \in T : TRUE
    BY <1>4
  <2>2. SumFunctionOnSet(f, T \ {x}) \in Nat
    BY <1>4
  <2>3. SumFunctionOnSet(f, T) = f[x] + SumFunctionOnSet(f, T \ {x})
    BY <1>1, <1>3, SumBasics
  <2> QED BY <2>2, <2>3
<1> HIDE DEF X
<1>5. \A T \in SUBSET S : T \in X
  BY <1>2, <1>4, Building
<1>6. ASSUME NEW x \in S PROVE f[x] <= SumFunctionOnSet(f, S)
  <2>1. SumFunctionOnSet(f, S \ {x}) \in Nat
    BY <1>5 DEF X
  <2>2. SumFunctionOnSet(f, S) = f[x] + SumFunctionOnSet(f, S \ {x})
    BY <1>3, SumBasics
  <2> QED BY <2>1, <2>2
<1> QED BY <1>5, <1>6 DEF X

\* One term changes.
LEMMA SumChange ==
  ASSUME NEW S, IsFiniteSet(S), NEW f, NEW g, NEW z \in S,
         \A x \in S : f[x] \in Int /\ g[x] \in Int,
         \A x \in S \ {z} : g[x] = f[x]
  PROVE  SumFunctionOnSet(g, S) = SumFunctionOnSet(f, S) + (g[z] - f[z])
<1>1. IsFiniteSet(S \ {z})
  BY FS_RemoveElement
<1>2. SumFunctionOnSet(f, S \ {z}) = SumFunctionOnSet(g, S \ {z})
  BY <1>1, SumSame
<1>3. /\ SumFunctionOnSet(f, S) = f[z] + SumFunctionOnSet(f, S \ {z})
      /\ SumFunctionOnSet(f, S \ {z}) \in Int
  BY SumBasics
<1>4. SumFunctionOnSet(g, S) = g[z] + SumFunctionOnSet(g, S \ {z})
  BY SumBasics
<1> QED BY <1>2, <1>3, <1>4

\* Some terms become 0.
LEMMA SumCleared ==
  ASSUME NEW S, IsFiniteSet(S), NEW f, NEW g, NEW A \in SUBSET S,
         \A x \in S : f[x] \in Int,
         \A x \in S : g[x] = IF x \in A THEN 0 ELSE f[x]
  PROVE  SumFunctionOnSet(g, S) = SumFunctionOnSet(f, S) - SumFunctionOnSet(f, A)
<1> DEFINE h(T) == [x \in S |-> IF x \in T THEN 0 ELSE f[x]]
           X == {T \in SUBSET A : SumFunctionOnSet(h(T), S)
                                     = SumFunctionOnSet(f, S) - SumFunctionOnSet(f, T)}
<1>1. \A T \in SUBSET A : IsFiniteSet(T)
  BY FS_Subset
<1>2. SumFunctionOnSet(f, S) \in Int
  BY SumBasics
<1>3. {} \in X
  <2>1. SumFunctionOnSet(f, {}) = 0
    BY <1>1, SumBasics
  <2>2. \A x \in S : h({})[x] = f[x]
    OBVIOUS
  <2>3. SumFunctionOnSet(h({}), S) = SumFunctionOnSet(f, S)
    BY <2>2, SumSame
  <2> HIDE DEF h
  <2> QED BY <1>2, <2>1, <2>3
<1>4. ASSUME NEW T \in SUBSET A, T # {}, \A x \in T : T \ {x} \in X PROVE T \in X
  <2>1. PICK z \in T : TRUE
    BY <1>4
  <2> DEFINE U == T \ {z}
  <2>2. SumFunctionOnSet(h(U), S) = SumFunctionOnSet(f, S) - SumFunctionOnSet(f, U)
    BY <1>4
  <2>3. \A x \in T : f[x] \in Int
    OBVIOUS
  <2>4. /\ SumFunctionOnSet(f, T) = f[z] + SumFunctionOnSet(f, U)
        /\ SumFunctionOnSet(f, U) \in Int
    BY <1>1, <2>3, SumBasics
  <2>5. /\ \A x \in S : h(U)[x] \in Int /\ h(T)[x] \in Int
        /\ \A x \in S \ {z} : h(T)[x] = h(U)[x]
        /\ h(U)[z] = f[z] /\ h(T)[z] = 0 /\ z \in S
    OBVIOUS
  <2> HIDE DEF h, U
  <2>6. SumFunctionOnSet(h(T), S) = SumFunctionOnSet(h(U), S) + (h(T)[z] - h(U)[z])
    BY <2>5, SumChange
  <2>7. SumFunctionOnSet(h(T), S) = SumFunctionOnSet(f, S) - SumFunctionOnSet(f, T)
    BY <1>2, <2>2, <2>3, <2>4, <2>5, <2>6
  <2> QED BY <2>7
<1> HIDE DEF X
<1>5. \A T \in SUBSET A : T \in X
  BY <1>1, <1>3, <1>4, FS_Subset, Building
<1>6. \A x \in S : h(A)[x] \in Int /\ h(A)[x] = g[x]
  OBVIOUS
<1> HIDE DEF h
<1>7. SumFunctionOnSet(h(A), S) = SumFunctionOnSet(g, S)
  BY <1>6, SumSame
<1> QED BY <1>5, <1>7 DEF X

\* A sum of zeros.
LEMMA SumZero ==
  ASSUME NEW S, IsFiniteSet(S), NEW f, \A x \in S : f[x] = 0
  PROVE  SumFunctionOnSet(f, S) = 0
<1>1. SumFunctionOnSet(f, S) \in Int
  BY SumBasics
<1>2. SumFunctionOnSet(f, S) = SumFunctionOnSet(f, S) - SumFunctionOnSet(f, S)
  BY SumCleared
<1> QED BY <1>1, <1>2

\* Sums of terms that are paired off.
LEMMA SumPaired ==
  ASSUME NEW A, NEW B, IsFiniteSet(A), IsFiniteSet(B), NEW f, NEW g, NEW b,
         \A x \in A : f[x] \in Int /\ b[x] \in B /\ g[b[x]] = f[x],
         \A x, y \in A : b[x] = b[y] => x = y,
         \A y \in B : \E x \in A : b[x] = y
  PROVE  SumFunctionOnSet(f, A) = SumFunctionOnSet(g, B)
<1> DEFINE Pair(T) == {y \in B : \E x \in T : b[x] = y}
           X == {T \in SUBSET A : SumFunctionOnSet(f, T) = SumFunctionOnSet(g, Pair(T))}
<1>1. \A T \in SUBSET A : IsFiniteSet(T)
  BY FS_Subset
<1>2. \A T \in SUBSET B : IsFiniteSet(T)
  BY FS_Subset
<1>3. {} \in X
  <2>1. SumFunctionOnSet(f, {}) = 0
    BY <1>1, SumBasics
  <2>2. SumFunctionOnSet(g, {}) = 0
    BY <1>2, SumBasics
  <2>3. Pair({}) = {}
    OBVIOUS
  <2> HIDE DEF Pair
  <2> QED BY <2>1, <2>2, <2>3
<1>4. ASSUME NEW T \in SUBSET A, T # {}, \A x \in T : T \ {x} \in X PROVE T \in X
  <2>1. PICK z \in T : TRUE
    BY <1>4
  <2>2. SumFunctionOnSet(f, T \ {z}) = SumFunctionOnSet(g, Pair(T \ {z}))
    BY <1>4
  <2>3. SumFunctionOnSet(f, T) = f[z] + SumFunctionOnSet(f, T \ {z})
    <3>1. \A x \in T : f[x] \in Int
      OBVIOUS
    <3> QED BY <1>1, <3>1, SumBasics
  <2>4. Pair(T \ {z}) = Pair(T) \ {b[z]} /\ b[z] \in Pair(T) /\ g[b[z]] = f[z]
    OBVIOUS
  <2>5. \A y \in Pair(T) : g[y] \in Int
    OBVIOUS
  <2>6. IsFiniteSet(Pair(T))
    BY <1>2
  <2> HIDE DEF Pair
  <2>7. SumFunctionOnSet(g, Pair(T)) = g[b[z]] + SumFunctionOnSet(g, Pair(T) \ {b[z]})
    BY <2>4, <2>5, <2>6, SumBasics
  <2>8. SumFunctionOnSet(f, T) = SumFunctionOnSet(g, Pair(T))
    BY <2>2, <2>3, <2>4, <2>7
  <2> QED BY <2>8
<1>5. Pair(A) = B
  OBVIOUS
<1> HIDE DEF X, Pair
<1>6. \A T \in SUBSET A : T \in X
  BY <1>3, <1>4, Building
<1> QED BY <1>5, <1>6 DEF X

\* Several series in one are made by adding one after another.
LEMMA Parts ==
  ASSUME NEW M, NEW ss \in Seq(Seq(M))
  PROVE  \E f : /\ FlattenSeq(ss) = IF Len(ss) = 0 THEN <<>> ELSE f[Len(ss)]
               /\ \A i \in 1 .. Len(ss) :
                    /\ f[i] \in Seq(M)
                    /\ f[i] = IF i = 1 THEN ss[i] ELSE f[i - 1] \o ss[i]
<1> DEFINE N == Len(ss)
           Joined(g, i) == IF i = 1 THEN ss[i] ELSE g[i - 1] \o ss[i]
           Good(k, g) == \A i \in 1 .. k : g[i] = Joined(g, i)
           Reach(k) == \E g \in [1 .. k -> Seq(M)] : Good(k, g)
           K == {k \in Nat : k <= N => Reach(k)}
<1>1. N \in Nat /\ \A i \in 1 .. N : ss[i] \in Seq(M)
  OBVIOUS
<1>2. 0 \in K
  <2> DEFINE g == [i \in 1 .. 0 |-> <<>>]
  <2>1. g \in [1 .. 0 -> Seq(M)] /\ Good(0, g)
    OBVIOUS
  <2> QED BY <2>1
<1>3. ASSUME NEW k \in K PROVE k + 1 \in K
  <2> SUFFICES ASSUME k + 1 <= N PROVE Reach(k + 1)
    <3> HIDE DEF Reach
    <3> QED OBVIOUS
  <2>0. Reach(k)
    <3> HIDE DEF Reach
    <3> QED BY <1>1
  <2>1. PICK g \in [1 .. k -> Seq(M)] : Good(k, g)
    BY <2>0
  <2> DEFINE h == [i \in 1 .. k + 1 |-> Joined(g, i)]
  <2>2. ASSUME NEW i \in 1 .. k + 1, i # 1 PROVE i - 1 \in 1 .. k /\ i - 1 \in 1 .. k + 1 /\ i \in 1 .. N
    BY <1>1, <2>2
  <2>3. ASSUME NEW i \in 1 .. k + 1 PROVE Joined(g, i) \in Seq(M)
    <3>1. CASE i = 1
      <4>1. ss[i] \in Seq(M)
        BY <1>1, <3>1
      <4> QED BY <3>1, <4>1
    <3>2. CASE i # 1
      <4>1. g[i - 1] \in Seq(M) /\ ss[i] \in Seq(M)
        BY <1>1, <2>2, <3>2
      <4>2. g[i - 1] \o ss[i] \in Seq(M)
        BY <4>1, ConcatProperties
      <4> QED BY <3>2, <4>2
    <3> QED BY <3>1, <3>2
  <2>4. h \in [1 .. k + 1 -> Seq(M)]
    BY <2>3
  <2>5. ASSUME NEW i \in 1 .. k PROVE h[i] = g[i]
    <3>1. i \in 1 .. k + 1
      OBVIOUS
    <3>2. h[i] = Joined(g, i)
      BY <3>1
    <3> QED BY <2>1, <3>2
  <2>6. ASSUME NEW i \in 1 .. k + 1 PROVE h[i] = Joined(h, i)
    <3>1. h[i] = Joined(g, i)
      OBVIOUS
    <3>2. i # 1 => h[i - 1] = g[i - 1]
      BY <2>2, <2>5
    <3> HIDE DEF h
    <3> QED BY <3>1, <3>2
  <2> HIDE DEF h
  <2> QED BY <2>4, <2>6
<1>4. K \in SUBSET Nat
  OBVIOUS
<1> HIDE DEF K
<1>5. K = Nat
  BY <1>2, <1>3, <1>4, Counting
<1>17. Reach(N)
  <2> HIDE DEF Reach
  <2> QED BY <1>1, <1>5 DEF K
<1>6. PICK e \in [1 .. N -> Seq(M)] : Good(N, e)
  BY <1>17
<1> DEFINE f == CHOOSE g : g = [i \in 1 .. N |-> Joined(g, i)]
<1>7. e = [i \in 1 .. N |-> Joined(e, i)]
  BY <1>6, Zenon
<1>8. f = [i \in 1 .. N |-> Joined(f, i)]
  BY <1>7, Zenon
<1>9. FlattenSeq(ss) = IF N = 0 THEN ss ELSE f[N]
  BY DEF FlattenSeq
<1> HIDE DEF f
<1> DEFINE J == {k \in Nat : k + 1 <= N => f[k + 1] \in Seq(M)}
<1>10. \A i \in 1 .. N : f[i] = Joined(f, i)
  BY <1>8
<1>11. 0 \in J
  <2> SUFFICES ASSUME 1 <= N PROVE f[1] \in Seq(M)
    OBVIOUS
  <2>1. 1 \in 1 .. N
    BY <1>1
  <2> QED BY <1>1, <1>10, <2>1
<1>12. ASSUME NEW k \in J PROVE k + 1 \in J
  <2> SUFFICES ASSUME k + 2 <= N PROVE f[k + 2] \in Seq(M)
    OBVIOUS
  <2> DEFINE j == k + 2
  <2>1. j \in 1 .. N /\ j # 1 /\ j - 1 = k + 1 /\ k + 1 <= N
    BY <1>1
  <2>2. f[k + 1] \in Seq(M)
    BY <2>1
  <2> HIDE DEF j
  <2>3. f[j] = Joined(f, j) /\ ss[j] \in Seq(M)
    <3> HIDE DEF Joined
    <3> QED BY <1>1, <1>10, <2>1
  <2>4. f[j] = f[j - 1] \o ss[j] /\ f[j - 1] \in Seq(M)
    BY <2>1, <2>2, <2>3
  <2>5. f[j] \in Seq(M)
    BY <2>3, <2>4, ConcatProperties
  <2> QED BY <2>5 DEF j
<1>13. J \in SUBSET Nat
  OBVIOUS
<1> HIDE DEF J
<1>14. J = Nat
  BY <1>11, <1>12, <1>13, Counting
<1>15. ASSUME NEW i \in 1 .. N PROVE f[i] \in Seq(M)
  <2>1. i - 1 \in J /\ i - 1 + 1 = i /\ i <= N
    BY <1>1, <1>14
  <2> QED BY <2>1 DEF J
<1>16. N = 0 => ss = <<>>
  OBVIOUS
<1>18. FlattenSeq(ss) = IF N = 0 THEN <<>> ELSE f[N]
  BY <1>9, <1>16
<1> QED BY <1>10, <1>15, <1>18

\* The messages of several series in one are theirs.
LEMMA Flattening ==
  ASSUME NEW M, NEW ss \in Seq(Seq(M))
  PROVE  FlattenSeq(ss) \in Seq(M)
<1>1. PICK f : /\ FlattenSeq(ss) = IF Len(ss) = 0 THEN <<>> ELSE f[Len(ss)]
               /\ \A i \in 1 .. Len(ss) : f[i] \in Seq(M)
  BY Parts
<1>2. Len(ss) \in Nat /\ <<>> \in Seq(M)
  BY LenProperties
<1>3. Len(ss) # 0 => Len(ss) \in 1 .. Len(ss)
  BY <1>2
<1> QED BY <1>1, <1>2, <1>3

-----------------------------------------------------------------------------
(* The tables and the links under Sessions                                  *)

\* What is sent on a link; news of sessions and of their files goes one way only.
Mail == Message \cup [type : {"SHARING"}, nick : Nick, shared : Nat]
                \cup [type : {"START", "END"}, nick : Nick]
Post(t, s) == {m \in Mail : m.type \in {"LOGIN", "SHARING"} => m.nick \in Carried(t, s)}
Posts(ch) == /\ ch \in [Server -> [Server -> Seq(Mail)]]
             /\ \A s, t \in Server : ch[t][s] \in Seq(Post(t, s))

\* UserNet's invariants of tables and connections, but for the channels, and that every
\* entry was learnt from the side of its nick's home.
Typed ==
  /\ users \in [Server -> [Nick -> Entry]]
  /\ conn \in [Server -> [Conn -> Connection]]
  /\ end \in [Server -> [Server -> {"down", "pending", "up", "dying"}]]
  /\ now \in Nat
Tables ==
  /\ Typed /\ EntriesHaveHomes /\ ConnectionsOwnEntries /\ EntriesHaveConnections
  /\ \A s \in Server : FromNear(s)
  /\ \A s, t \in Server : end[s][t] # "down" => t \in Edge[s]

\* The entry that a step leaves for nick n at s is one that a table may have.
Proper(s, n) ==
  LET e == users'[s][n]
  IN  /\ e.con # None => e.home \in Server /\ e.ip \in Addr
      /\ e.con \in Conn => /\ conn'[s][e.con].class = "user" /\ conn'[s][e.con].nick = n
                           /\ e.home = s /\ s \in Home[n]
      /\ e.con \in Server => e.con \in Servers(s)' /\ n \in Carried(e.con, s)

\* A step changes the entries of the nicks S at s, and logs in or closes what belongs to
\* them.
Alike(s, c) == conn'[s][c].class = conn[s][c].class /\ conn'[s][c].nick = conn[s][c].nick
Opens(s, S, c) == conn'[s][c].class = "user" =>
                    /\ conn[s][c].class # "user"
                    /\ conn'[s][c].nick \in S /\ users'[s][conn'[s][c].nick].con = c
Closes(s, S, c) == conn[s][c].class = "user" => conn[s][c].nick \in S
Turns(s, S) ==
  /\ users' \in [Server -> [Nick -> Entry]] /\ conn' \in [Server -> [Conn -> Connection]]
  /\ \A r \in Server \ {s} : users'[r] = users[r] /\ conn'[r] = conn[r]
  /\ \A n \in Nick \ S : users'[s][n] = users[s][n]
  /\ \A n \in S : Proper(s, n) /\ (Local(s, n) => conn'[s][users[s][n].con].class # "user")
  /\ \A c \in Conn : Alike(s, c) \/ (Opens(s, S, c) /\ Closes(s, S, c))

\* No link is removed that an entry which stays was learnt from.
KeepsLinks(s, S) ==
  /\ end' \in [Server -> [Server -> {"down", "pending", "up", "dying"}]] /\ now' \in Nat
  /\ \A r, t \in Server : end'[r][t] # "down" => t \in Edge[r]
  /\ \A r \in Server, n \in Nick : (r = s => n \notin S) =>
       (users[r][n].con \in Servers(r) => users[r][n].con \in Servers(r)')

\* A local entry changes only when its connection is closed, and a connection that
\* stays logged in keeps its nick.
Held(s) ==
  /\ \A n \in Nick : (Local(s, n) /\ users'[s][n] # users[s][n]) =>
                        conn'[s][users[s][n].con].class # "user"
  /\ \A c \in Conn : (conn[s][c].class = "user" /\ conn'[s][c].class = "user") =>
                        conn'[s][c].nick = conn[s][c].nick

\* Whatever a step does to the nicks of one server within these limits keeps the tables.
LEMMA TablesTurn ==
  ASSUME Tables, NEW s \in Server, NEW S \in SUBSET Nick, Turns(s, S), KeepsLinks(s, S)
  PROVE  Tables' /\ \A r \in Server : Held(r)
<1>1. Typed'
  BY DEF Typed, Turns, KeepsLinks
<1>2. \A r \in Server \ {s} : users'[r] = users[r] /\ conn'[r] = conn[r]
  BY DEF Turns
<1>3. \A n \in Nick \ S : users'[s][n] = users[s][n]
  BY DEF Turns
<1>4. \A n \in S : Proper(s, n) /\ (Local(s, n) => conn'[s][users[s][n].con].class # "user")
  BY DEF Turns
<1>5. \A c \in Conn : Alike(s, c) \/ (Opens(s, S, c) /\ Closes(s, S, c))
  BY DEF Turns
<1>6. \A r \in Server, n \in Nick : users[r][n].con \in Conn \cup Server \cup {None}
  BY DEF Tables, Typed, Entry
<1>7. EntriesHaveHomes'
  <2> SUFFICES ASSUME NEW r \in Server, NEW n \in Nick, Known(r, n)'
               PROVE  users'[r][n].home \in Server /\ users'[r][n].ip \in Addr
    BY DEF EntriesHaveHomes
  <2>1. CASE r = s /\ n \in S
    BY <1>4, <2>1 DEF Proper, Known
  <2>2. CASE ~(r = s /\ n \in S)
    BY <1>2, <1>3, <2>2 DEF Tables, EntriesHaveHomes, Known
  <2> QED BY <2>1, <2>2
<1>8. ASSUME NEW n \in Nick \ S, users[s][n].con \in Conn
      PROVE  LET c == users[s][n].con
             IN  conn'[s][c].class = "user" /\ conn'[s][c].nick = n
  <2> DEFINE c == users[s][n].con
  <2>1. conn[s][c].class = "user" /\ conn[s][c].nick = n
    BY <1>8 DEF Tables, EntriesHaveConnections
  <2>2. ~Closes(s, S, c)
    BY <2>1 DEF Closes
  <2> QED BY <1>5, <1>8, <2>1, <2>2 DEF Alike
<1>9. EntriesHaveConnections'
  <2> SUFFICES ASSUME NEW r \in Server, NEW n \in Nick
               PROVE  LET c == users'[r][n].con
                      IN  /\ c \in Conn => /\ conn'[r][c].class = "user" /\ conn'[r][c].nick = n
                                            /\ users'[r][n].home = r
                          /\ c \in Server => c \in Servers(r)'
    BY DEF EntriesHaveConnections
  <2>1. CASE r = s /\ n \in S
    BY <1>4, <2>1 DEF Proper
  <2>2. CASE ~(r = s /\ n \in S)
    <3>1. users'[r][n] = users[r][n]
      BY <1>2, <1>3, <2>2
    <3>2. users[r][n].con \in Servers(r) => users[r][n].con \in Servers(r)'
      BY <2>2 DEF KeepsLinks
    <3>3. LET c == users[r][n].con
          IN  /\ c \in Conn => /\ conn[r][c].class = "user" /\ conn[r][c].nick = n
                                /\ users[r][n].home = r
              /\ c \in Server => c \in Servers(r)
      BY DEF Tables, EntriesHaveConnections
    <3> QED BY <1>2, <1>8, <2>2, <3>1, <3>2, <3>3
  <2> QED BY <2>1, <2>2
<1>10. ConnectionsOwnEntries'
  <2> SUFFICES ASSUME NEW r \in Server, NEW c \in Conn, conn'[r][c].class = "user"
               PROVE  conn'[r][c].nick \in Nick /\ users'[r][conn'[r][c].nick].con = c
    BY DEF ConnectionsOwnEntries
  <2>1. CASE r # s
    BY <1>2, <2>1 DEF Tables, ConnectionsOwnEntries
  <2>2. CASE r = s /\ Alike(s, c)
    <3>1. conn[s][c].class = "user" /\ conn[s][c].nick = conn'[s][c].nick
      BY <2>2 DEF Alike
    <3>2. conn[s][c].nick \in Nick /\ users[s][conn[s][c].nick].con = c
      BY <3>1 DEF Tables, ConnectionsOwnEntries
    <3>3. conn[s][c].nick \notin S
      BY <1>4, <2>2, <3>2 DEF Local
    <3> QED BY <1>3, <2>2, <3>1, <3>2, <3>3
  <2>3. CASE r = s /\ Opens(s, S, c)
    BY <2>3 DEF Opens
  <2> QED BY <1>5, <2>1, <2>2, <2>3
<1>11. \A r \in Server : FromNear(r)'
  <2> SUFFICES ASSUME NEW r \in Server, NEW n \in Nick
               PROVE  /\ users'[r][n].con \in Server => n \in Carried(users'[r][n].con, r)
                      /\ users'[r][n].con \in Conn => r \in Home[n]
    BY DEF FromNear, Local
  <2>1. CASE r = s /\ n \in S
    BY <1>4, <2>1 DEF Proper
  <2>2. CASE ~(r = s /\ n \in S)
    BY <1>2, <1>3, <2>2 DEF Tables, FromNear, Local
  <2> QED BY <2>1, <2>2
<1>12. ASSUME NEW r \in Server PROVE Held(r)
  <2>1. CASE r # s
    <3>1. users'[r] = users[r] /\ conn'[r] = conn[r]
      BY <1>2, <2>1
    <3> QED BY <3>1 DEF Held
  <2>2. CASE r = s
    <3>1. ASSUME NEW n \in Nick, Local(s, n), users'[s][n] # users[s][n]
          PROVE  conn'[s][users[s][n].con].class # "user"
      BY <1>3, <1>4, <3>1
    <3>2. ASSUME NEW c \in Conn, conn[s][c].class = "user", conn'[s][c].class = "user"
          PROVE  conn'[s][c].nick = conn[s][c].nick
      BY <1>5, <3>2 DEF Alike, Opens
    <3> QED BY <2>2, <3>1, <3>2 DEF Held
  <2> QED BY <2>1, <2>2
<1>13. \A r, t \in Server : end'[r][t] # "down" => t \in Edge[r]
  BY DEF KeepsLinks
<1> QED BY <1>1, <1>7, <1>9, <1>10, <1>11, <1>12, <1>13 DEF Tables

\* One message, or one after another, is mail for a link if each message is.
LEMMA PostSeqs ==
  ASSUME NEW s \in Server, NEW t \in Server
  PROVE  /\ <<>> \in Seq(Post(t, s)) /\ <<>> \in Seq(Mail)
         /\ \A m \in Post(t, s) : <<m>> \in Seq(Post(t, s)) /\ m \in Mail
         /\ \A p, q \in Seq(Post(t, s)) : p \o q \in Seq(Post(t, s))
         /\ \A p \in Seq(Post(t, s)) : p \in Seq(Mail)
<1>1. \A p, q \in Seq(Post(t, s)) : p \o q \in Seq(Post(t, s))
  BY ConcatProperties
<1>2. Post(t, s) \subseteq Mail
  BY DEF Post
<1>3. \A p \in Seq(Post(t, s)) : p \in Seq(Mail)
  BY <1>2
<1> HIDE DEF Post, Mail
<1> QED BY <1>1, <1>2, <1>3

\* The fields of a message that is read.
LEMMA MailFields ==
  ASSUME NEW m \in Mail
  PROVE  /\ m.type = "LOGIN" => m.nick \in Nick /\ m.ts \in Nat /\ m.home \in Server /\ m.ip \in Addr
         /\ m.type = "QUIT" => m.nick \in Nick
         /\ m.type = "KILL" => m.nick \in Nick /\ m.by \in Nick \cup Server
         /\ m.type = "SHARING" => m.nick \in Nick /\ m.shared \in Nat
         /\ m.type \in {"START", "END"} => m.nick \in Nick
BY DEF Mail, Message

\* Messages that are not news of a session fit every link; news is sent on where it is heard.
LEMMA MailMade ==
  ASSUME NEW s \in Server, NEW t \in Server
  PROVE  /\ \A n \in Nick : QuitMsg(n) \in Post(s, t)
         /\ \A n \in Nick, by \in Nick \cup Server : KillMsg(by, n) \in Post(s, t)
         /\ Ack \in Post(s, t) /\ Eof \in Post(s, t)
         /\ \A n \in Nick : UploadMsg("START", n) \in Post(s, t) /\ UploadMsg("END", n) \in Post(s, t)
         /\ \A n \in Carried(s, t) : \A e : (e.ts \in Nat /\ e.home \in Server /\ e.ip \in Addr) =>
              LoginMsg(n, e) \in Post(s, t)
         /\ \A n \in Carried(s, t), k \in Nat : SharingMsg(n, k) \in Post(s, t)
<1>1. \A n \in Nick : QuitMsg(n) \in Post(s, t)
  BY DEF QuitMsg, Post, Mail, Message
<1>2. \A n \in Nick, by \in Nick \cup Server : KillMsg(by, n) \in Post(s, t)
  BY DEF KillMsg, Post, Mail, Message
<1>3. Ack \in Post(s, t) /\ Eof \in Post(s, t)
  BY DEF Ack, Eof, Post, Mail, Message
<1>4. \A n \in Nick : UploadMsg("START", n) \in Post(s, t) /\ UploadMsg("END", n) \in Post(s, t)
  BY DEF UploadMsg, Post, Mail
<1>5. Carried(s, t) \subseteq Nick
  BY DEF Carried
<1>6. \A n \in Carried(s, t) : \A e : (e.ts \in Nat /\ e.home \in Server /\ e.ip \in Addr) =>
              LoginMsg(n, e) \in Post(s, t)
  BY <1>5 DEF LoginMsg, Post, Mail, Message
<1>7. \A n \in Carried(s, t), k \in Nat : SharingMsg(n, k) \in Post(s, t)
  BY <1>5 DEF SharingMsg, Post, Mail
<1> QED BY <1>1, <1>2, <1>3, <1>4, <1>6, <1>7

\* pass_message(): what fits every link it goes to fits the queues.
LEMMA PassPosts ==
  ASSUME NEW ch, Posts(ch), NEW s \in Server, NEW except, NEW msgs \in Seq(Mail),
         \A u \in Servers(s) \ {except} : msgs \in Seq(Post(s, u))
  PROVE  Posts(PassOn(ch, s, except, msgs))
<1> DEFINE row == [t \in Server |->
              IF t \in Servers(s) \ {except} /\ end[t][s] # "down"
              THEN ch[s][t] \o msgs ELSE ch[s][t]]
<1>1. ASSUME NEW t \in Server PROVE row[t] \in Seq(Post(s, t)) /\ row[t] \in Seq(Mail)
  <2>1. ch[s][t] \in Seq(Post(s, t))
    BY DEF Posts
  <2>2. CASE t \in Servers(s) \ {except} /\ end[t][s] # "down"
    <3>1. ch[s][t] \o msgs \in Seq(Post(s, t))
      BY <2>1, <2>2, PostSeqs
    <3>2. row[t] = ch[s][t] \o msgs
      BY <2>2
    <3> QED BY <3>1, <3>2, PostSeqs
  <2>3. CASE ~(t \in Servers(s) \ {except} /\ end[t][s] # "down")
    <3>1. row[t] = ch[s][t]
      BY <2>3
    <3> QED BY <2>1, <3>1, PostSeqs
  <2> QED BY <2>2, <2>3
<1>2. row = [t \in Server |-> row[t]]
  OBVIOUS
<1> HIDE DEF row
<1>3. row \in [Server -> Seq(Mail)]
  BY <1>1, <1>2
<1>4. [ch EXCEPT ![s] = row] \in [Server -> [Server -> Seq(Mail)]]
  BY <1>3 DEF Posts
<1>5. ASSUME NEW r \in Server, NEW t \in Server PROVE [ch EXCEPT ![s] = row][r][t] \in Seq(Post(r, t))
  <2>1. [ch EXCEPT ![s] = row][r][t] = IF r = s THEN row[t] ELSE ch[r][t]
    BY DEF Posts
  <2> QED BY <1>1, <2>1 DEF Posts
<1>6. PassOn(ch, s, except, msgs) = [ch EXCEPT ![s] = row]
  BY DEF PassOn, row
<1> QED BY <1>4, <1>5, <1>6 DEF Posts

\* What is read was sent, and the rest of the queue stays.
LEMMA ReceivedPosts ==
  ASSUME Posts(chan), NEW s \in Server, NEW t \in Server, chan[t][s] # <<>>
  PROVE  Posts(Received(t, s)) /\ Head(chan[t][s]) \in Post(t, s) /\ Head(chan[t][s]) \in Mail
<1>1. chan[t][s] \in Seq(Post(t, s))
  BY DEF Posts
<1>2. Head(chan[t][s]) \in Post(t, s) /\ Tail(chan[t][s]) \in Seq(Post(t, s))
  BY <1>1, HeadTailProperties
<1>3. Tail(chan[t][s]) \in Seq(Mail)
  BY <1>2, PostSeqs
<1> DEFINE q == Tail(chan[t][s])
<1>4. Received(t, s) = [chan EXCEPT ![t][s] = q]
  BY DEF Received
<1> HIDE DEF q
<1>5. Received(t, s) \in [Server -> [Server -> Seq(Mail)]]
  BY <1>3, <1>4 DEF Posts, q
<1>6. ASSUME NEW a \in Server, NEW b \in Server PROVE Received(t, s)[a][b] \in Seq(Post(a, b))
  <2>1. Received(t, s)[a][b] = IF a = t /\ b = s THEN q ELSE chan[a][b]
    BY <1>4 DEF Posts
  <2> QED BY <1>2, <2>1 DEF Posts, q
<1> QED BY <1>2, <1>5, <1>6, PostSeqs DEF Posts

\* Where the news of a nick goes on from a server that hears of it or has it.
LEMMA NewsGoesOn ==
  ASSUME OneHome, Tables, NEW s \in Server, NEW n \in Nick
  PROVE  /\ s \in Home[n] => \A u \in Edge[s] : n \in Carried(s, u) /\ n \notin Carried(u, s)
         /\ \A t \in Server : n \in Carried(t, s) => \A u \in Servers(s) \ {t} : n \in Carried(s, u)
         /\ \A u \in Edge[s] : u \notin Servers(s) /\ Known(s, n) => n \in Carried(s, u)
         /\ Servers(s) \subseteq Edge[s]
         /\ Local(s, n) => s \in Home[n]
<1>1. Servers(s) \subseteq Edge[s]
  BY DEF Tables, Servers
<1>2. Local(s, n) => s \in Home[n]
  BY DEF Tables, FromNear
<1>3. s \in Home[n] => \A u \in Edge[s] : n \in Carried(s, u) /\ n \notin Carried(u, s)
  BY Carrying DEF OneWay
<1>4. \A t \in Server : n \in Carried(t, s) => \A u \in Edge[s] \ {t} : n \in Carried(s, u)
  BY Carrying DEF OneWay
<1>5. ASSUME NEW u \in Edge[s], u \notin Servers(s), Known(s, n) PROVE n \in Carried(s, u)
  <2>1. CASE Local(s, n)
    BY <1>2, <1>3, <2>1
  <2>2. CASE ~Local(s, n)
    <3>1. users[s][n].con \in Server
      BY <1>5, <2>2 DEF Tables, Typed, Entry, Known, Local
    <3>2. users[s][n].con \in Servers(s) /\ n \in Carried(users[s][n].con, s)
      BY <3>1 DEF Tables, EntriesHaveConnections, FromNear
    <3> QED BY <1>4, <1>5, <3>1, <3>2
  <2> QED BY <2>1, <2>2
<1> QED BY <1>1, <1>2, <1>3, <1>4, <1>5

\* What is shown of every step of UserNet under Sessions.
Orderly == Tables' /\ Posts(chan') /\ \A r \in Server : Held(r)

\* A step that leaves the tables alone.
LEMMA TablesStay ==
  ASSUME Tables, NEW s \in Server, UNCHANGED <<users, conn>>, KeepsLinks(s, {})
  PROVE  Tables' /\ \A r \in Server : Held(r)
<1>1. {} \in SUBSET Nick
  OBVIOUS
<1>2. Turns(s, {})
  BY DEF Turns, Alike, Tables, Typed
<1> QED BY <1>1, <1>2, TablesTurn

\* Steps on which no link is removed and the clock may advance.
LEMMA LinksStay ==
  ASSUME Tables, NEW s \in Server, NEW S, UNCHANGED end, now' \in Nat
  PROVE  KeepsLinks(s, S)
BY DEF KeepsLinks, Tables, Typed, Servers

\* login() of a client, over a ghost or over nobody.
LEMMA LoginOrderly ==
  ASSUME OneHome, Tables, Posts(chan), NEW s \in Server, NEW c \in Conn, NEW n \in Nick, NEW ip \in Addr,
         Login(s, c, n, ip)
  PROVE  Orderly
<1> DEFINE old   == users[s][n]
           new   == [con |-> c, ts |-> now, home |-> s, ip |-> ip]
           ghost == IF Known(s, n) THEN <<KillMsg(s, n)>> ELSE <<>>
           mine  == [class |-> "user", nick |-> n, destroy |-> FALSE, killed |-> FALSE]
<1>1. /\ users' = [users EXCEPT ![s][n] = new]
      /\ conn' = [conn EXCEPT ![s] = [Zap(s, old) EXCEPT ![c] = mine]]
      /\ chan' = PassOn(chan, s, None, ghost \o <<LoginMsg(n, new)>>)
      /\ now' \in Nat /\ UNCHANGED end
      /\ conn[s][c] = Free /\ s \in Home[n]
  BY DEF Login, Tables, Typed
<1>2. new \in Entry /\ new.con = c /\ new.ts \in Nat /\ new.home = s /\ new.ip \in Addr
  BY DEF Entry, Tables, Typed
<1>3. mine \in Connection /\ mine.class = "user" /\ mine.nick = n
  BY DEF Connection
<1>4. Zap(s, old) \in [Conn -> Connection]
  BY DEF Zap, Zapped, Connection, Tables, Typed
<1>5. Posts(chan')
  <2>1. \A u \in Servers(s) : n \in Carried(s, u)
    BY <1>1, NewsGoesOn
  <2>2. ASSUME NEW u \in Servers(s) PROVE ghost \o <<LoginMsg(n, new)>> \in Seq(Post(s, u))
    <3>1. u \in Server /\ n \in Carried(s, u)
      BY <2>1 DEF Servers
    <3>2. LoginMsg(n, new) \in Post(s, u) /\ KillMsg(s, n) \in Post(s, u)
      BY <1>2, <3>1, MailMade
    <3>3. ghost \in Seq(Post(s, u)) /\ <<LoginMsg(n, new)>> \in Seq(Post(s, u))
      BY <3>1, <3>2, PostSeqs
    <3> HIDE DEF ghost, new
    <3> QED BY <3>1, <3>3, PostSeqs
  <2>3. ghost \o <<LoginMsg(n, new)>> \in Seq(Mail)
    <3>1. LoginMsg(n, new) \in Mail /\ KillMsg(s, n) \in Mail
      BY <1>2 DEF LoginMsg, KillMsg, Mail, Message
    <3>2. ghost \in Seq(Mail) /\ <<LoginMsg(n, new)>> \in Seq(Mail)
      BY <3>1
    <3> HIDE DEF ghost, new
    <3> QED BY <3>2, ConcatProperties
  <2> HIDE DEF ghost, new
  <2> QED BY <1>1, <2>2, <2>3, PassPosts
<1> HIDE DEF new, mine
<1>6. \A d \in Conn : conn'[s][d] = IF d = c THEN mine
                        ELSE IF d = old.con THEN Zapped ELSE conn[s][d]
  <2>1. conn'[s] = [Zap(s, old) EXCEPT ![c] = mine]
    BY <1>1 DEF Tables, Typed
  <2>2. \A d \in Conn : Zap(s, old)[d] = IF d = old.con THEN Zapped ELSE conn[s][d]
    BY DEF Zap, Tables, Typed
  <2> QED BY <1>4, <2>1, <2>2
<1>7. Zapped.class = "unknown" /\ conn[s][c].class = "free"
  BY <1>1 DEF Zapped, Free
<1>8. \A m \in Nick : users'[s][m] = IF m = n THEN new ELSE users[s][m]
  BY <1>1 DEF Tables, Typed
<1>9. users[s][n].con # c
  BY <1>7 DEF Tables, EntriesHaveConnections
<1>10. Turns(s, {n})
  <2>1. /\ users' \in [Server -> [Nick -> Entry]] /\ conn' \in [Server -> [Conn -> Connection]]
        /\ \A r \in Server \ {s} : users'[r] = users[r] /\ conn'[r] = conn[r]
    BY <1>1, <1>2, <1>3, <1>4 DEF Tables, Typed
  <2>2. Proper(s, n)
    BY <1>1, <1>2, <1>3, <1>6, <1>8, DisjointNames DEF Proper
  <2>3. Local(s, n) => conn'[s][users[s][n].con].class # "user"
    BY <1>6, <1>7, <1>9 DEF Local
  <2>4. ASSUME NEW d \in Conn PROVE Alike(s, d) \/ (Opens(s, {n}, d) /\ Closes(s, {n}, d))
    <3>1. CASE d = c
      BY <1>2, <1>3, <1>6, <1>7, <1>8, <3>1 DEF Opens, Closes
    <3>2. CASE d # c /\ d = old.con
      <4>1. Opens(s, {n}, d)
        BY <1>6, <1>7, <3>2 DEF Opens
      <4>2. conn[s][d].nick = n
        BY <3>2 DEF Tables, EntriesHaveConnections
      <4> QED BY <4>1, <4>2 DEF Closes
    <3>3. CASE d # c /\ d # old.con
      BY <1>6, <3>3 DEF Alike
    <3> QED BY <3>1, <3>2, <3>3
  <2> QED BY <1>8, <2>1, <2>2, <2>3, <2>4 DEF Turns
<1>11. KeepsLinks(s, {n})
  BY <1>1, LinksStay
<1> QED BY <1>5, <1>10, <1>11, TablesTurn DEF Orderly

\* An entry goes, and its connection with it or there is none.
LEMMA ForgetTurns ==
  ASSUME Tables, NEW s \in Server, NEW S \in SUBSET Nick,
         users' = [users EXCEPT ![s] = [n \in Nick |-> IF n \in S THEN Absent ELSE users[s][n]]],
         \A n \in S : ~Local(s, n), UNCHANGED conn
  PROVE  Turns(s, S)
<1>1. Absent \in Entry /\ Absent.con = None
  BY DEF Absent, Entry
<1>2. \A n \in Nick : users'[s][n] = IF n \in S THEN Absent ELSE users[s][n]
  BY DEF Tables, Typed
<1>3. users' \in [Server -> [Nick -> Entry]] /\ \A r \in Server \ {s} : users'[r] = users[r]
  BY <1>1 DEF Tables, Typed
<1>4. \A n \in S : Proper(s, n)
  BY <1>1, <1>2, DisjointNames DEF Proper
<1>5. \A c \in Conn : Alike(s, c)
  BY DEF Alike
<1> QED BY <1>2, <1>3, <1>4, <1>5 DEF Turns, Tables, Typed

\* A connection is marked.
LEMMA MarkTurns ==
  ASSUME Tables, NEW s \in Server, NEW c \in Conn, NEW k \in Connection,
         conn' = [conn EXCEPT ![s][c] = k],
         k.class = conn[s][c].class, k.nick = conn[s][c].nick, UNCHANGED users
  PROVE  Turns(s, {})
<1>1. \A d \in Conn : Alike(s, d)
  BY DEF Alike, Tables, Typed
<1>2. conn' \in [Server -> [Conn -> Connection]] /\ \A r \in Server \ {s} : conn'[r] = conn[r]
  BY DEF Tables, Typed
<1> QED BY <1>1, <1>2 DEF Turns, Tables, Typed

\* One message passed on that fits every link, and the same after a KILL.
LEMMA OnePosts ==
  ASSUME NEW ch, Posts(ch), NEW s \in Server, NEW except, NEW m \in Mail,
         \A u \in Servers(s) \ {except} : m \in Post(s, u)
  PROVE  /\ Posts(PassOn(ch, s, except, <<m>>))
         /\ \A n \in Nick : Posts(PassOn(ch, s, except, <<KillMsg(s, n)>> \o <<m>>))
<1>1. ASSUME NEW u \in Servers(s) \ {except} PROVE <<m>> \in Seq(Post(s, u))
  BY <1>1 DEF Servers
<1>2. <<m>> \in Seq(Mail)
  OBVIOUS
<1>3. ASSUME NEW n \in Nick PROVE <<KillMsg(s, n)>> \o <<m>> \in Seq(Mail)
  <2>1. KillMsg(s, n) \in Mail
    BY DEF KillMsg, Mail, Message
  <2>2. <<KillMsg(s, n)>> \in Seq(Mail)
    BY <2>1
  <2> QED BY <1>2, <2>2, ConcatProperties
<1>4. ASSUME NEW n \in Nick, NEW u \in Servers(s) \ {except}
      PROVE  <<KillMsg(s, n)>> \o <<m>> \in Seq(Post(s, u))
  <2>1. u \in Server /\ KillMsg(s, n) \in Post(s, u)
    BY MailMade DEF Servers
  <2>2. <<KillMsg(s, n)>> \in Seq(Post(s, u))
    BY <2>1, PostSeqs
  <2> QED BY <1>1, <2>1, <2>2, PostSeqs
<1>5. Posts(PassOn(ch, s, except, <<m>>))
  BY <1>1, <1>2, PassPosts
<1>6. ASSUME NEW n \in Nick PROVE Posts(PassOn(ch, s, except, <<KillMsg(s, n)>> \o <<m>>))
  <2>1. <<KillMsg(s, n)>> \o <<m>> \in Seq(Mail)
    BY <1>3
  <2>2. \A u \in Servers(s) \ {except} : <<KillMsg(s, n)>> \o <<m>> \in Seq(Post(s, u))
    BY <1>4
  <2> QED BY <2>1, <2>2, PassPosts
<1> QED BY <1>5, <1>6

\* login() of a peer, which may end in a collision.
LEMMA RecvLoginOrderly ==
  ASSUME OneHome, Tables, Posts(chan), NEW s \in Server, NEW t \in Server, RecvLogin(s, t)
  PROVE  Orderly
<1> DEFINE m     == Head(chan[t][s])
           n     == m.nick
           old   == users[s][n]
           new   == [con |-> t, ts |-> m.ts, home |-> m.home, ip |-> m.ip]
           clash == IF Known(s, n) THEN <<KillMsg(s, n)>> ELSE <<>>
<1>0. chan[t][s] # <<>> /\ m.type = "LOGIN" /\ end[s][t] = "up" /\ UNCHANGED <<end, now>>
  BY DEF RecvLogin, Deliver
<1>1. Posts(Received(t, s)) /\ m \in Post(t, s) /\ m \in Mail
  BY <1>0, ReceivedPosts
<1>2. n \in Nick /\ m.ts \in Nat /\ m.home \in Server /\ m.ip \in Addr
  BY <1>0, <1>1, MailFields
<1>3. n \in Carried(t, s)
  BY <1>0, <1>1 DEF Post
<1>4. now' \in Nat /\ t \in Servers(s)
  BY <1>0 DEF Tables, Typed, Servers
<1>5. CASE UNCHANGED <<users, conn>> /\ chan' = Received(t, s)
  BY <1>0, <1>1, <1>4, <1>5, LinksStay, TablesStay DEF Orderly
<1>6. CASE /\ users' = [users EXCEPT ![s][n] = new]
           /\ conn' = [conn EXCEPT ![s] = Zap(s, old)]
           /\ chan' = PassOn(Received(t, s), s, t, clash \o <<LoginMsg(n, new)>>)
  <2>1. new \in Entry /\ new.con = t /\ new.ts \in Nat /\ new.home \in Server /\ new.ip \in Addr
    BY <1>2 DEF Entry
  <2>2. Zap(s, old) \in [Conn -> Connection]
    BY DEF Zap, Zapped, Connection, Tables, Typed
  <2>3. Posts(chan')
    <3>1. \A u \in Servers(s) \ {t} : n \in Carried(s, u)
      BY <1>2, <1>3, NewsGoesOn
    <3>2. \A u \in Servers(s) \ {t} : LoginMsg(n, new) \in Post(s, u)
      BY <2>1, <3>1, MailMade DEF Servers
    <3>3. LoginMsg(n, new) \in Mail
      BY <1>2, <2>1 DEF LoginMsg, Mail, Message
    <3> HIDE DEF new, m
    <3>4. <<>> \o <<LoginMsg(n, new)>> = <<LoginMsg(n, new)>>
      OBVIOUS
    <3>5. CASE Known(s, n)
      <4>1. chan' = PassOn(Received(t, s), s, t, <<KillMsg(s, n)>> \o <<LoginMsg(n, new)>>)
        BY <1>6, <3>5
      <4> QED BY <1>1, <1>2, <3>2, <3>3, <4>1, OnePosts
    <3>6. CASE ~Known(s, n)
      <4>1. chan' = PassOn(Received(t, s), s, t, <<LoginMsg(n, new)>>)
        BY <1>6, <3>4, <3>6
      <4> QED BY <1>1, <1>2, <3>2, <3>3, <4>1, OnePosts
    <3> QED BY <3>5, <3>6
  <2> HIDE DEF new, m
  <2>4. \A d \in Conn : conn'[s][d] = IF d = old.con THEN Zapped ELSE conn[s][d]
    BY <1>6, <2>2 DEF Zap, Tables, Typed
  <2>5. \A k \in Nick : users'[s][k] = IF k = n THEN new ELSE users[s][k]
    BY <1>2, <1>6 DEF Tables, Typed
  <2>6. Zapped.class = "unknown"
    BY DEF Zapped
  <2>7. Turns(s, {n})
    <3>1. /\ users' \in [Server -> [Nick -> Entry]] /\ conn' \in [Server -> [Conn -> Connection]]
          /\ \A r \in Server \ {s} : users'[r] = users[r] /\ conn'[r] = conn[r]
      BY <1>6, <2>1, <2>2 DEF Tables, Typed
    <3>2. Proper(s, n)
      <4>1. users'[s][n] = new /\ t \in Servers(s)' /\ t \notin Conn
        BY <1>0, <1>2, <1>4, <2>5, DisjointNames DEF Servers
      <4> QED BY <1>3, <2>1, <4>1 DEF Proper
    <3>3. Local(s, n) => conn'[s][users[s][n].con].class # "user"
      BY <2>4, <2>6 DEF Local
    <3>4. ASSUME NEW d \in Conn PROVE Alike(s, d) \/ (Opens(s, {n}, d) /\ Closes(s, {n}, d))
      <4>1. CASE d = old.con
        <5>1. Opens(s, {n}, d)
          BY <2>4, <2>6, <4>1 DEF Opens
        <5>2. conn[s][d].nick = n
          BY <1>2, <4>1 DEF Tables, EntriesHaveConnections
        <5> QED BY <5>1, <5>2, SMTT(30) DEF Closes
      <4>2. CASE d # old.con
        BY <2>4, <4>2 DEF Alike
      <4> QED BY <4>1, <4>2
    <3> QED BY <2>5, <3>1, <3>2, <3>3, <3>4 DEF Turns
  <2>8. KeepsLinks(s, {n})
    BY <1>0, <1>4, LinksStay
  <2>9. {n} \in SUBSET Nick
    BY <1>2
  <2> QED BY <2>3, <2>7, <2>8, <2>9, TablesTurn DEF Orderly
<1> QED BY <1>5, <1>6 DEF RecvLogin

\* client_quit() of a peer.
LEMMA RecvQuitOrderly ==
  ASSUME Tables, Posts(chan), NEW s \in Server, NEW t \in Server, RecvQuit(s, t)
  PROVE  Orderly
<1> DEFINE m == Head(chan[t][s])
           n == m.nick
<1>0. chan[t][s] # <<>> /\ m.type = "QUIT" /\ UNCHANGED <<conn, end, now>>
  BY DEF RecvQuit, Deliver
<1>1. Posts(Received(t, s)) /\ m \in Mail
  BY <1>0, ReceivedPosts
<1>2. n \in Nick
  BY <1>0, <1>1, MailFields
<1>3. now' \in Nat
  BY <1>0 DEF Tables, Typed
<1>4. CASE chan' = Received(t, s) /\ UNCHANGED users
  BY <1>0, <1>1, <1>3, <1>4, LinksStay, TablesStay DEF Orderly
<1>5. CASE /\ ~Local(s, n)
           /\ users' = [users EXCEPT ![s][n] = Absent]
           /\ chan' = PassOn(Received(t, s), s, t, <<QuitMsg(n)>>)
  <2> HIDE DEF m
  <2>1. Posts(chan')
    <3>1. QuitMsg(n) \in Mail
      BY <1>2 DEF QuitMsg, Mail, Message
    <3>2. \A u \in Servers(s) \ {t} : QuitMsg(n) \in Post(s, u)
      BY <1>2, MailMade DEF Servers
    <3> QED BY <1>1, <1>5, <3>1, <3>2, OnePosts
  <2>2. users' = [users EXCEPT ![s] = [k \in Nick |->
                    IF k \in {n} THEN Absent ELSE users[s][k]]]
    BY <1>5, <1>2 DEF Tables, Typed
  <2>3. {n} \in SUBSET Nick /\ \A k \in {n} : ~Local(s, k)
    BY <1>2, <1>5
  <2>4. Turns(s, {n})
    BY <1>0, <2>2, <2>3, ForgetTurns
  <2> QED BY <1>0, <1>3, <2>1, <2>3, <2>4, LinksStay, TablesTurn DEF Orderly
<1> QED BY <1>4, <1>5 DEF RecvQuit

\* kill_user() of a peer.
LEMMA RecvKillOrderly ==
  ASSUME Tables, Posts(chan), NEW s \in Server, NEW t \in Server, RecvKill(s, t)
  PROVE  Orderly
<1> DEFINE m == Head(chan[t][s])
           n == m.nick
<1>0. chan[t][s] # <<>> /\ m.type = "KILL" /\ UNCHANGED <<end, now>>
  BY DEF RecvKill, Deliver
<1>1. Posts(Received(t, s)) /\ m \in Mail
  BY <1>0, ReceivedPosts
<1>2. n \in Nick /\ m.by \in Nick \cup Server
  BY <1>0, <1>1, MailFields
<1>3. now' \in Nat
  BY <1>0 DEF Tables, Typed
<1>4. CASE chan' = Received(t, s) /\ UNCHANGED <<users, conn>>
  BY <1>0, <1>1, <1>3, <1>4, LinksStay, TablesStay DEF Orderly
<1>5. CASE KillEntry(s, n) /\ chan' = PassOn(Received(t, s), s, t, <<m>>)
  <2>1. Posts(chan')
    <3>1. \A u \in Servers(s) \ {t} : m \in Post(s, u)
      BY <1>0, <1>1 DEF Post
    <3> HIDE DEF m
    <3> QED BY <1>1, <1>5, <3>1, OnePosts
  <2> HIDE DEF m
  <2>2. PICK S \in SUBSET Nick : Turns(s, S)
    <3>1. CASE ~Local(s, n)
      <4>1. users' = [users EXCEPT ![s][n] = Absent] /\ UNCHANGED conn
        BY <1>5, <3>1 DEF KillEntry
      <4>2. users' = [users EXCEPT ![s] = [k \in Nick |->
                    IF k \in {n} THEN Absent ELSE users[s][k]]]
        BY <4>1, <1>2 DEF Tables, Typed
      <4>3. {n} \in SUBSET Nick /\ \A k \in {n} : ~Local(s, k)
        BY <1>2, <3>1
      <4>4. Turns(s, {n})
        BY <4>1, <4>2, <4>3, ForgetTurns
      <4> QED BY <4>3, <4>4
    <3>2. CASE Local(s, n)
      <4> DEFINE c == users[s][n].con
                 k == [conn[s][c] EXCEPT !.destroy = TRUE, !.killed = TRUE]
      <4>1. conn' = [conn EXCEPT ![s][c] = k] /\ UNCHANGED users /\ c \in Conn
        BY <1>5, <3>2 DEF KillEntry, Local
      <4>2. conn[s][c] \in Connection
        BY <4>1 DEF Tables, Typed
      <4>3. k \in Connection /\ k.class = conn[s][c].class /\ k.nick = conn[s][c].nick
        BY <4>2 DEF Connection
      <4> HIDE DEF k, c
      <4>4. Turns(s, {})
        BY <4>1, <4>3, MarkTurns
      <4>5. {} \in SUBSET Nick
        OBVIOUS
      <4> QED BY <4>4, <4>5
    <3> QED BY <3>1, <3>2
  <2> QED BY <1>0, <1>3, <2>1, <2>2, LinksStay, TablesTurn DEF Orderly
<1> QED BY <1>4, <1>5 DEF RecvKill

\* One queue is replaced.
LEMMA PutPosts ==
  ASSUME NEW ch, Posts(ch), NEW s \in Server, NEW t \in Server, NEW q \in Seq(Post(s, t))
  PROVE  Posts([ch EXCEPT ![s][t] = q])
<1>1. q \in Seq(Mail)
  BY PostSeqs
<1>2. [ch EXCEPT ![s][t] = q] \in [Server -> [Server -> Seq(Mail)]]
  BY <1>1 DEF Posts
<1>3. ASSUME NEW a \in Server, NEW b \in Server PROVE [ch EXCEPT ![s][t] = q][a][b] \in Seq(Post(a, b))
  <2>1. [ch EXCEPT ![s][t] = q][a][b] = IF a = s /\ b = t THEN q ELSE ch[a][b]
    BY DEF Posts
  <2> QED BY <2>1 DEF Posts
<1> QED BY <1>2, <1>3 DEF Posts

\* A client hangs up.
LEMMA DisconnectOrderly ==
  ASSUME Tables, Posts(chan), NEW s \in Server, NEW c \in Conn, Disconnect(s, c)
  PROVE  Orderly
<1> DEFINE k == [conn[s][c] EXCEPT !.destroy = TRUE]
<1>1. conn' = [conn EXCEPT ![s][c] = k] /\ UNCHANGED <<users, end, chan, now>>
  BY DEF Disconnect
<1>2. conn[s][c] \in Connection /\ now' \in Nat
  BY <1>1 DEF Tables, Typed
<1>3. k \in Connection /\ k.class = conn[s][c].class /\ k.nick = conn[s][c].nick
  BY <1>2 DEF Connection
<1> HIDE DEF k
<1>4. {} \in SUBSET Nick /\ Turns(s, {})
  BY <1>1, <1>3, MarkTurns
<1> QED BY <1>1, <1>2, <1>4, LinksStay, TablesTurn DEF Orderly

\* remove_connection() of a client.
LEMMA ReapUserOrderly ==
  ASSUME Tables, Posts(chan), NEW s \in Server, NEW c \in Conn, ReapUser(s, c)
  PROVE  Orderly
<1> DEFINE k == conn[s][c]
<1>1. conn' = [conn EXCEPT ![s][c] = Free] /\ UNCHANGED <<end, now>>
  BY DEF ReapUser
<1>2. Posts(chan')
  <2>1. CASE SaysQuit(k)
    <3>1. k.nick \in Nick
      BY <2>1 DEF SaysQuit, Tables, ConnectionsOwnEntries
    <3>2. QuitMsg(k.nick) \in Mail /\ \A u \in Servers(s) : QuitMsg(k.nick) \in Post(s, u)
      BY <3>1, MailMade DEF QuitMsg, Mail, Message, Servers
    <3>3. chan' = PassOn(chan, s, None, <<QuitMsg(k.nick)>>)
      BY <2>1 DEF ReapUser
    <3> QED BY <3>2, <3>3, OnePosts
  <2>2. CASE ~SaysQuit(k)
    BY <2>2 DEF ReapUser
  <2> QED BY <2>1, <2>2
<1>3. \A r \in Server, d \in Conn : conn'[r][d] = IF r = s /\ d = c THEN Free ELSE conn[r][d]
  BY <1>1 DEF Tables, Typed
<1>4. Free \in Connection /\ Free.class = "free" /\ Absent \in Entry /\ Absent.con = None
  BY DEF Free, Connection, Absent, Entry
<1>5. now' \in Nat
  BY <1>1 DEF Tables, Typed
<1>6. conn' \in [Server -> [Conn -> Connection]] /\ \A r \in Server \ {s} : conn'[r] = conn[r]
  BY <1>1, <1>4 DEF Tables, Typed
<1>7. CASE k.class = "user"
  <2>1. k.nick \in Nick /\ users[s][k.nick].con = c
    BY <1>7 DEF Tables, ConnectionsOwnEntries
  <2>2. users' = [users EXCEPT ![s][k.nick] = Absent]
    BY <1>7 DEF ReapUser
  <2>3. \A n \in Nick : users'[s][n] = IF n = k.nick THEN Absent ELSE users[s][n]
    BY <2>1, <2>2 DEF Tables, Typed
  <2>4. users' \in [Server -> [Nick -> Entry]] /\ \A r \in Server \ {s} : users'[r] = users[r]
    BY <1>4, <2>2, Zenon DEF Tables, Typed
  <2>5. Turns(s, {k.nick})
    <3>1. Proper(s, k.nick)
      BY <1>4, <2>1, <2>3, DisjointNames DEF Proper
    <3>2. conn'[s][users[s][k.nick].con].class # "user"
      BY <1>3, <1>4, <2>1
    <3>3. ASSUME NEW d \in Conn PROVE Alike(s, d) \/ (Opens(s, {k.nick}, d) /\ Closes(s, {k.nick}, d))
      BY <1>3, <1>4 DEF Alike, Opens, Closes
    <3> QED BY <1>6, <2>3, <2>4, <3>1, <3>2, <3>3, ZenonT(60) DEF Turns
  <2>6. {k.nick} \in SUBSET Nick
    BY <2>1
  <2> QED BY <1>1, <1>2, <1>5, <2>5, <2>6, LinksStay, TablesTurn DEF Orderly
<1>8. CASE k.class # "user"
  <2>1. UNCHANGED users
    BY <1>8 DEF ReapUser
  <2>2. ASSUME NEW d \in Conn PROVE Alike(s, d) \/ (Opens(s, {}, d) /\ Closes(s, {}, d))
    BY <1>3, <1>4, <1>8 DEF Alike, Opens, Closes
  <2>3. Turns(s, {})
    BY <1>6, <2>1, <2>2 DEF Turns, Tables, Typed
  <2>4. {} \in SUBSET Nick
    OBVIOUS
  <2> QED BY <1>1, <1>2, <1>5, <2>3, <2>4, LinksStay, TablesTurn DEF Orderly
<1> QED BY <1>7, <1>8

\* remove_connection() of a peer, with everybody behind it.
LEMMA ReapLinkOrderly ==
  ASSUME Tables, Posts(chan), NEW s \in Server, NEW t \in Server, ReapLink(s, t)
  PROVE  Orderly
<1> DEFINE gone == Behind(s, t)
<1>1. /\ end' = [end EXCEPT ![s][t] = "down"]
      /\ users' = [users EXCEPT ![s] = [n \in Nick |->
                     IF n \in gone THEN Absent ELSE users[s][n]]]
      /\ UNCHANGED <<conn, now>>
  BY DEF ReapLink
<1>2. gone \in SUBSET Nick /\ \A n \in gone : ~Local(s, n)
  BY DisjointNames DEF Behind, Local
<1>3. Posts(chan')
  <2> DEFINE eof     == IF end[t][s] = "down" THEN <<>> ELSE <<Eof>>
             quits(q) == [i \in DOMAIN q |-> QuitMsg(q[i])]
             ch(q)   == PassOn(chan, s, t, quits(q))
             out(q)  == [ch(q) EXCEPT ![t][s] = <<>>]
  <2>1. PICK q \in Orders(gone) : chan' = [out(q) EXCEPT ![s][t] = @ \o eof]
    BY DEF ReapLink
  <2>2. DOMAIN q = 1 .. Cardinality(gone) /\ Cardinality(gone) \in Nat /\ \A i \in DOMAIN q : q[i] \in Nick
    BY <1>2, OrdersType
  <2>3. ASSUME NEW u \in Server PROVE quits(q) \in Seq(Post(s, u))
    <3>1. \A i \in DOMAIN q : QuitMsg(q[i]) \in Post(s, u)
      BY <2>2, MailMade
    <3> QED BY <2>2, <3>1
  <2>4. quits(q) \in Seq(Mail) /\ \A u \in Servers(s) \ {t} : quits(q) \in Seq(Post(s, u))
    <3>1. quits(q) \in Seq(Post(s, s))
      BY <2>3
    <3> HIDE DEF quits
    <3> QED BY <2>3, <3>1, PostSeqs DEF Servers
  <2> HIDE DEF quits
  <2>5. Posts(ch(q))
    BY <2>4, PassPosts
  <2>6. eof \in Seq(Post(s, t)) /\ <<>> \in Seq(Post(t, s))
    BY MailMade, PostSeqs
  <2> HIDE DEF ch, eof
  <2>7. Posts(out(q))
    BY <2>5, <2>6, PutPosts
  <2> HIDE DEF out
  <2> DEFINE o == out(q)
             w == o[s][t] \o eof
  <2>8. w \in Seq(Post(s, t))
    BY <2>6, <2>7, PostSeqs DEF Posts
  <2>9. chan' = [o EXCEPT ![s][t] = w]
    BY <2>1
  <2> HIDE DEF o, w
  <2> QED BY <2>7, <2>8, <2>9, PutPosts DEF o
<1>4. Turns(s, gone)
  BY <1>1, <1>2, ForgetTurns
<1>5. KeepsLinks(s, gone)
  <2>1. \A r, u \in Server : end'[r][u] = IF r = s /\ u = t THEN "down" ELSE end[r][u]
    BY <1>1 DEF Tables, Typed
  <2>2. end' \in [Server -> [Server -> {"down", "pending", "up", "dying"}]] /\ now' \in Nat
    BY <1>1 DEF Tables, Typed
  <2>3. \A n \in Nick \ gone : users[s][n].con # t
    BY DEF Behind
  <2> QED BY <2>1, <2>2, <2>3 DEF KeepsLinks, Tables, Servers
<1> QED BY <1>2, <1>3, <1>4, <1>5, TablesTurn DEF Orderly

\* sync_user() sends what the peer may hear of each entry.
LEMMA SyncPosts ==
  ASSUME OneHome, Tables, ext \in [Server -> [Nick -> Counters]],
         NEW s \in Server, NEW t \in Edge[s], t \in Server, t \notin Servers(s),
         NEW q \in Orders(KnownAt(s))
  PROVE  SyncUsers(s, q) \in Seq(Post(s, t))
<1>1. KnownAt(s) \in SUBSET Nick
  BY DEF KnownAt
<1>2. /\ DOMAIN q = 1 .. Cardinality(KnownAt(s)) /\ Cardinality(KnownAt(s)) \in Nat
      /\ \A i \in DOMAIN q : q[i] \in Nick /\ Known(s, q[i])
  BY <1>1, OrdersType DEF KnownAt
<1>3. ASSUME NEW n \in Nick, Known(s, n) PROVE SyncUser(s, n) \in Seq(Post(s, t))
  <2>1. n \in Carried(s, t)
    BY <1>3, NewsGoesOn
  <2>2. users[s][n].ts \in Nat /\ users[s][n].home \in Server /\ users[s][n].ip \in Addr
    BY <1>3 DEF Tables, EntriesHaveHomes, Typed, Entry
  <2>3. ext[s][n].shared \in Nat
    BY DEF Counters
  <2> DEFINE k == ext[s][n].shared
             e == users[s][n]
  <2>4. LoginMsg(n, e) \in Post(s, t) /\ SharingMsg(n, k) \in Post(s, t)
    BY <2>1, <2>2, <2>3, MailMade
  <2>5. SyncUser(s, n) = <<LoginMsg(n, e)>> \o (IF k # 0 THEN <<SharingMsg(n, k)>> ELSE <<>>)
    BY DEF SyncUser
  <2> HIDE DEF k, e
  <2>6. /\ <<LoginMsg(n, e)>> \in Seq(Post(s, t))
        /\ (IF k # 0 THEN <<SharingMsg(n, k)>> ELSE <<>>) \in Seq(Post(s, t))
    BY <2>4, PostSeqs
  <2> QED BY <2>5, <2>6, PostSeqs
<1> DEFINE ss == [i \in DOMAIN q |-> SyncUser(s, q[i])]
<1>4. ss \in Seq(Seq(Post(s, t)))
  <2>1. \A i \in DOMAIN q : SyncUser(s, q[i]) \in Seq(Post(s, t))
    BY <1>2, <1>3
  <2> QED BY <1>2, <2>1
<1>5. SyncUsers(s, q) = FlattenSeq(ss)
  BY DEF SyncUsers
<1> HIDE DEF ss
<1> QED BY <1>4, <1>5, Flattening

\* A link comes up at one end and synch_server() sends the table over it.
LEMMA JoinOrderly ==
  ASSUME OneHome, Tables, Posts(chan), ext \in [Server -> [Nick -> Counters]],
         NEW s \in Server, NEW t \in Server, JoinLink(s, t)
  PROVE  Orderly
<1>1. PICK q \in Orders(KnownAt(s)) : Open(s, t, SyncUsers(s, q)) \/ Acknowledge(s, t, SyncUsers(s, q))
  BY DEF JoinLink
<1> DEFINE sync == SyncUsers(s, q)
<1>2. t \in Edge[s] /\ t \notin Servers(s)
  BY <1>1 DEF Open, Acknowledge, Tables, Servers
<1>3. sync \in Seq(Post(s, t))
  BY <1>2, SyncPosts
<1> HIDE DEF sync
<1>4. s \in Edge[t]
  BY <1>2, NoCycles
<1>5. CASE Open(s, t, sync)
  <2>1. <<Ack>> \o sync \in Seq(Post(s, t))
    BY <1>3, MailMade, PostSeqs
  <2> DEFINE w == <<Ack>> \o sync
  <2>2. /\ chan' = [chan EXCEPT ![s][t] = w] /\ UNCHANGED <<users, conn, now>>
        /\ end' = [end EXCEPT ![s][t] = "up", ![t][s] = "pending"]
        /\ end[s][t] = "down" /\ end[t][s] = "down"
    BY <1>5 DEF Open
  <2> HIDE DEF w
  <2>3. Posts(chan')
    BY <2>1, <2>2, PutPosts DEF w
  <2>4. KeepsLinks(s, {})
    <3>1. end' \in [Server -> [Server -> {"down", "pending", "up", "dying"}]] /\ now' \in Nat
      BY <2>2 DEF Tables, Typed
    <3>2. \A r, u \in Server : end[r][u] # "down" => end'[r][u] = end[r][u]
      BY <2>2 DEF Tables, Typed
    <3>3. \A r, u \in Server : end'[r][u] # end[r][u] => (r = s /\ u = t) \/ (r = t /\ u = s)
      BY <2>2 DEF Tables, Typed
    <3>4. \A r, u \in Server : end'[r][u] # "down" => u \in Edge[r]
      BY <1>2, <1>4, <3>3 DEF Tables
    <3>5. \A r, u \in Server : u \in Servers(r) => u \in Servers(r)'
      BY <3>2 DEF Servers
    <3>6. \A r \in Server : Servers(r) \subseteq Server
      BY DEF Servers
    <3> QED BY <3>1, <3>4, <3>5, <3>6 DEF KeepsLinks
  <2> QED BY <2>2, <2>3, <2>4, TablesStay DEF Orderly
<1>6. CASE Acknowledge(s, t, sync)
  <2>1. chan[t][s] # <<>> /\ end' = [end EXCEPT ![s][t] = "up"] /\ UNCHANGED <<users, conn, now>>
    BY <1>6 DEF Acknowledge
  <2>2. Posts(Received(t, s))
    BY <2>1, ReceivedPosts
  <2> DEFINE o == Received(t, s)
             w == o[s][t] \o sync
  <2>3. w \in Seq(Post(s, t))
    BY <1>3, <2>2, PostSeqs DEF Posts
  <2>4. chan' = [o EXCEPT ![s][t] = w] \/ chan' = o
    BY <1>6 DEF Acknowledge
  <2> HIDE DEF o, w
  <2>5. Posts(chan')
    BY <2>2, <2>3, <2>4, PutPosts DEF o
  <2>6. KeepsLinks(s, {})
    <3>1. end' \in [Server -> [Server -> {"down", "pending", "up", "dying"}]] /\ now' \in Nat
      BY <2>1 DEF Tables, Typed
    <3>2. \A r, u \in Server : end'[r][u] = IF r = s /\ u = t THEN "up" ELSE end[r][u]
      BY <2>1 DEF Tables, Typed
    <3> QED BY <1>2, <3>1, <3>2 DEF KeepsLinks, Tables, Servers
  <2> QED BY <2>1, <2>5, <2>6, TablesStay DEF Orderly
<1> QED BY <1>1, <1>5, <1>6 DEF sync

\* A link is marked.
LEMMA FailOrderly ==
  ASSUME Tables, Posts(chan), NEW s \in Server, NEW t \in Server, LinkFails(s, t) \/ RecvEof(s, t)
  PROVE  Orderly
<1>1. end' = [end EXCEPT ![s][t] = "dying"] /\ end[s][t] = "up" /\ UNCHANGED <<users, conn, now>>
  BY DEF LinkFails, RecvEof, Deliver
<1>2. Posts(chan')
  <2>1. CASE LinkFails(s, t)
    BY <2>1 DEF LinkFails
  <2>2. CASE RecvEof(s, t)
    BY <2>2, ReceivedPosts DEF RecvEof, Deliver
  <2> QED BY <2>1, <2>2
<1>3. KeepsLinks(s, {})
  <2>1. end' \in [Server -> [Server -> {"down", "pending", "up", "dying"}]] /\ now' \in Nat
    BY <1>1 DEF Tables, Typed
  <2>2. \A r, u \in Server : end'[r][u] = IF r = s /\ u = t THEN "dying" ELSE end[r][u]
    BY <1>1 DEF Tables, Typed
  <2>3. t \in Edge[s]
    BY <1>1 DEF Tables
  <2> QED BY <1>1, <2>1, <2>2, <2>3 DEF KeepsLinks, Tables, Servers
<1> QED BY <1>1, <1>2, <1>3, TablesStay DEF Orderly

\* All steps of UserNet.
LEMMA UserStepOrderly ==
  ASSUME OneHome, Tables, Posts(chan), ext \in [Server -> [Nick -> Counters]], UserStep
  PROVE  Orderly
<1>1. ASSUME NEW s \in Server, UNCHANGED <<users, conn, end, chan>>, now' \in Nat PROVE Orderly
  BY <1>1, LinksStay, TablesStay DEF Orderly
<1>2. CASE Tick
  <2>1. now' \in Nat /\ UNCHANGED <<users, conn, end, chan>>
    BY <1>2 DEF Tick, Tables, Typed
  <2>2. CASE Server = {}
    BY <2>1, <2>2 DEF Orderly, Tables, Typed, Posts, EntriesHaveHomes, ConnectionsOwnEntries,
                      EntriesHaveConnections
  <2> QED BY <1>1, <2>1, <2>2
<1>3. ASSUME NEW s \in Server, EndRead(s) PROVE Orderly
  BY <1>1, <1>3 DEF EndRead, Tables, Typed
<1>4. ASSUME NEW s \in Server, NEW c \in Conn, NEW n \in Nick, NEW ip \in Addr, Login(s, c, n, ip)
      PROVE  Orderly
  BY <1>4, LoginOrderly
<1>5. ASSUME NEW s \in Server, NEW c \in Conn, Disconnect(s, c) PROVE Orderly
  BY <1>5, DisconnectOrderly
<1>6. ASSUME NEW s \in Server, Reap(s) PROVE Orderly
  BY <1>6, ReapUserOrderly, ReapLinkOrderly DEF Reap
<1>7. ASSUME NEW s \in Server, NEW t \in Server, LinkFails(s, t) \/ RecvEof(s, t) PROVE Orderly
  BY <1>7, FailOrderly
<1>8. ASSUME NEW s \in Server, NEW t \in Server, JoinLink(s, t) PROVE Orderly
  BY <1>8, JoinOrderly
<1>9. ASSUME NEW s \in Server, NEW t \in Server, RecvLogin(s, t) \/ RecvQuit(s, t) \/ RecvKill(s, t)
      PROVE  Orderly
  BY <1>9, RecvLoginOrderly, RecvQuitOrderly, RecvKillOrderly
<1> QED BY <1>2, <1>3, <1>4, <1>5, <1>6, <1>7, <1>8, <1>9 DEF UserStep

-----------------------------------------------------------------------------
(* What is counted                                                          *)

\* The counts of a table, and the files that connections hold.
Shares(e) == [n \in Nick |-> e[n].shared]
Holds(o)  == [c \in Conn |-> Cardinality(o[c].files)]

\* The inductive part of FilesMatch: who is not known counts nothing, and what is not a
\* user's connection holds nothing.
Tallied ==
  /\ ext \in [Server -> [Nick -> Counters]]
  /\ num \in [Server -> Nat] /\ loc \in [Server -> Nat]
  /\ \A s \in Server, c \in Conn :
       /\ IsFiniteSet(opt[s][c].files)
       /\ conn[s][c].class # "user" => opt[s][c].files = {}
  /\ \A s \in Server, n \in Nick : ~Known(s, n) => ext[s][n].shared = 0
  /\ FilesMatch

\* The totals are sums of numbers, over finite sets.
LEMMA Totals ==
  ASSUME NEW e \in [Nick -> Counters], NEW o, \A c \in Conn : IsFiniteSet(o[c].files)
  PROVE  /\ \A n \in Nick : Shares(e)[n] = e[n].shared /\ e[n].shared \in Nat
         /\ \A c \in Conn : Holds(o)[c] = Cardinality(o[c].files) /\ Cardinality(o[c].files) \in Nat
         /\ SumFunctionOnSet(Shares(e), Nick) \in Nat
         /\ SumFunctionOnSet(Holds(o), Conn) \in Nat
         /\ \A c \in Conn : Cardinality(o[c].files) <= SumFunctionOnSet(Holds(o), Conn)
<1>1. \A n \in Nick : Shares(e)[n] = e[n].shared /\ e[n].shared \in Nat
  BY DEF Shares, Counters
<1>2. \A c \in Conn : Holds(o)[c] = Cardinality(o[c].files) /\ Cardinality(o[c].files) \in Nat
  BY FS_CardinalityType DEF Holds
<1>3. SumFunctionOnSet(Shares(e), Nick) \in Nat
  BY <1>1, SumNat, FiniteNicks
<1>4. /\ SumFunctionOnSet(Holds(o), Conn) \in Nat
      /\ \A c \in Conn : Holds(o)[c] <= SumFunctionOnSet(Holds(o), Conn)
  BY <1>2, SumNat, FiniteSlots
<1> QED BY <1>1, <1>2, <1>3, <1>4

\* Nothing is shared at first.
LEMMA InitTallied == ASSUME SessionsInit PROVE Tallied
<1> DEFINE e0 == [n \in Nick |-> NewUser]
           o0 == [c \in Conn |-> NoOpt]
<1>1. NewUser \in Counters /\ NewUser.shared = 0 /\ NoOpt.files = {}
  BY DEF NewUser, Counters, NoOpt
<1>2. IsFiniteSet({}) /\ Cardinality({}) = 0
  BY FS_EmptySet
<1>3. \A s \in Server : ext[s] = e0 /\ opt[s] = o0 /\ num[s] = 0 /\ loc[s] = 0
  BY DEF SessionsInit
<1>4. /\ e0 \in [Nick -> Counters] /\ \A n \in Nick : e0[n].shared = 0
      /\ \A c \in Conn : o0[c].files = {}
  BY <1>1
<1>5. ext \in [Server -> [Nick -> Counters]] /\ num \in [Server -> Nat] /\ loc \in [Server -> Nat]
  BY <1>1 DEF SessionsInit
<1> HIDE DEF e0, o0
<1>6. SumFunctionOnSet(Shares(e0), Nick) = 0
  <2>1. \A n \in Nick : Shares(e0)[n] = 0
    BY <1>4 DEF Shares
  <2> QED BY <2>1, SumZero, FiniteNicks
<1>7. SumFunctionOnSet(Holds(o0), Conn) = 0
  <2>1. \A c \in Conn : Holds(o0)[c] = 0
    BY <1>2, <1>4 DEF Holds
  <2> QED BY <2>1, SumZero, FiniteSlots
<1>8. \A s \in Server : LocalAt(s) = {}
  BY DisjointNames DEF SessionsInit, Init, LocalAt, Local, Absent
<1>9. FilesMatch
  <2> SUFFICES ASSUME NEW s \in Server
               PROVE  num[s] = SumShared(s, Nick) /\ loc[s] = SumHeld(s, Conn)
    BY <1>8 DEF FilesMatch
  <2>1. /\ SumShared(s, Nick) = SumFunctionOnSet(Shares(e0), Nick)
        /\ SumHeld(s, Conn) = SumFunctionOnSet(Holds(o0), Conn)
    BY <1>3 DEF SumShared, SumHeld, Shares, Holds
  <2> QED BY <1>3, <1>6, <1>7, <2>1
<1> QED BY <1>2, <1>3, <1>4, <1>5, <1>9 DEF Tallied

\* Who is unknown before or after a step of UserNet has nothing, and files are held under
\* the entry that counts them: what is released is what was counted.
LEMMA ReleaseTallies ==
  ASSUME Tables, Tables', \A r \in Server : Held(r), Tallied, ListsTyped, Release
  PROVE  Tallied'
<1>1. ASSUME NEW s \in Server, NEW n \in Nick
      PROVE  /\ ext'[s][n] = IF n \in Changed(s) THEN NewUser ELSE ext[s][n]
             /\ ext[s][n] \in Counters
  BY DEF Release, Tallied
<1>2. NewUser \in Counters /\ NewUser.shared = 0
  BY DEF NewUser, Counters
<1>3. ASSUME NEW s \in Server, NEW c \in Conn
      PROVE  opt'[s][c].files = IF c \in Closed(s) THEN {} ELSE opt[s][c].files
  <2>1. opt[s][c] \in UserOpt
    BY DEF ListsTyped
  <2>2. opt'[s][c] = IF c \in Closed(s) THEN NoOpt ELSE [opt[s][c] EXCEPT !.told = Notified(s, c)]
    BY DEF Release
  <2> QED BY <2>1, <2>2 DEF UserOpt, NoOpt
<1>4. ext' \in [Server -> [Nick -> Counters]]
  <2>1. ext' = [s \in Server |-> [n \in Nick |-> ext'[s][n]]]
    BY DEF Release
  <2>2. \A s \in Server, n \in Nick : ext'[s][n] \in Counters
    BY <1>1, <1>2
  <2> QED BY <2>1, <2>2
<1>5. ASSUME NEW s \in Server, NEW n \in Nick, Local(s, n)
      PROVE  LET c == users[s][n].con
             IN  c \in Conn /\ conn[s][c].class = "user" /\ conn[s][c].nick = n
  BY <1>5 DEF Tables, EntriesHaveConnections, Local
<1>6. ASSUME NEW s \in Server, NEW n \in Nick, Local(s, n)'
      PROVE  LET c == users'[s][n].con
             IN  c \in Conn /\ conn'[s][c].class = "user" /\ conn'[s][c].nick = n
  BY <1>6 DEF Tables, EntriesHaveConnections, Local
<1>7. ASSUME NEW s \in Server, NEW c \in Conn, conn[s][c].class = "user"
      PROVE  LET n == conn[s][c].nick
             IN  n \in Nick /\ users[s][n].con = c /\ Local(s, n)
  BY <1>7 DEF Tables, ConnectionsOwnEntries, Local
<1>8. ASSUME NEW s \in Server, NEW n \in Nick PROVE Local(s, n) => Known(s, n)
  BY DisjointNames DEF Local, Known
<1>9. ASSUME NEW s \in Server, NEW c \in Conn
      PROVE  /\ IsFiniteSet(opt'[s][c].files)
             /\ conn'[s][c].class # "user" => opt'[s][c].files = {}
  BY <1>3, FS_EmptySet DEF Tallied, Closed
<1>10. ASSUME NEW s \in Server, NEW n \in Nick, ~Known(s, n)' PROVE ext'[s][n].shared = 0
  <2>1. CASE n \in Changed(s)
    BY <1>1, <1>2, <2>1
  <2>2. CASE n \notin Changed(s)
    <3>1. ~Known(s, n)
      BY <1>10, <2>2 DEF Changed, Known
    <3> QED BY <1>1, <2>2, <3>1 DEF Tallied
  <2> QED BY <2>1, <2>2
<1>11. ASSUME NEW s \in Server, NEW n \in Nick, Local(s, n)'
       PROVE  ext'[s][n].shared = Cardinality(opt'[s][users'[s][n].con].files)
  <2> DEFINE c == users'[s][n].con
  <2>1. c \in Conn /\ conn'[s][c].class = "user" /\ conn'[s][c].nick = n
    BY <1>6, <1>11
  <2>2. c \notin Closed(s)
    BY <2>1 DEF Closed
  <2>3. CASE n \in Changed(s)
    <3>1. conn[s][c].class # "user"
      <4> SUFFICES ASSUME conn[s][c].class = "user" PROVE FALSE
        OBVIOUS
      <4>1. conn[s][c].nick = n
        BY <2>1 DEF Held
      <4>2. Local(s, n) /\ users[s][n].con = c
        BY <1>7, <2>1, <4>1
      <4>3. users'[s][n] # users[s][n]
        BY <2>3 DEF Changed
      <4> HIDE DEF c
      <4> QED BY <2>1, <4>2, <4>3 DEF Held
    <3>2. opt'[s][c].files = {}
      <4>1. opt[s][c].files = {}
        BY <2>1, <3>1 DEF Tallied
      <4> HIDE DEF c
      <4> QED BY <1>3, <2>1, <2>2, <4>1
    <3> HIDE DEF c
    <3> QED BY <1>1, <1>2, <2>3, <3>2, FS_EmptySet DEF c
  <2>4. CASE n \notin Changed(s)
    <3>1. users'[s][n] = users[s][n]
      BY <2>4 DEF Changed
    <3>2. Local(s, n)
      BY <1>11, <3>1 DEF Local
    <3>3. ext[s][n].shared = Cardinality(opt[s][users[s][n].con].files)
      BY <3>2 DEF Tallied, FilesMatch, LocalAt
    <3> QED BY <1>1, <1>3, <2>1, <2>2, <2>4, <3>1, <3>3
  <2> QED BY <2>3, <2>4
<1>12. ASSUME NEW s \in Server
       PROVE  num'[s] = SumShared(s, Nick)' /\ num'[s] \in Nat
  <2> DEFINE f == Shares(ext[s])
             g == Shares(ext'[s])
             A == FreedUsers(s)
  <2>1. A \in SUBSET Nick
    BY DEF FreedUsers, Changed
  <2>2. \A n \in Nick : f[n] = ext[s][n].shared /\ g[n] = ext'[s][n].shared
    BY DEF Shares
  <2>3. \A n \in Nick : ext[s][n].shared \in Nat
    BY <1>1 DEF Counters
  <2>4. ASSUME NEW n \in Nick PROVE g[n] = IF n \in A THEN 0 ELSE f[n]
    <3>1. n \in A <=> n \in Changed(s) /\ Known(s, n)
      BY DEF FreedUsers, Changed
    <3>2. ~Known(s, n) => ext[s][n].shared = 0
      BY DEF Tallied
    <3> QED BY <1>1, <1>2, <2>2, <3>1, <3>2
  <2>5. num[s] = SumFunctionOnSet(f, Nick)
    BY DEF Tallied, FilesMatch, SumShared, Shares
  <2>6. num'[s] = num[s] - SumFunctionOnSet(f, A)
    BY DEF Release, SumShared, Shares
  <2>7. SumShared(s, Nick)' = SumFunctionOnSet(g, Nick)
    BY DEF SumShared, Shares
  <2>8. \A n \in Nick : g[n] \in Nat
    BY <1>4, <2>2 DEF Counters
  <2> HIDE DEF f, g, A
  <2>9. SumFunctionOnSet(g, Nick) = SumFunctionOnSet(f, Nick) - SumFunctionOnSet(f, A)
    <3>1. \A n \in Nick : f[n] \in Int
      BY <2>2, <2>3
    <3> QED BY <2>1, <2>4, <3>1, SumCleared, FiniteNicks
  <2>10. SumFunctionOnSet(g, Nick) \in Nat
    BY <2>8, SumNat, FiniteNicks
  <2> QED BY <2>5, <2>6, <2>7, <2>9, <2>10
<1>13. ASSUME NEW s \in Server
       PROVE  loc'[s] = SumHeld(s, Conn)' /\ loc'[s] \in Nat
  <2> DEFINE f == Shares(ext[s])
             g == Holds(opt[s])
             h == Holds(opt'[s])
             b == [n \in Nick |-> users[s][n].con]
             A == FreedLocally(s)
             B == Closed(s)
  <2>1. A \in SUBSET Nick /\ B \in SUBSET Conn /\ IsFiniteSet(A) /\ IsFiniteSet(B)
    <3>1. A \in SUBSET Nick /\ B \in SUBSET Conn
      BY DEF FreedLocally, FreedUsers, Changed, Closed
    <3> QED BY <3>1, FiniteNicks, FiniteSlots, FS_Subset
  <2>2. ASSUME NEW n \in A
        PROVE  /\ f[n] \in Int /\ b[n] \in B /\ g[b[n]] = f[n]
               /\ conn[s][b[n]].nick = n
    <3>1. n \in Nick /\ n \in Changed(s) /\ Local(s, n)
      BY DEF FreedLocally, FreedUsers, Changed
    <3>2. b[n] \in Conn /\ conn[s][b[n]].class = "user" /\ conn[s][b[n]].nick = n
      BY <1>5, <3>1
    <3>3. conn'[s][b[n]].class # "user"
      BY <3>1 DEF Held, Changed
    <3>4. ext[s][n].shared = Cardinality(opt[s][b[n]].files)
      BY <3>1 DEF Tallied, FilesMatch, LocalAt
    <3>5. f[n] = ext[s][n].shared /\ f[n] \in Int
      BY <1>1, <3>1 DEF Shares, Counters
    <3>6. g[b[n]] = Cardinality(opt[s][b[n]].files)
      BY <3>2 DEF Holds
    <3> HIDE DEF b
    <3> QED BY <3>2, <3>3, <3>4, <3>5, <3>6 DEF Closed
  <2>3. ASSUME NEW c \in B PROVE \E n \in A : b[n] = c
    <3>1. c \in Conn /\ conn[s][c].class = "user" /\ conn'[s][c].class # "user"
      BY DEF Closed
    <3>2. PICK n \in Nick : users[s][n].con = c /\ Local(s, n)
      BY <1>7, <3>1
    <3>3. n \in Changed(s)
      <4>1. users'[s][n] # users[s][n]
        <5> SUFFICES ASSUME users'[s][n] = users[s][n] PROVE FALSE
          OBVIOUS
        <5>1. Local(s, n)'
          BY <3>2 DEF Local
        <5> QED BY <1>6, <3>1, <3>2, <5>1
      <4> QED BY <3>2, <4>1 DEF Changed
    <3>4. n \in A
      BY <1>8, <3>2, <3>3 DEF FreedLocally, FreedUsers
    <3>5. b[n] = c
      BY <3>2
    <3> QED BY <3>4, <3>5
  <2>4. loc[s] = SumFunctionOnSet(g, Conn)
    BY DEF Tallied, FilesMatch, SumHeld, Holds
  <2>5. loc'[s] = loc[s] - SumFunctionOnSet(f, A)
    BY DEF Release, SumShared, Shares
  <2>6. SumHeld(s, Conn)' = SumFunctionOnSet(h, Conn)
    BY DEF SumHeld, Holds
  <2>7. ASSUME NEW c \in Conn PROVE g[c] \in Int /\ h[c] \in Nat /\ h[c] = IF c \in B THEN 0 ELSE g[c]
    <3>1. g[c] = Cardinality(opt[s][c].files) /\ h[c] = Cardinality(opt'[s][c].files)
      BY DEF Holds
    <3>2. Cardinality(opt[s][c].files) \in Nat /\ Cardinality(opt'[s][c].files) \in Nat
      BY <1>9, FS_CardinalityType DEF Tallied
    <3> QED BY <1>3, <3>1, <3>2, FS_EmptySet
  <2> HIDE DEF f, g, h, b, A, B
  <2>8. SumFunctionOnSet(f, A) = SumFunctionOnSet(g, B)
    <3>1. \A n \in A : f[n] \in Int /\ b[n] \in B /\ g[b[n]] = f[n]
      BY <2>2
    <3>2. \A m, n \in A : b[m] = b[n] => m = n
      BY <2>2
    <3> QED BY <2>1, <2>3, <3>1, <3>2, SumPaired
  <2>9. SumFunctionOnSet(h, Conn) = SumFunctionOnSet(g, Conn) - SumFunctionOnSet(g, B)
    BY <2>1, <2>7, SumCleared, FiniteSlots
  <2>10. SumFunctionOnSet(h, Conn) \in Nat
    BY <2>7, SumNat, FiniteSlots
  <2> QED BY <2>4, <2>5, <2>6, <2>8, <2>9, <2>10
<1>14. num' \in [Server -> Nat] /\ loc' \in [Server -> Nat]
  <2>1. num' = [s \in Server |-> num'[s]] /\ loc' = [s \in Server |-> loc'[s]]
    BY DEF Release
  <2> QED BY <1>12, <1>13, <2>1
<1>15. FilesMatch'
  BY <1>11, <1>12, <1>13 DEF FilesMatch, LocalAt
<1> QED BY <1>4, <1>9, <1>10, <1>14, <1>15 DEF Tallied

\* What a change of one entry's count leaves.
Recounted(s, n, u) ==
  /\ ext' \in [Server -> [Nick -> Counters]] /\ num' \in [Server -> Nat]
  /\ \A r \in Server : num'[r] = SumShared(r, Nick)'
  /\ \A r \in Server, m \in Nick : ext'[r][m] = IF r = s /\ m = n THEN u ELSE ext[r][m]

\* An entry's count changes, and the total with it.
LEMMA ShareTurns ==
  ASSUME Tallied, NEW s \in Server, NEW n \in Nick, NEW u \in Counters,
         ext' = [ext EXCEPT ![s][n] = u],
         num' = [num EXCEPT ![s] = num[s] + (u.shared - ext[s][n].shared)]
  PROVE  Recounted(s, n, u)
<1>1. ext \in [Server -> [Nick -> Counters]] /\ num \in [Server -> Nat] /\ FilesMatch
  BY DEF Tallied
<1>2. ext' \in [Server -> [Nick -> Counters]]
  BY <1>1
<1>3. \A r \in Server, m \in Nick : ext'[r][m] = IF r = s /\ m = n THEN u ELSE ext[r][m]
  BY <1>1
<1>4. ASSUME NEW r \in Server
      PROVE  /\ num[r] = SumFunctionOnSet(Shares(ext[r]), Nick)
             /\ SumShared(r, Nick)' = SumFunctionOnSet(Shares(ext'[r]), Nick)
  BY <1>1 DEF FilesMatch, SumShared, Shares
<1>5. ASSUME NEW r \in Server, r # s PROVE num'[r] = SumShared(r, Nick)' /\ num'[r] \in Nat
  <2>1. ext'[r] = ext[r] /\ num'[r] = num[r]
    BY <1>1, <1>5
  <2> QED BY <1>1, <1>4, <2>1
<1>6. num'[s] = SumShared(s, Nick)' /\ num'[s] \in Nat
  <2> DEFINE f == Shares(ext[s])
             g == Shares(ext'[s])
  <2>1. \A m \in Nick : f[m] = ext[s][m].shared /\ g[m] = ext'[s][m].shared
    BY DEF Shares
  <2>2. \A m \in Nick : ext[s][m].shared \in Nat /\ ext'[s][m].shared \in Nat
    BY <1>1, <1>2 DEF Counters
  <2>3. \A m \in Nick \ {n} : ext'[s][m].shared = ext[s][m].shared
    BY <1>3
  <2>4. f[n] = ext[s][n].shared /\ g[n] = u.shared
    BY <1>3, <2>1
  <2> HIDE DEF f, g
  <2>5. SumFunctionOnSet(g, Nick) = SumFunctionOnSet(f, Nick) + (g[n] - f[n])
    <3>1. \A m \in Nick : f[m] \in Int /\ g[m] \in Int
      BY <2>1, <2>2
    <3>2. \A m \in Nick \ {n} : g[m] = f[m]
      BY <2>1, <2>3
    <3> QED BY <3>1, <3>2, SumChange, FiniteNicks
  <2>6. SumFunctionOnSet(g, Nick) \in Nat
    <3>1. \A m \in Nick : g[m] \in Nat
      BY <2>1, <2>2
    <3> QED BY <3>1, SumNat, FiniteNicks
  <2>7. num'[s] = num[s] + (u.shared - ext[s][n].shared)
    BY <1>1
  <2> QED BY <1>4, <2>4, <2>5, <2>6, <2>7 DEF f, g
<1>7. num' \in [Server -> Nat]
  BY <1>1, <1>5, <1>6, SMTT(30)
<1> QED BY <1>2, <1>3, <1>5, <1>6, <1>7 DEF Recounted

\* A client's files and counts change together: the entry, the connection and the totals.
LEMMA HoldTurns ==
  ASSUME Tables, Tallied, NEW s \in Server, NEW c \in Conn, conn[s][c].class = "user",
         UNCHANGED <<users, conn>>,
         NEW u \in Counters, NEW F, IsFiniteSet(F), Cardinality(F) = u.shared,
         ext' = [ext EXCEPT ![s][conn[s][c].nick] = u],
         \A r \in Server, d \in Conn : opt'[r][d].files = IF r = s /\ d = c THEN F ELSE opt[r][d].files,
         num' = [num EXCEPT ![s] = num[s] + (u.shared - ext[s][conn[s][c].nick].shared)],
         loc' = [loc EXCEPT ![s] = loc[s] + (u.shared - ext[s][conn[s][c].nick].shared)]
  PROVE  Tallied'
<1>1. PICK n \in Nick : n = conn[s][c].nick /\ users[s][n].con = c
  BY DEF Tables, ConnectionsOwnEntries
<1>2. Local(s, n) /\ Known(s, n)
  BY <1>1, DisjointNames DEF Local, Known
<1>3. ext' = [ext EXCEPT ![s][n] = u] /\ num' = [num EXCEPT ![s] = num[s] + (u.shared - ext[s][n].shared)]
  BY <1>1
<1>4. /\ ext' \in [Server -> [Nick -> Counters]] /\ num' \in [Server -> Nat]
      /\ \A r \in Server : num'[r] = SumShared(r, Nick)'
      /\ \A r \in Server, m \in Nick : ext'[r][m] = IF r = s /\ m = n THEN u ELSE ext[r][m]
  <2>1. Recounted(s, n, u)
    BY ONLY <1>3, ShareTurns, Tallied, s \in Server, n \in Nick, u \in Counters
  <2> QED BY <2>1 DEF Recounted
<1>5. /\ loc \in [Server -> Nat] /\ FilesMatch
      /\ \A r \in Server, d \in Conn : IsFiniteSet(opt[r][d].files)
      /\ \A r \in Server, d \in Conn : conn[r][d].class # "user" => opt[r][d].files = {}
      /\ \A r \in Server, m \in Nick : ~Known(r, m) => ext[r][m].shared = 0
  BY DEF Tallied
<1>6. ext[s][n].shared = Cardinality(opt[s][c].files)
  BY <1>1, <1>2, <1>5 DEF FilesMatch, LocalAt
<1>7. \A r \in Server, d \in Conn : IsFiniteSet(opt'[r][d].files)
  BY <1>5
<1>8. \A r \in Server, d \in Conn : conn'[r][d].class # "user" => opt'[r][d].files = {}
  BY <1>5
<1>9. \A r \in Server, m \in Nick : ~Known(r, m)' => ext'[r][m].shared = 0
  BY <1>2, <1>4, <1>5 DEF Known
<1>10. ASSUME NEW r \in Server, NEW m \in Nick, Local(r, m)'
       PROVE  ext'[r][m].shared = Cardinality(opt'[r][users'[r][m].con].files)
  <2>1. Local(r, m)
    BY <1>10 DEF Local
  <2>2. users[r][m].con \in Conn /\ conn[r][users[r][m].con].nick = m
    BY <2>1 DEF Local, Tables, EntriesHaveConnections
  <2>3. ext[r][m].shared = Cardinality(opt[r][users[r][m].con].files)
    BY <1>5, <2>1 DEF FilesMatch, LocalAt
  <2>4. (r = s /\ users[r][m].con = c) <=> (r = s /\ m = n)
    BY <1>1, <2>2
  <2> DEFINE d == users[r][m].con
  <2>5. users'[r][m].con = d /\ opt'[r][d].files = (IF r = s /\ d = c THEN F ELSE opt[r][d].files)
    BY <2>2
  <2> HIDE DEF d
  <2> QED BY <1>4, <2>3, <2>4, <2>5 DEF d
<1>11. ASSUME NEW r \in Server
       PROVE  /\ loc[r] = SumFunctionOnSet(Holds(opt[r]), Conn)
              /\ SumHeld(r, Conn)' = SumFunctionOnSet(Holds(opt'[r]), Conn)
  BY <1>5 DEF FilesMatch, SumHeld, Holds
<1>12. ASSUME NEW r \in Server, NEW d \in Conn
       PROVE  /\ Holds(opt[r])[d] = Cardinality(opt[r][d].files)
              /\ Holds(opt'[r])[d] = Cardinality(opt'[r][d].files)
              /\ Holds(opt[r])[d] \in Nat /\ Holds(opt'[r])[d] \in Nat
  <2>1. Holds(opt[r])[d] = Cardinality(opt[r][d].files) /\ Holds(opt'[r])[d] = Cardinality(opt'[r][d].files)
    BY DEF Holds
  <2> QED BY <1>5, <1>7, <2>1, FS_CardinalityType
<1>13. ASSUME NEW r \in Server PROVE loc'[r] = SumHeld(r, Conn)' /\ loc'[r] \in Nat
  <2> DEFINE f == Holds(opt[r])
             g == Holds(opt'[r])
  <2>1. \A d \in Conn : f[d] \in Nat /\ g[d] \in Nat
    BY <1>12
  <2>2. SumFunctionOnSet(g, Conn) \in Nat
    <3> HIDE DEF g
    <3> QED BY <2>1, SumNat, FiniteSlots
  <2>3. \A d \in Conn : r # s \/ d # c => g[d] = f[d]
    BY <1>12
  <2>4. r = s => f[c] = ext[s][n].shared /\ g[c] = u.shared
    BY <1>6, <1>12
  <2>5. loc[r] = SumFunctionOnSet(f, Conn) /\ SumHeld(r, Conn)' = SumFunctionOnSet(g, Conn)
    BY <1>11
  <2>6. loc'[r] = IF r = s THEN loc[r] + (u.shared - ext[s][n].shared) ELSE loc[r]
    BY <1>1, <1>5
  <2> HIDE DEF f, g
  <2>7. CASE r = s
    <3>1. \A d \in Conn : f[d] \in Int /\ g[d] \in Int
      BY <2>1
    <3>2. \A d \in Conn \ {c} : g[d] = f[d]
      BY <2>3
    <3>3. SumFunctionOnSet(g, Conn) = SumFunctionOnSet(f, Conn) + (g[c] - f[c])
      BY <3>1, <3>2, SumChange, FiniteSlots
    <3> QED BY <2>2, <2>4, <2>5, <2>6, <2>7, <3>3
  <2>8. CASE r # s
    <3>1. \A d \in Conn : f[d] \in Int /\ f[d] = g[d]
      BY <2>1, <2>3, <2>8
    <3>2. SumFunctionOnSet(f, Conn) = SumFunctionOnSet(g, Conn)
      BY <3>1, SumSame, FiniteSlots
    <3> QED BY <2>2, <2>5, <2>6, <2>8, <3>2
  <2> QED BY <2>7, <2>8
<1>14. loc' \in [Server -> Nat]
  BY <1>5, <1>13, SMTT(30)
<1>15. FilesMatch'
  BY <1>4, <1>10, <1>13, ZenonT(60) DEF FilesMatch, LocalAt
<1> QED BY <1>4, <1>7, <1>8, <1>9, <1>14, <1>15 DEF Tallied

\* What is shown of every step of Sessions.
FilesInv == Tables /\ Posts(chan) /\ Tallied

\* The report of a series of commands leaves the counts of an entry as they are.
LEMMA ReportedCounts ==
  ASSUME ext \in [Server -> [Nick -> Counters]], NEW s \in Server, NEW n \in Nick, NEW tag
  PROVE  Reported(s, n, tag) \in Counters /\ Reported(s, n, tag).shared = ext[s][n].shared
<1> DEFINE e == ext[s][n]
<1>1. e \in Counters
  OBVIOUS
<1>2. Reported(s, n, tag) = e \/ Reported(s, n, tag) = [e EXCEPT !.sharing = FALSE]
        \/ Reported(s, n, tag) = [e EXCEPT !.unsharing = FALSE]
  BY DEF Reported
<1> HIDE DEF e
<1>3. /\ [e EXCEPT !.sharing = FALSE] \in Counters /\ [e EXCEPT !.sharing = FALSE].shared = e.shared
      /\ [e EXCEPT !.unsharing = FALSE] \in Counters /\ [e EXCEPT !.unsharing = FALSE].shared = e.shared
  BY <1>1 DEF Counters
<1> QED BY <1>1, <1>2, <1>3 DEF e

\* The report goes out on links that carry news of the client.
LEMMA ReportPosts ==
  ASSUME OneHome, Tables, Posts(chan), ext \in [Server -> [Nick -> Counters]],
         NEW s \in Server, NEW n \in Nick, Local(s, n), NEW tag
  PROVE  /\ Posts(PassOn(chan, s, None, Report(s, n, tag)))
         /\ Posts(PassOn(chan, s, None, Report(s, n, tag) \o <<>>))
         /\ \A m \in {UploadMsg("START", n), UploadMsg("END", n)} :
              Posts(PassOn(chan, s, None, Report(s, n, tag) \o <<m>>))
<1> DEFINE r == Report(s, n, tag)
           k == ext[s][n].shared
<1>1. k \in Nat /\ (r = <<SharingMsg(n, k)>> \/ r = <<>>)
  BY DEF Report, Counters
<1>2. ASSUME NEW u \in Servers(s)
      PROVE  /\ r \in Seq(Post(s, u))
             /\ \A m \in {UploadMsg("START", n), UploadMsg("END", n)} : <<m>> \in Seq(Post(s, u))
  <2>1. u \in Server /\ n \in Carried(s, u)
    BY NewsGoesOn DEF Servers
  <2>2. SharingMsg(n, k) \in Post(s, u)
    BY <1>1, <2>1, MailMade
  <2>3. UploadMsg("START", n) \in Post(s, u) /\ UploadMsg("END", n) \in Post(s, u)
    BY <2>1, MailMade
  <2>4. \A m \in Post(s, u) : <<m>> \in Seq(Post(s, u))
    BY <2>1, PostSeqs
  <2>5. <<>> \in Seq(Post(s, u))
    BY <2>1, PostSeqs
  <2> HIDE DEF r, k
  <2> QED BY <1>1, <2>2, <2>3, <2>4, <2>5
<1>3. /\ r \in Seq(Mail) /\ <<>> \in Seq(Mail)
      /\ \A m \in {UploadMsg("START", n), UploadMsg("END", n)} : <<m>> \in Seq(Mail)
  <2>1. SharingMsg(n, k) \in Mail /\ UploadMsg("START", n) \in Mail /\ UploadMsg("END", n) \in Mail
    BY <1>1 DEF SharingMsg, UploadMsg, Mail
  <2> HIDE DEF r, k, Mail
  <2>2. <<>> \in Seq(Mail) /\ \A m \in Mail : <<m>> \in Seq(Mail)
    OBVIOUS
  <2> QED BY <1>1, <2>1, <2>2
<1> HIDE DEF r, k
<1>4. \A u \in Servers(s) \ {None} : r \in Seq(Post(s, u))
  BY <1>2
<1>5. Posts(PassOn(chan, s, None, r))
  BY <1>3, <1>4, PassPosts
<1>6. r \o <<>> = r
  BY <1>3
<1>7. ASSUME NEW m \in {UploadMsg("START", n), UploadMsg("END", n)}
      PROVE  Posts(PassOn(chan, s, None, r \o <<m>>))
  <2>1. r \o <<m>> \in Seq(Mail)
    BY <1>3, ConcatProperties
  <2>2. ASSUME NEW u \in Servers(s) \ {None} PROVE r \o <<m>> \in Seq(Post(s, u))
    <3>1. r \in Seq(Post(s, u)) /\ <<m>> \in Seq(Post(s, u)) /\ u \in Server
      BY <1>2 DEF Servers
    <3> QED BY <3>1, PostSeqs
  <2> QED BY <2>1, <2>2, PassPosts
<1> QED BY <1>5, <1>6, <1>7 DEF r

\* What all commands of a client have in common.
LEMMA ClientOrderly ==
  ASSUME OneHome, FilesInv, NEW s \in Server, NEW c \in Conn, Client(s, c), NEW tag,
         \/ chan' = PassOn(chan, s, None, Report(s, conn[s][c].nick, tag))
         \/ chan' = PassOn(chan, s, None, Report(s, conn[s][c].nick, tag) \o <<>>)
         \/ \E m \in {UploadMsg("START", conn[s][c].nick), UploadMsg("END", conn[s][c].nick)} :
              chan' = PassOn(chan, s, None, Report(s, conn[s][c].nick, tag) \o <<m>>)
  PROVE  Tables' /\ Posts(chan')
<1>1. UNCHANGED <<users, conn, end, now>> /\ conn[s][c].class = "user"
  BY DEF Client
<1>2. PICK n \in Nick : n = conn[s][c].nick /\ Local(s, n)
  BY <1>1 DEF FilesInv, Tables, ConnectionsOwnEntries, Local
<1>3. Tables /\ Posts(chan) /\ ext \in [Server -> [Nick -> Counters]]
  BY DEF FilesInv, Tallied
<1>4. Posts(chan')
  <2>1. CASE chan' = PassOn(chan, s, None, Report(s, n, tag))
    BY <1>2, <1>3, <2>1, ReportPosts
  <2>2. CASE chan' = PassOn(chan, s, None, Report(s, n, tag) \o <<>>)
    BY <1>2, <1>3, <2>2, ReportPosts
  <2>3. CASE \E m \in {UploadMsg("START", n), UploadMsg("END", n)} :
               chan' = PassOn(chan, s, None, Report(s, n, tag) \o <<m>>)
    BY <1>2, <1>3, <2>3, ReportPosts
  <2> QED BY <1>2, <2>1, <2>2, <2>3
<1>5. now' \in Nat
  BY <1>1, <1>3 DEF Tables, Typed
<1>6. Tables'
  BY <1>1, <1>3, <1>5, LinksStay, TablesStay
<1> QED BY <1>4, <1>6

\* A command after which the connection holds the files F and its entry is u.
LEMMA CommandTallies ==
  ASSUME FilesInv, ListsTyped, NEW s \in Server, NEW c \in Conn, Client(s, c),
         NEW u \in Counters, NEW o \in UserOpt, NEW k \in Int,
         ext' = [ext EXCEPT ![s][conn[s][c].nick] = u],
         opt' = [opt EXCEPT ![s][c] = o],
         IsFiniteSet(o.files), Cardinality(o.files) = u.shared,
         u.shared = ext[s][conn[s][c].nick].shared + k,
         num' = [num EXCEPT ![s] = @ + k], loc' = [loc EXCEPT ![s] = @ + k]
  PROVE  Tallied'
<1>1. UNCHANGED <<users, conn>> /\ conn[s][c].class = "user"
  BY DEF Client
<1>2. PICK n \in Nick : n = conn[s][c].nick
  BY <1>1 DEF FilesInv, Tables, ConnectionsOwnEntries
<1>3. Tables /\ Tallied /\ ext[s][n].shared \in Nat /\ u.shared \in Nat
  BY DEF FilesInv, Tallied, Counters
<1>4. k = u.shared - ext[s][conn[s][c].nick].shared
  BY <1>2, <1>3
<1>5. \A r \in Server, d \in Conn :
        opt'[r][d].files = IF r = s /\ d = c THEN o.files ELSE opt[r][d].files
  BY DEF ListsTyped
<1>6. /\ num' = [num EXCEPT ![s] = num[s] + (u.shared - ext[s][conn[s][c].nick].shared)]
      /\ loc' = [loc EXCEPT ![s] = loc[s] + (u.shared - ext[s][conn[s][c].nick].shared)]
  BY ONLY <1>4, num' = [num EXCEPT ![s] = @ + k], loc' = [loc EXCEPT ![s] = @ + k]
<1>7. ext' = [ext EXCEPT ![s][conn[s][c].nick] = u]
  OBVIOUS
<1>8. IsFiniteSet(o.files) /\ Cardinality(o.files) = u.shared
  OBVIOUS
<1> QED BY ONLY <1>1, <1>3, <1>5, <1>6, <1>7, <1>8, HoldTurns, s \in Server, c \in Conn, u \in Counters

\* Counters with another count of files.
LEMMA CountsMade ==
  ASSUME NEW u \in Counters, NEW k \in Nat
  PROVE  /\ [u EXCEPT !.shared = k] \in Counters /\ [u EXCEPT !.shared = k].shared = k
         /\ [u EXCEPT !.shared = k, !.sharing = TRUE] \in Counters
         /\ [u EXCEPT !.shared = k, !.sharing = TRUE].shared = k
         /\ [u EXCEPT !.shared = k, !.unsharing = TRUE] \in Counters
         /\ [u EXCEPT !.shared = k, !.unsharing = TRUE].shared = k
BY DEF Counters

\* A connection with other files, and one file more or less.
LEMMA FilesMade ==
  ASSUME NEW o \in UserOpt, IsFiniteSet(o.files), NEW f \in File
  PROVE  /\ [o EXCEPT !.files = @ \cup {f}] \in UserOpt
         /\ [o EXCEPT !.files = @ \ {f}] \in UserOpt
         /\ f \notin o.files =>
              LET F == [o EXCEPT !.files = @ \cup {f}].files
              IN  IsFiniteSet(F) /\ Cardinality(F) = Cardinality(o.files) + 1
         /\ f \in o.files =>
              LET F == [o EXCEPT !.files = @ \ {f}].files
              IN  IsFiniteSet(F) /\ Cardinality(F) = Cardinality(o.files) - 1
<1> DEFINE F == o.files
           A == F \cup {f}
           R == F \ {f}
           a == [o EXCEPT !.files = @ \cup {f}]
           r == [o EXCEPT !.files = @ \ {f}]
<1>1. a \in UserOpt /\ a.files = A /\ r \in UserOpt /\ r.files = R
  BY DEF UserOpt
<1> HIDE DEF F, a, r
<1>2. IsFiniteSet(F)
  BY DEF F
<1>3. /\ IsFiniteSet(A) /\ (f \notin F => Cardinality(A) = Cardinality(F) + 1)
      /\ IsFiniteSet(R) /\ (f \in F => Cardinality(R) = Cardinality(F) - 1)
  BY <1>2, FS_AddElement, FS_RemoveElement
<1> HIDE DEF A, R
<1>4. /\ f \notin F => IsFiniteSet(a.files) /\ Cardinality(a.files) = Cardinality(F) + 1
      /\ f \in F => IsFiniteSet(r.files) /\ Cardinality(r.files) = Cardinality(F) - 1
  BY <1>1, <1>3
<1> QED BY ONLY <1>1, <1>4 DEF F, a, r

\* What is known of the client of a command.
LEMMA ClientCounts ==
  ASSUME FilesInv, ListsTyped, NEW s \in Server, NEW c \in Conn, Client(s, c), NEW tag
  PROVE  LET n == conn[s][c].nick
             u == Reported(s, n, tag)
         IN  /\ n \in Nick /\ users[s][n].con = c
             /\ u \in Counters /\ u.shared = ext[s][n].shared
             /\ opt[s][c] \in UserOpt /\ IsFiniteSet(opt[s][c].files)
             /\ Cardinality(opt[s][c].files) = ext[s][n].shared
<1>1. conn[s][c].class = "user"
  BY DEF Client
<1>2. PICK n \in Nick : n = conn[s][c].nick /\ users[s][n].con = c
  BY <1>1 DEF FilesInv, Tables, ConnectionsOwnEntries
<1>3. n \in LocalAt(s)
  BY <1>2 DEF LocalAt, Local
<1>4. ext[s][n].shared = Cardinality(opt[s][c].files)
  BY <1>2, <1>3 DEF FilesInv, Tallied, FilesMatch
<1>5. Reported(s, n, tag) \in Counters /\ Reported(s, n, tag).shared = ext[s][n].shared
  BY ReportedCounts DEF FilesInv, Tallied
<1>6. opt[s][c] \in UserOpt /\ IsFiniteSet(opt[s][c].files)
  BY DEF FilesInv, Tallied, ListsTyped
<1> QED BY <1>2, <1>4, <1>5, <1>6

\* A command that adds no file and removes none.
LEMMA OtherTallies ==
  ASSUME FilesInv, ListsTyped, NEW s \in Server, NEW c \in Conn, Client(s, c),
         NEW u \in Counters, u.shared = ext[s][conn[s][c].nick].shared,
         ext' = [ext EXCEPT ![s][conn[s][c].nick] = u],
         NEW o \in UserOpt, opt' = [opt EXCEPT ![s][c] = o], o.files = opt[s][c].files,
         UNCHANGED <<num, loc>>
  PROVE  Tallied'
<1>1. /\ IsFiniteSet(opt[s][c].files)
      /\ Cardinality(opt[s][c].files) = ext[s][conn[s][c].nick].shared
  BY ClientCounts
<1>2. num \in [Server -> Nat] /\ loc \in [Server -> Nat]
  BY DEF FilesInv, Tallied
<1>3. num' = [num EXCEPT ![s] = @ + 0] /\ loc' = [loc EXCEPT ![s] = @ + 0]
  BY <1>2
<1>4. IsFiniteSet(o.files) /\ Cardinality(o.files) = u.shared /\ 0 \in Int
  BY <1>1
<1>5. u.shared = ext[s][conn[s][c].nick].shared + 0
  BY DEF Counters
<1>6. ext' = [ext EXCEPT ![s][conn[s][c].nick] = u] /\ opt' = [opt EXCEPT ![s][c] = o]
  OBVIOUS
<1> QED BY ONLY <1>3, <1>4, <1>5, <1>6, CommandTallies, FilesInv, ListsTyped, Client(s, c),
                s \in Server, c \in Conn, u \in Counters, o \in UserOpt

\* Nothing but a flag of the client's entry changes.
LEMMA FlagTallies ==
  ASSUME FilesInv, ListsTyped, NEW s \in Server, NEW c \in Conn, Client(s, c),
         NEW u \in Counters, u.shared = ext[s][conn[s][c].nick].shared,
         ext' = [ext EXCEPT ![s][conn[s][c].nick] = u], UNCHANGED <<opt, num, loc>>
  PROVE  Tallied'
<1> DEFINE o == opt[s][c]
<1>1. o \in UserOpt /\ opt' = [opt EXCEPT ![s][c] = o] /\ o.files = opt[s][c].files
  BY DEF ListsTyped
<1> HIDE DEF o
<1> QED BY <1>1, OtherTallies

\* add_file(), share_file() and one file of add_directory()
LEMMA AddFiles ==
  ASSUME OneHome, FilesInv, ListsTyped, NEW s \in Server, NEW c \in Conn, NEW f \in File, AddFile(s, c, f)
  PROVE  FilesInv'
<1>1. Client(s, c) /\ chan' = PassOn(chan, s, None, Report(s, conn[s][c].nick, "ADD"))
  BY DEF AddFile
<1>2. Tables' /\ Posts(chan')
  BY <1>1, ClientOrderly
<1>3. PICK n \in Nick, u \in Counters :
        /\ n = conn[s][c].nick /\ u = Reported(s, n, "ADD") /\ u.shared = ext[s][n].shared
        /\ opt[s][c] \in UserOpt /\ IsFiniteSet(opt[s][c].files)
        /\ Cardinality(opt[s][c].files) = ext[s][n].shared
  BY <1>1, ClientCounts
<1>4. CASE MayShare(s, c, f, u)
  <2>1. /\ ext' = [ext EXCEPT ![s][n] = [u EXCEPT !.shared = u.shared + 1, !.sharing = TRUE]]
        /\ opt' = [opt EXCEPT ![s][c].files = @ \cup {f}]
        /\ num' = [num EXCEPT ![s] = @ + 1] /\ loc' = [loc EXCEPT ![s] = @ + 1]
    BY <1>3, <1>4 DEF AddFile
  <2>2. u.shared \in Nat /\ u.shared + 1 \in Nat /\ u.shared + 1 = ext[s][n].shared + 1
    BY <1>3, <1>4 DEF Counters
  <2>3. PICK v \in Counters :
          /\ v = [u EXCEPT !.shared = u.shared + 1, !.sharing = TRUE]
          /\ v.shared = u.shared + 1
    <3>1. [u EXCEPT !.shared = u.shared + 1, !.sharing = TRUE] \in Counters
      BY <2>2, CountsMade, Zenon
    <3>2. [u EXCEPT !.shared = u.shared + 1, !.sharing = TRUE].shared = u.shared + 1
      BY <2>2, CountsMade, Zenon
    <3> QED BY <3>1, <3>2
  <2>4. PICK o \in UserOpt : o = [opt[s][c] EXCEPT !.files = @ \cup {f}]
    BY <1>3, FilesMade
  <2>5. ext' = [ext EXCEPT ![s][conn[s][c].nick] = v]
    BY <1>3, <2>1, <2>3
  <2>6. opt' = [opt EXCEPT ![s][c] = o]
    BY <2>1, <2>4
  <2>7. num' = [num EXCEPT ![s] = @ + 1] /\ loc' = [loc EXCEPT ![s] = @ + 1]
    BY <2>1 DEF FilesInv, Tallied
  <2>8. f \notin opt[s][c].files
    BY <1>4 DEF MayShare
  <2>9. IsFiniteSet(o.files) /\ Cardinality(o.files) = Cardinality(opt[s][c].files) + 1
    BY <1>3, <2>4, <2>8, FilesMade
  <2>10. Cardinality(o.files) = v.shared
    BY <1>3, <2>3, <2>9
  <2>11. v.shared = ext[s][conn[s][c].nick].shared + 1 /\ 1 \in Int
    BY <1>3, <2>2, <2>3
  <2>12. Tallied'
    BY ONLY <1>1, <2>5, <2>6, <2>7, <2>9, <2>10, <2>11, CommandTallies, FilesInv, ListsTyped,
            s \in Server, c \in Conn, v \in Counters, o \in UserOpt
  <2> QED BY <1>2, <2>12 DEF FilesInv
<1>5. CASE ~(MayShare(s, c, f, u))
  <2>1. ext' = [ext EXCEPT ![s][conn[s][c].nick] = u] /\ UNCHANGED <<opt, num, loc>>
    BY <1>3, <1>5 DEF AddFile
  <2>2. u.shared = ext[s][conn[s][c].nick].shared
    BY <1>3
  <2>3. Tallied'
    BY ONLY <1>1, <2>1, <2>2, FlagTallies, FilesInv, ListsTyped, s \in Server, c \in Conn, u \in Counters
  <2> QED BY <1>2, <2>3 DEF FilesInv
<1> QED BY <1>4, <1>5

\* remove_file()
LEMMA RemoveFiles ==
  ASSUME OneHome, FilesInv, ListsTyped, NEW s \in Server, NEW c \in Conn, NEW f \in File, RemoveFile(s, c, f)
  PROVE  FilesInv'
<1>1. Client(s, c) /\ chan' = PassOn(chan, s, None, Report(s, conn[s][c].nick, "REMOVE"))
  BY DEF RemoveFile
<1>2. Tables' /\ Posts(chan')
  BY <1>1, ClientOrderly
<1>3. PICK n \in Nick, u \in Counters :
        /\ n = conn[s][c].nick /\ u = Reported(s, n, "REMOVE") /\ u.shared = ext[s][n].shared
        /\ opt[s][c] \in UserOpt /\ IsFiniteSet(opt[s][c].files)
        /\ Cardinality(opt[s][c].files) = ext[s][n].shared
  BY <1>1, ClientCounts
<1>4. CASE u.shared # 0 /\ f \in opt[s][c].files
  <2>1. /\ ext' = [ext EXCEPT ![s][n] = [u EXCEPT !.shared = u.shared - 1, !.unsharing = TRUE]]
        /\ opt' = [opt EXCEPT ![s][c].files = @ \ {f}]
        /\ num' = [num EXCEPT ![s] = @ - 1] /\ loc' = [loc EXCEPT ![s] = @ - 1]
    BY <1>3, <1>4 DEF RemoveFile
  <2>2. u.shared \in Nat /\ u.shared - 1 \in Nat /\ u.shared - 1 = ext[s][n].shared + -1
    BY <1>3, <1>4 DEF Counters
  <2>3. PICK v \in Counters :
          /\ v = [u EXCEPT !.shared = u.shared - 1, !.unsharing = TRUE]
          /\ v.shared = u.shared - 1
    <3>1. [u EXCEPT !.shared = u.shared - 1, !.unsharing = TRUE] \in Counters
      BY <2>2, CountsMade, Zenon
    <3>2. [u EXCEPT !.shared = u.shared - 1, !.unsharing = TRUE].shared = u.shared - 1
      BY <2>2, CountsMade, Zenon
    <3> QED BY <3>1, <3>2
  <2>4. PICK o \in UserOpt : o = [opt[s][c] EXCEPT !.files = @ \ {f}]
    BY <1>3, FilesMade
  <2>5. ext' = [ext EXCEPT ![s][conn[s][c].nick] = v]
    BY <1>3, <2>1, <2>3
  <2>6. opt' = [opt EXCEPT ![s][c] = o]
    BY <2>1, <2>4
  <2>7. num' = [num EXCEPT ![s] = @ + -1] /\ loc' = [loc EXCEPT ![s] = @ + -1]
    BY <2>1 DEF FilesInv, Tallied
  <2>8. f \in opt[s][c].files
    BY <1>4 DEF MayShare
  <2>9. IsFiniteSet(o.files) /\ Cardinality(o.files) = Cardinality(opt[s][c].files) - 1
    BY <1>3, <2>4, <2>8, FilesMade
  <2>10. Cardinality(o.files) = v.shared
    BY <1>3, <2>3, <2>9
  <2>11. v.shared = ext[s][conn[s][c].nick].shared + -1 /\ -1 \in Int
    BY <1>3, <2>2, <2>3
  <2>12. Tallied'
    BY ONLY <1>1, <2>5, <2>6, <2>7, <2>9, <2>10, <2>11, CommandTallies, FilesInv, ListsTyped,
            s \in Server, c \in Conn, v \in Counters, o \in UserOpt
  <2> QED BY <1>2, <2>12 DEF FilesInv
<1>5. CASE ~(u.shared # 0 /\ f \in opt[s][c].files)
  <2>1. ext' = [ext EXCEPT ![s][conn[s][c].nick] = u] /\ UNCHANGED <<opt, num, loc>>
    BY <1>3, <1>5 DEF RemoveFile
  <2>2. u.shared = ext[s][conn[s][c].nick].shared
    BY <1>3
  <2>3. Tallied'
    BY ONLY <1>1, <2>1, <2>2, FlagTallies, FilesInv, ListsTyped, s \in Server, c \in Conn, u \in Counters
  <2> QED BY <1>2, <2>3 DEF FilesInv
<1> QED BY <1>4, <1>5

\* Commands that only end a series, and the start or end of an upload.
LEMMA UploadsCount ==
  ASSUME OneHome, FilesInv, ListsTyped, NEW s \in Server, NEW c \in Conn,
         Command(s, c) \/ \E what \in {"START", "END"} : Upload(s, c, what)
  PROVE  FilesInv'
<1> DEFINE n == conn[s][c].nick
           u == Reported(s, n, "OTHER")
<1>1. CASE Command(s, c)
  <2>1. /\ Client(s, c) /\ chan' = PassOn(chan, s, None, Report(s, n, "OTHER") \o <<>>)
        /\ ext' = [ext EXCEPT ![s][n] = u] /\ UNCHANGED <<opt, num, loc>>
    BY <1>1 DEF Command, Other
  <2>2. u \in Counters /\ u.shared = ext[s][n].shared
    BY <2>1, ClientCounts
  <2>3. Tables' /\ Posts(chan')
    BY <2>1, ClientOrderly
  <2> HIDE DEF u
  <2> QED BY <2>1, <2>2, <2>3, FlagTallies DEF FilesInv
<1>2. ASSUME NEW what \in {"START", "END"}, Upload(s, c, what) PROVE FilesInv'
  <2> DEFINE v == Counted(u, what)
  <2>1. /\ Client(s, c) /\ chan' = PassOn(chan, s, None, Report(s, n, "OTHER") \o <<UploadMsg(what, n)>>)
        /\ ext' = [ext EXCEPT ![s][n] = v] /\ UNCHANGED <<opt, num, loc>>
    BY <1>2 DEF Upload, Other, Relay
  <2>2. u \in Counters /\ u.shared = ext[s][n].shared
    BY <2>1, ClientCounts
  <2>3. UploadMsg(what, n) \in {UploadMsg("START", n), UploadMsg("END", n)}
    OBVIOUS
  <2>4. Tables' /\ Posts(chan')
    BY <2>1, <2>3, ClientOrderly
  <2> HIDE DEF u
  <2>5. v \in Counters /\ v.shared = u.shared
    BY <2>2 DEF Counted, Counters
  <2> HIDE DEF v
  <2> QED BY <2>1, <2>2, <2>4, <2>5, FlagTallies DEF FilesInv
<1> QED BY <1>1, <1>2

\* add_hotlist() and remove_hotlist()
LEMMA HotlistsCount ==
  ASSUME OneHome, FilesInv, ListsTyped, NEW s \in Server, NEW c \in Conn, NEW n \in Nick,
         AddHotlist(s, c, n) \/ RemoveHotlist(s, c, n)
  PROVE  FilesInv'
<1> DEFINE me == conn[s][c].nick
           u  == Reported(s, me, "OTHER")
           a  == [opt[s][c] EXCEPT !.hotlist = @ \cup {n},
                                   !.told = IF Known(s, n) THEN @ \cup {n} ELSE @]
           r  == [opt[s][c] EXCEPT !.hotlist = @ \ {n}, !.told = @ \ {n}]
<1>1. /\ Client(s, c) /\ chan' = PassOn(chan, s, None, Report(s, me, "OTHER") \o <<>>)
      /\ ext' = [ext EXCEPT ![s][me] = u] /\ UNCHANGED <<num, loc>>
      /\ opt' = [opt EXCEPT ![s][c] = a] \/ opt' = [opt EXCEPT ![s][c] = r]
  BY DEF AddHotlist, RemoveHotlist, Other
<1>2. u \in Counters /\ u.shared = ext[s][me].shared /\ opt[s][c] \in UserOpt
  BY <1>1, ClientCounts
<1>3. Tables' /\ Posts(chan')
  BY <1>1, ClientOrderly
<1>4. /\ a \in UserOpt /\ a.files = opt[s][c].files
      /\ r \in UserOpt /\ r.files = opt[s][c].files
  BY <1>2 DEF UserOpt
<1> HIDE DEF u, a, r
<1>5. CASE opt' = [opt EXCEPT ![s][c] = a]
  <2>1. Tallied'
    BY <1>1, <1>2, <1>4, <1>5, OtherTallies
  <2> QED BY <1>3, <2>1 DEF FilesInv
<1>6. CASE opt' = [opt EXCEPT ![s][c] = r]
  <2>1. Tallied'
    BY <1>1, <1>2, <1>4, <1>6, OtherTallies
  <2> QED BY <1>3, <2>1 DEF FilesInv
<1> QED BY <1>1, <1>5, <1>6

\* user_sharing(): news of a count comes from the side of the home, so it is about a
\* session of another server.
LEMMA SharingTallies ==
  ASSUME OneHome, FilesInv, NEW s \in Server, NEW t \in Server, RecvSharing(s, t)
  PROVE  FilesInv'
<1> DEFINE m == Head(chan[t][s])
<1>1. /\ chan[t][s] # <<>> /\ m.type = "SHARING"
      /\ UNCHANGED <<users, conn, end, now, opt, loc>>
  BY DEF RecvSharing, Deliver
<1>2. Tables /\ Posts(chan) /\ Tallied /\ now' \in Nat
  BY <1>1 DEF FilesInv, Tables, Typed
<1>3. Tables'
  BY <1>1, <1>2, LinksStay, TablesStay
<1>4. Posts(Received(t, s)) /\ m \in Post(t, s) /\ m \in Mail
  BY <1>1, <1>2, ReceivedPosts
<1>5. m.nick \in Nick /\ m.shared \in Nat /\ m.nick \in Carried(t, s)
  BY <1>1, <1>4, MailFields DEF Post
<1>6. PICK n \in Nick : n = m.nick
  BY <1>5
<1>7. ~Local(s, n)
  <2>1. Servers(s) \subseteq Edge[s] /\ (Local(s, n) => s \in Home[n])
    BY <1>2, NewsGoesOn
  <2>2. t \in Edge[s]
    BY <1>1, <1>2 DEF RecvSharing, Deliver, Tables
  <2>3. s \in Home[n] => \A u \in Edge[s] : n \notin Carried(u, s)
    BY <1>2, NewsGoesOn
  <2> QED BY <1>5, <1>6, <2>1, <2>2, <2>3
<1>8. PICK k \in Nat : k = m.shared
  BY <1>5
<1>9. CASE Known(s, n)
  <2>1. /\ ext' = [ext EXCEPT ![s][n].shared = k]
        /\ num' = [num EXCEPT ![s] = @ + Adds(ext[s][n].shared, k)]
        /\ chan' = PassOn(Received(t, s), s, t, <<m>>)
    BY <1>6, <1>8, <1>9 DEF RecvSharing
  <2>0. Tallied
    BY <1>2
  <2>2. PICK u \in Counters : u = [ext[s][n] EXCEPT !.shared = k] /\ u.shared = k
    <3>1. ext[s][n] \in Counters
      BY <1>2 DEF Tallied
    <3> QED BY <3>1, CountsMade, ZenonT(60)
  <2>3. ext' = [ext EXCEPT ![s][n] = u]
    BY <2>1, <2>2
  <2>4. num' = [num EXCEPT ![s] = num[s] + (u.shared - ext[s][n].shared)]
    BY <2>1, <2>2 DEF Adds
  <2>5. Recounted(s, n, u)
    BY ONLY <2>0, <2>3, <2>4, ShareTurns, u \in Counters, s \in Server, n \in Nick
  <2>6. /\ loc \in [Server -> Nat] /\ FilesMatch
        /\ \A r \in Server, d \in Conn :
             /\ IsFiniteSet(opt[r][d].files)
             /\ conn[r][d].class # "user" => opt[r][d].files = {}
        /\ \A r \in Server, p \in Nick : ~Known(r, p) => ext[r][p].shared = 0
    BY <1>2 DEF Tallied
  <2>13. /\ ext' \in [Server -> [Nick -> Counters]] /\ num' \in [Server -> Nat]
         /\ \A r \in Server : num'[r] = SumShared(r, Nick)'
         /\ \A r \in Server, p \in Nick : ext'[r][p] = IF r = s /\ p = n THEN u ELSE ext[r][p]
    BY <2>5 DEF Recounted
  <2>7. ASSUME NEW r \in Server, NEW p \in Nick, ~Known(r, p)' PROVE ext'[r][p].shared = 0
    <3>1. ~Known(r, p)
      BY <1>1, <2>7 DEF Known
    <3>2. ext[r][p].shared = 0 /\ ~(r = s /\ p = n)
      BY <1>9, <2>6, <3>1
    <3>3. ext'[r][p] = ext[r][p]
      BY <2>13, <3>2
    <3> QED BY <3>2, <3>3
  <2>8. \A r \in Server, p \in Nick :
          Local(r, p)' => ext'[r][p].shared = Cardinality(opt'[r][users'[r][p].con].files)
    <3>1. \A r \in Server, p \in Nick : Local(r, p)' => Local(r, p) /\ ext'[r][p] = ext[r][p]
      BY <1>1, <1>7, <2>13 DEF Local
    <3> QED BY <1>1, <2>6, <3>1 DEF FilesMatch, LocalAt
  <2>9. \A r \in Server : loc'[r] = SumHeld(r, Conn)'
    BY <1>1, <2>6 DEF FilesMatch, SumHeld
  <2>10. FilesMatch'
    BY <2>13, <2>8, <2>9 DEF FilesMatch, LocalAt
  <2>11. Tallied'
    BY <1>1, <2>13, <2>6, <2>7, <2>10 DEF Tallied
  <2>12. Posts(chan')
    <3>1. \A r \in Servers(s) \ {t} : m \in Post(s, r)
      <4>1. \A r \in Servers(s) \ {t} : m.nick \in Carried(s, r)
        BY <1>2, <1>5, NewsGoesOn
      <4> QED BY <1>4, <4>1 DEF Post
    <3> HIDE DEF m
    <3> QED BY <1>4, <2>1, <3>1, OnePosts
  <2> QED BY <1>3, <2>11, <2>12, SMTT(30) DEF FilesInv
<1>10. CASE ~Known(s, n)
  <2>1. chan' = Received(t, s) /\ UNCHANGED <<ext, num>>
    BY <1>6, <1>10 DEF RecvSharing
  <2>2. Tallied'
    BY <1>1, <1>2, <2>1, SMTT(30) DEF Tallied, FilesMatch, SumShared, SumHeld, LocalAt, Local, Known
  <2> QED BY <1>3, <1>4, <2>1, <2>2 DEF FilesInv
<1> QED BY <1>9, <1>10

\* upload_start() and upload_end() of a peer leave the files alone.
LEMMA UploadTallies ==
  ASSUME OneHome, FilesInv, NEW s \in Server, NEW t \in Server, RecvUpload(s, t)
  PROVE  FilesInv'
<1> DEFINE m == Head(chan[t][s])
<1>1. /\ chan[t][s] # <<>> /\ m.type \in {"START", "END"}
      /\ UNCHANGED <<users, conn, end, now, opt, num, loc>>
  BY DEF RecvUpload, Deliver
<1>2. Tables /\ Posts(chan) /\ Tallied /\ now' \in Nat
  BY <1>1 DEF FilesInv, Tables, Typed
<1>3. Tables'
  BY <1>1, <1>2, LinksStay, TablesStay
<1>4. Posts(Received(t, s)) /\ m \in Post(t, s) /\ m \in Mail
  BY <1>1, <1>2, ReceivedPosts
<1>5. \A u \in Servers(s) \ {t} : m \in Post(s, u)
  BY <1>1, <1>4 DEF Post
<1>6. Posts(chan')
  <2>1. chan' = PassOn(Received(t, s), s, t, <<m>>) \/ chan' = Received(t, s)
    BY DEF RecvUpload
  <2> HIDE DEF m
  <2> QED BY <1>4, <1>5, <2>1, OnePosts
<1>7. /\ ext' \in [Server -> [Nick -> Counters]]
      /\ \A r \in Server, n \in Nick : ext'[r][n].shared = ext[r][n].shared
  <2>1. PICK n \in Nick : n = m.nick
    BY <1>1, <1>4, MailFields
  <2>2. ext \in [Server -> [Nick -> Counters]]
    BY <1>2 DEF Tallied
  <2>3. PICK u \in Counters : u = Counted(ext[s][n], m.type) /\ u.shared = ext[s][n].shared
    <3> DEFINE e == ext[s][n]
    <3>1. e \in Counters
      BY <2>2
    <3> HIDE DEF e, m
    <3>2. Counted(e, m.type) \in Counters /\ Counted(e, m.type).shared = e.shared
      BY <3>1, SMTT(30) DEF Counted, Counters
    <3> QED BY <3>2 DEF e
  <2>4. ext' = [ext EXCEPT ![s][n] = u] \/ ext' = ext
    BY <2>1, <2>3 DEF RecvUpload
  <2> QED BY <2>2, <2>3, <2>4
<1>8. FilesMatch'
  <2>1. FilesMatch /\ ext \in [Server -> [Nick -> Counters]]
    BY <1>2 DEF Tallied
  <2>2. \A r \in Server : num'[r] = SumShared(r, Nick)'
    <3> SUFFICES ASSUME NEW r \in Server PROVE num'[r] = SumShared(r, Nick)'
      OBVIOUS
    <3>1. Shares(ext'[r]) = Shares(ext[r])
      BY <1>7 DEF Shares
    <3>2. /\ SumShared(r, Nick) = SumFunctionOnSet(Shares(ext[r]), Nick)
          /\ SumShared(r, Nick)' = SumFunctionOnSet(Shares(ext'[r]), Nick)
      BY DEF SumShared, Shares
    <3> QED BY <1>1, <2>1, <3>1, <3>2 DEF FilesMatch
  <2>3. \A r \in Server : loc'[r] = SumHeld(r, Conn)'
    BY <1>1, <2>1 DEF FilesMatch, SumHeld
  <2>4. \A r \in Server, n \in Nick :
          Local(r, n)' => ext'[r][n].shared = Cardinality(opt'[r][users'[r][n].con].files)
    BY <1>1, <1>7, <2>1 DEF FilesMatch, LocalAt, Local
  <2> QED BY <2>2, <2>3, <2>4 DEF FilesMatch, LocalAt
<1>9. Tallied'
  BY <1>1, <1>2, <1>7, <1>8 DEF Tallied, Known
<1> QED BY <1>3, <1>6, <1>9 DEF FilesInv

\* There are no users at first.
LEMMA InitFiles == ASSUME SessionsInit PROVE FilesInv
<1>1. /\ users = [s \in Server |-> [n \in Nick |-> Absent]]
      /\ conn = [s \in Server |-> [c \in Conn |-> Free]]
      /\ end = [s \in Server |-> [t \in Server |->
                 IF Linked0 /\ t \in Edge[s] THEN "up" ELSE "down"]]
      /\ chan = [s \in Server |-> [t \in Server |-> <<>>]] /\ now \in Nat
  BY DEF SessionsInit, Init
<1>2. Absent \in Entry /\ Absent.con = None /\ Free \in Connection /\ Free.class = "free"
  BY DEF Absent, Entry, Free, Connection
<1>3. Typed
  BY <1>1, <1>2 DEF Typed
<1>4. \A s \in Server, n \in Nick : users[s][n].con = None
  BY <1>1, <1>2
<1>5. EntriesHaveHomes /\ EntriesHaveConnections /\ \A s \in Server : FromNear(s)
  BY <1>4, DisjointNames DEF EntriesHaveHomes, EntriesHaveConnections, FromNear, Known, Local
<1>6. ConnectionsOwnEntries
  BY <1>1, <1>2 DEF ConnectionsOwnEntries
<1>7. \A s, t \in Server : end[s][t] # "down" => t \in Edge[s]
  BY <1>1
<1>8. Posts(chan)
  BY <1>1 DEF Posts
<1>9. Tallied
  BY InitTallied
<1> QED BY <1>3, <1>5, <1>6, <1>7, <1>8, <1>9 DEF Tables, FilesInv

\* All steps of Sessions.
LEMMA NextFiles ==
  ASSUME OneHome, FilesInv, ListsTyped, [SessionsNext]_all_vars
  PROVE  FilesInv'
<1>1. CASE UserStep /\ Release
  <2>1. Tables /\ Posts(chan) /\ Tallied /\ ext \in [Server -> [Nick -> Counters]]
    BY DEF FilesInv, Tallied
  <2>2. Orderly
    BY <1>1, <2>1, UserStepOrderly
  <2>3. Tallied'
    BY <1>1, <2>1, <2>2, ReleaseTallies DEF Orderly
  <2> QED BY <2>2, <2>3 DEF Orderly, FilesInv
<1>2. ASSUME NEW s \in Server, NEW c \in Conn, NEW f \in File,
             AddFile(s, c, f) \/ RemoveFile(s, c, f)
      PROVE  FilesInv'
  BY <1>2, AddFiles, RemoveFiles
<1>3. ASSUME NEW s \in Server, NEW c \in Conn,
             Command(s, c) \/ \E what \in {"START", "END"} : Upload(s, c, what)
      PROVE  FilesInv'
  BY <1>3, UploadsCount
<1>4. ASSUME NEW s \in Server, NEW c \in Conn, NEW n \in Watched,
             AddHotlist(s, c, n) \/ RemoveHotlist(s, c, n)
      PROVE  FilesInv'
  <2>1. n \in Nick
    BY Limits
  <2> QED BY <1>4, <2>1, HotlistsCount
<1>5. ASSUME NEW s \in Server, NEW t \in Server, RecvSharing(s, t) \/ RecvUpload(s, t)
      PROVE  FilesInv'
  BY <1>5, SharingTallies, UploadTallies
<1>6. CASE UNCHANGED all_vars
  <2>1. UNCHANGED <<users, conn, end, chan, now, ext, opt, num, loc>>
    BY <1>6 DEF all_vars, vars, ext_vars
  <2>2. Tables' /\ Posts(chan')
    BY <2>1 DEF FilesInv, Tables, Typed, EntriesHaveHomes, ConnectionsOwnEntries, EntriesHaveConnections,
                FromNear, Local, Known, Servers, Posts
  <2>3. Tallied'
    BY <2>1 DEF FilesInv, Tallied, FilesMatch, SumShared, SumHeld, LocalAt, Local, Known
  <2> QED BY <2>2, <2>3 DEF FilesInv
<1> QED BY <1>1, <1>2, <1>3, <1>4, <1>5, <1>6 DEF SessionsNext, CommandStep

\* The invariant, together with that of the hotlists, which says what opt is.
LEMMA AlwaysFiles == ASSUME OneHome PROVE SessionsSpec => [](FilesInv /\ HotlistInv)
<1>1. SessionsInit => FilesInv /\ HotlistInv
  BY InitFiles, InitHotlists
<1>2. FilesInv /\ HotlistInv /\ [SessionsNext]_all_vars => (FilesInv /\ HotlistInv)'
  BY NextFiles, NextHotlists DEF HotlistInv
<1> QED BY <1>1, <1>2, PTL DEF SessionsSpec

\* Where every nick has one home, Num_Files is the sum of the counts of the users known,
\* Local_Files that of the files held, and a local user's count the files held for it:
\* free_user(), add_file(), remove_file() and user_sharing() keep them together.
THEOREM AlwaysCounted == ASSUME OneHome PROVE SessionsSpec => []FilesMatch
<1>1. FilesInv => FilesMatch
  BY DEF FilesInv, Tallied
<1> QED BY <1>1, AlwaysFiles, PTL

\* Every variable of Sessions has its type: no total falls below zero.
THEOREM SessionsTyped == ASSUME OneHome PROVE SessionsSpec => []SessionsTypeOK
<1>1. FilesInv /\ HotlistInv => SessionsTypeOK
  BY DEF FilesInv, Tallied, HotlistInv, ListsTyped, SessionsTypeOK
<1> QED BY <1>1, AlwaysFiles, PTL

\* The assertion of remove_file.c:43: Local_Files is positive when a file that a
\* connection holds is removed.
THEOREM RemovalsCounted == ASSUME OneHome PROVE SessionsSpec => []RemovalCounted
<1>1. ASSUME FilesInv PROVE RemovalCounted
  <2> SUFFICES ASSUME NEW s \in Server, NEW c \in Conn, opt[s][c].files # {} PROVE loc[s] > 0
    BY DEF RemovalCounted
  <2>1. /\ ext[s] \in [Nick -> Counters] /\ \A d \in Conn : IsFiniteSet(opt[s][d].files)
        /\ loc[s] = SumFunctionOnSet(Holds(opt[s]), Conn)
    BY <1>1 DEF FilesInv, Tallied, FilesMatch, SumHeld, Holds
  <2>2. /\ SumFunctionOnSet(Holds(opt[s]), Conn) \in Nat
        /\ Cardinality(opt[s][c].files) <= SumFunctionOnSet(Holds(opt[s]), Conn)
    BY <2>1, Totals
  <2>3. Cardinality(opt[s][c].files) \in Nat /\ Cardinality(opt[s][c].files) # 0
    BY <2>1, FS_EmptySet, FS_CardinalityType
  <2> QED BY <2>1, <2>2, <2>3
<1> QED BY <1>1, AlwaysFiles, PTL

-----------------------------------------------------------------------------
(* What the peers count                                                     *)
(*                                                                          *)
(* t tells s of a nick whose home is on its side: reading what is under way *)
(* takes the entry that s has to the one of t, but for a report that t owes *)
(* and for uploads that t knew of before the link came up.                  *)

\* What a server counts of a nick: whether it is known, and its files and uploads.
Sight  == [known : BOOLEAN, shared : Nat, uploads : Nat]
Unseen == [known |-> FALSE, shared |-> 0, uploads |-> 0]
Fresh  == [known |-> TRUE, shared |-> 0, uploads |-> 0]
Seen(s, n) == [known |-> Known(s, n), shared |-> ext[s][n].shared, uploads |-> ext[s][n].uploads]

NewsTypes == {"LOGIN", "QUIT", "KILL", "SHARING", "START", "END"}
News(m, n) == m.type \in NewsTypes /\ m.nick = n

\* What the messages on n make of x.
Tally(k, what) == IF what = "START" THEN k + 1 ELSE IF k > 0 THEN k - 1 ELSE 0
Taking(m, n, x) ==
  IF ~News(m, n) THEN x
  ELSE IF m.type = "LOGIN" THEN Fresh
  ELSE IF m.type \in {"QUIT", "KILL"} THEN Unseen
  ELSE IF ~x.known THEN x
  ELSE IF m.type = "SHARING" THEN [x EXCEPT !.shared = m.shared]
  ELSE [x EXCEPT !.uploads = Tally(@, m.type)]

\* A LOGIN is of a nick that is not known.
Admits(m, n, x) == (News(m, n) /\ m.type = "LOGIN") => ~x.known

\* Reading q, message by message, takes x to z.
Steps(v, q, n) == \A i \in 1 .. Len(q) : /\ Admits(q[i], n, v[i - 1])
                                         /\ v[i] = Taking(q[i], n, v[i - 1])
Takes(q, n, x, z) == \E v : v[0] = x /\ v[Len(q)] = z /\ Steps(v, q, n)

\* Nothing to read takes x to itself.
LEMMA TakesNone ==
  ASSUME NEW n, NEW x
  PROVE  Takes(<<>>, n, x, x) /\ \A z : Takes(<<>>, n, x, z) => z = x
<1> DEFINE v == [i \in {0} |-> x]
<1>1. Len(<<>>) = 0 /\ 1 .. 0 = {} /\ v[0] = x
  OBVIOUS
<1> HIDE DEF v
<1>2. Takes(<<>>, n, x, x)
  BY <1>1 DEF Takes, Steps
<1> QED BY <1>1, <1>2 DEF Takes

\* One message.
LEMMA TakesOne ==
  ASSUME NEW n, NEW x, NEW m, Admits(m, n, x)
  PROVE  Takes(<<m>>, n, x, Taking(m, n, x))
<1> DEFINE y == Taking(m, n, x)
           v == [i \in 0 .. 1 |-> IF i = 0 THEN x ELSE y]
<1>1. Len(<<m>>) = 1 /\ <<m>>[1] = m /\ v[0] = x /\ v[1] = y
  OBVIOUS
<1>2. \A i \in 1 .. 1 : i = 1 /\ i - 1 = 0
  OBVIOUS
<1> HIDE DEF v, y
<1>3. Steps(v, <<m>>, n)
  BY <1>1, <1>2 DEF Steps, y
<1> QED BY <1>1, <1>3 DEF Takes, y

\* Messages that tell nothing of n.
LEMMA TakesOthers ==
  ASSUME NEW n, NEW x, NEW M, NEW q \in Seq(M), \A i \in 1 .. Len(q) : ~News(q[i], n)
  PROVE  Takes(q, n, x, x)
<1> DEFINE v == [i \in 0 .. Len(q) |-> x]
<1>1. Len(q) \in Nat
  BY LenProperties
<1>2. \A i \in 0 .. Len(q) : v[i] = x
  OBVIOUS
<1>3. 0 \in 0 .. Len(q) /\ Len(q) \in 0 .. Len(q)
      /\ \A i \in 1 .. Len(q) : i \in 0 .. Len(q) /\ i - 1 \in 0 .. Len(q)
  BY <1>1
<1> HIDE DEF v
<1>4. Steps(v, q, n)
  BY <1>2, <1>3 DEF Steps, Admits, Taking
<1> QED BY <1>2, <1>3, <1>4 DEF Takes

\* One series after another.
LEMMA TakesJoin ==
  ASSUME NEW n, NEW x, NEW y, NEW z, NEW M, NEW p \in Seq(M), NEW q \in Seq(M),
         Takes(p, n, x, y), Takes(q, n, y, z)
  PROVE  Takes(p \o q, n, x, z)
<1>1. PICK v : v[0] = x /\ v[Len(p)] = y /\ Steps(v, p, n)
  BY DEF Takes
<1>2. PICK w : w[0] = y /\ w[Len(q)] = z /\ Steps(w, q, n)
  BY DEF Takes
<1> DEFINE r == p \o q
           h == [i \in 0 .. Len(p) + Len(q) |-> IF i <= Len(p) THEN v[i] ELSE w[i - Len(p)]]
<1>3. /\ Len(p) \in Nat /\ Len(q) \in Nat /\ Len(r) = Len(p) + Len(q)
      /\ \A i \in 1 .. Len(p) : r[i] = p[i]
      /\ \A i \in 1 .. Len(q) : r[Len(p) + i] = q[i]
  <2>1. r \in Seq(M) /\ Len(r) = Len(p) + Len(q)
    BY ConcatProperties
  <2>2. \A i \in 1 .. Len(p) + Len(q) : r[i] = IF i <= Len(p) THEN p[i] ELSE q[i - Len(p)]
    BY ConcatProperties
  <2>3. Len(p) \in Nat /\ Len(q) \in Nat
    BY LenProperties
  <2> HIDE DEF r
  <2>4. \A i \in 1 .. Len(q) : /\ Len(p) + i \in 1 .. Len(p) + Len(q) /\ ~(Len(p) + i <= Len(p))
                               /\ (Len(p) + i) - Len(p) = i
    BY <2>3
  <2>5. \A i \in 1 .. Len(q) : r[Len(p) + i] = q[i]
    BY <2>2, <2>4
  <2>6. \A i \in 1 .. Len(p) : i \in 1 .. Len(p) + Len(q) /\ i <= Len(p)
    BY <2>3
  <2>7. \A i \in 1 .. Len(p) : r[i] = p[i]
    BY <2>2, <2>6
  <2> QED BY ONLY <2>1, <2>3, <2>5, <2>7
<1>4. /\ \A i \in 0 .. Len(p) : h[i] = v[i]
      /\ \A i \in 1 .. Len(q) : h[Len(p) + i] = w[i]
  BY <1>3
<1> HIDE DEF r, h
<1>5. \A i \in 0 .. Len(q) : h[Len(p) + i] = w[i]
  <2>1. h[Len(p) + 0] = w[0]
    BY <1>1, <1>2, <1>3, <1>4
  <2>2. \A i \in 0 .. Len(q) : i = 0 \/ i \in 1 .. Len(q)
    BY <1>3
  <2> QED BY <1>4, <2>1, <2>2
<1>6. ASSUME NEW i \in 1 .. Len(r)
      PROVE  Admits(r[i], n, h[i - 1]) /\ h[i] = Taking(r[i], n, h[i - 1])
  <2>1. CASE i \in 1 .. Len(p)
    <3>1. i - 1 \in 0 .. Len(p) /\ i \in 0 .. Len(p)
      BY <1>3, <2>1
    <3> QED BY <1>1, <1>3, <1>4, <2>1, <3>1 DEF Steps
  <2>2. CASE ~(i \in 1 .. Len(p))
    <3> DEFINE k == i - Len(p)
    <3>1. k \in 1 .. Len(q) /\ k - 1 \in 0 .. Len(q) /\ k \in 0 .. Len(q)
          /\ i = Len(p) + k /\ i - 1 = Len(p) + (k - 1)
      BY <1>3, <2>2
    <3> HIDE DEF k
    <3>2. r[i] = q[k] /\ h[i] = w[k] /\ h[i - 1] = w[k - 1]
      BY <1>3, <1>5, <3>1
    <3> QED BY <1>2, <3>1, <3>2 DEF Steps
  <2> QED BY <2>1, <2>2
<1>7. h[0] = x /\ h[Len(r)] = z
  <2>1. 0 \in 0 .. Len(p) /\ Len(q) \in 0 .. Len(q)
    BY <1>3
  <2>2. h[Len(p) + Len(q)] = w[Len(q)]
    BY <1>5, <2>1
  <2>3. h[0] = v[0]
    BY <1>4, <2>1
  <2>4. h[Len(r)] = h[Len(p) + Len(q)]
    BY <1>3
  <2> QED BY <1>1, <1>2, <2>2, <2>3, <2>4
<1> QED BY <1>6, <1>7 DEF Takes, Steps, r

\* The first message, and then the rest.
LEMMA TakesRead ==
  ASSUME NEW n, NEW x, NEW z, NEW M, NEW q \in Seq(M), q # <<>>, Takes(q, n, x, z)
  PROVE  Admits(Head(q), n, x) /\ Takes(Tail(q), n, Taking(Head(q), n, x), z)
<1>1. PICK v : v[0] = x /\ v[Len(q)] = z /\ Steps(v, q, n)
  BY DEF Takes
<1> DEFINE r == Tail(q)
           h == [i \in 0 .. Len(q) - 1 |-> v[i + 1]]
<1>2. /\ Len(q) \in Nat /\ Len(q) >= 1 /\ Len(r) = Len(q) - 1 /\ Head(q) = q[1]
      /\ \A i \in 1 .. Len(r) : r[i] = q[i + 1]
  <2>1. Len(q) \in Nat /\ Len(q) >= 1
    BY EmptySeq, LenProperties
  <2>2. r \in Seq(M) /\ Len(r) = Len(q) - 1 /\ \A i \in 1 .. Len(r) : r[i] = q[i + 1]
    BY HeadTailProperties
  <2> QED BY <2>1, <2>2
<1>3. \A i \in 0 .. Len(r) : h[i] = v[i + 1]
  BY <1>2
<1> HIDE DEF r, h
<1>4. Admits(Head(q), n, x) /\ v[1] = Taking(Head(q), n, x)
  <2>1. 1 \in 1 .. Len(q) /\ 1 - 1 = 0
    BY <1>2
  <2> QED BY <1>1, <1>2, <2>1 DEF Steps
<1>5. Steps(h, r, n)
  <2> SUFFICES ASSUME NEW i \in 1 .. Len(r)
               PROVE  Admits(r[i], n, h[i - 1]) /\ h[i] = Taking(r[i], n, h[i - 1])
    BY DEF Steps
  <2>1. i + 1 \in 1 .. Len(q) /\ (i + 1) - 1 = i /\ i - 1 \in 0 .. Len(r) /\ (i - 1) + 1 = i /\ i \in 0 .. Len(r)
    BY <1>2
  <2>2. r[i] = q[i + 1] /\ h[i - 1] = v[i] /\ h[i] = v[i + 1]
    BY <1>2, <1>3, <2>1
  <2>3. Admits(q[i + 1], n, v[(i + 1) - 1]) /\ v[i + 1] = Taking(q[i + 1], n, v[(i + 1) - 1])
    BY <1>1, <2>1 DEF Steps
  <2> QED BY <2>1, <2>2, <2>3
<1>6. h[0] = v[1] /\ h[Len(r)] = v[Len(q)]
  <2>1. 0 \in 0 .. Len(r) /\ Len(r) \in 0 .. Len(r) /\ 0 + 1 = 1 /\ Len(r) + 1 = Len(q)
    BY <1>2
  <2> QED BY <1>3, <2>1
<1> QED BY <1>1, <1>4, <1>5, <1>6 DEF Takes, r

\* One series of messages after another, as synch_server() sends them.
LEMMA TakesSeries ==
  ASSUME NEW n, NEW M, NEW ss \in Seq(Seq(M)), NEW w,
         \A i \in 1 .. Len(ss) : Takes(ss[i], n, w[i - 1], w[i])
  PROVE  Takes(FlattenSeq(ss), n, w[0], w[Len(ss)])
<1>0. PICK f : /\ FlattenSeq(ss) = IF Len(ss) = 0 THEN <<>> ELSE f[Len(ss)]
               /\ \A i \in 1 .. Len(ss) :
                    /\ f[i] \in Seq(M)
                    /\ f[i] = IF i = 1 THEN ss[i] ELSE f[i - 1] \o ss[i]
  <2>1. ss \in Seq(Seq(M))
    OBVIOUS
  <2> QED BY ONLY <2>1, Parts
<1> DEFINE N == Len(ss)
<1>1. /\ FlattenSeq(ss) = IF N = 0 THEN <<>> ELSE f[N]
      /\ \A i \in 1 .. N : /\ f[i] \in Seq(M)
                           /\ f[i] = IF i = 1 THEN ss[i] ELSE f[i - 1] \o ss[i]
  BY <1>0
<1>2. N \in Nat /\ \A i \in 1 .. N : ss[i] \in Seq(M) /\ Takes(ss[i], n, w[i - 1], w[i])
  OBVIOUS
<1> HIDE DEF N
<1> DEFINE J == {k \in Nat : k + 1 <= N => Takes(f[k + 1], n, w[0], w[k + 1])}
<1>3. 0 \in J
  <2> SUFFICES ASSUME 1 <= N PROVE Takes(f[1], n, w[0], w[1])
    OBVIOUS
  <2>1. 1 \in 1 .. N /\ 1 - 1 = 0
    BY <1>2
  <2>2. f[1] = ss[1] /\ Takes(ss[1], n, w[1 - 1], w[1])
    BY <1>1, <1>2, <2>1
  <2> QED BY <2>1, <2>2
<1>4. ASSUME NEW k \in J PROVE k + 1 \in J
  <2> SUFFICES ASSUME k + 1 + 1 <= N PROVE Takes(f[k + 1 + 1], n, w[0], w[k + 1 + 1])
    OBVIOUS
  <2>0. k \in Nat
    OBVIOUS
  <2>1. PICK j \in 1 .. N : j = k + 1 + 1
    BY <1>2, <2>0
  <2>2. PICK i \in 1 .. N : i = k + 1 /\ j - 1 = i /\ j # 1 /\ k + 1 <= N
    BY <1>2, <2>0, <2>1
  <2>3. Takes(f[i], n, w[0], w[i]) /\ Takes(ss[j], n, w[i], w[j])
    BY <1>2, <2>2
  <2>4. f[j] = f[i] \o ss[j] /\ f[i] \in Seq(M) /\ ss[j] \in Seq(M)
    BY <1>1, <1>2, <2>2
  <2>5. Takes(f[j], n, w[0], w[j])
    BY <2>3, <2>4, TakesJoin
  <2> QED BY ONLY <2>1, <2>5
<1>5. J \in SUBSET Nat
  OBVIOUS
<1> HIDE DEF J
<1>6. J = Nat
  BY <1>3, <1>4, <1>5, Counting
<1> USE DEF N
<1>9. N = Len(ss)
  OBVIOUS
<1> HIDE DEF N
<1>7. CASE N = 0
  <2>1. FlattenSeq(ss) = <<>> /\ w[N] = w[0]
    BY <1>1, <1>7
  <2>2. Takes(<<>>, n, w[0], w[0])
    BY TakesNone
  <2> QED BY ONLY <1>9, <2>1, <2>2
<1>8. CASE N # 0
  <2>1. PICK k \in Nat : k + 1 = N /\ k + 1 <= N
    BY <1>2, <1>8
  <2>3. k \in J
    BY <1>6
  <2>2. Takes(f[N], n, w[0], w[N])
    BY <2>1, <2>3 DEF J
  <2>4. FlattenSeq(ss) = f[N]
    BY <1>1, <1>8
  <2> QED BY ONLY <1>9, <2>2, <2>4
<1> QED BY <1>7, <1>8

\* A QUIT for each nick of S.
LEMMA TakesGone ==
  ASSUME NEW n, NEW x, NEW S, NEW M, NEW q \in Seq(M),
         \A i \in 1 .. Len(q) : q[i].type = "QUIT" /\ q[i].nick \in S,
         \A k \in S : \E i \in 1 .. Len(q) : q[i].nick = k
  PROVE  Takes(q, n, x, IF n \in S THEN Unseen ELSE x)
<1> DEFINE P(i) == \E j \in 1 .. i : q[j].nick = n
           v == [i \in 0 .. Len(q) |-> IF P(i) THEN Unseen ELSE x]
<1>1. Len(q) \in Nat
  BY LenProperties
<1>2. \A i \in 0 .. Len(q) : v[i] = IF P(i) THEN Unseen ELSE x
  OBVIOUS
<1>3. ~P(0) /\ (P(Len(q)) <=> n \in S)
  <2>1. 1 .. 0 = {}
    OBVIOUS
  <2> QED BY <2>1
<1>4. ASSUME NEW i \in 1 .. Len(q)
      PROVE  i \in 0 .. Len(q) /\ i - 1 \in 0 .. Len(q) /\ (P(i) <=> P(i - 1) \/ q[i].nick = n)
  BY <1>1
<1>5. 0 \in 0 .. Len(q) /\ Len(q) \in 0 .. Len(q)
  BY <1>1
<1> HIDE DEF v, P
<1>6. v[0] = x /\ v[Len(q)] = IF n \in S THEN Unseen ELSE x
  BY <1>2, <1>3, <1>5
<1>7. ASSUME NEW i \in 1 .. Len(q)
      PROVE  Admits(q[i], n, v[i - 1]) /\ v[i] = Taking(q[i], n, v[i - 1])
  <2>1. q[i].type = "QUIT"
    OBVIOUS
  <2>2. v[i] = IF q[i].nick = n THEN Unseen ELSE v[i - 1]
    BY <1>2, <1>4
  <2> QED BY <2>1, <2>2 DEF Admits, Taking, News, NewsTypes
<1> QED BY <1>6, <1>7 DEF Takes, Steps

\* An enumeration names everybody once.
LEMMA OrdersOnce ==
  ASSUME NEW S \in SUBSET Nick, NEW q \in Orders(S),
         NEW i \in DOMAIN q, NEW j \in DOMAIN q, q[i] = q[j]
  PROVE  i = j
<1> DEFINE k == Cardinality(S)
<1>1. IsFiniteSet(S) /\ k \in Nat
  BY FiniteNicks, FS_Subset, FS_CardinalityType
<1>2. DOMAIN q = 1 .. k /\ q \in [1 .. k -> S] /\ \A x \in S : \E a \in 1 .. k : q[a] = x
  BY <1>1 DEF Orders
<1>3. IsFiniteSet(1 .. k) /\ Cardinality(1 .. k) = k
  BY <1>1, FS_Interval
<1>4. q \in Surjection(1 .. k, S)
  BY <1>2 DEF Surjection
<1>5. q \in Injection(1 .. k, S)
  BY <1>3, <1>4, FS_SurjSameCardinalityImpliesInj
<1> QED BY <1>2, <1>5 DEF Injection, IsInjective

\* What is told of a nick when a link comes up: uploads are not.
Synced(s, n) == IF Known(s, n) THEN [Fresh EXCEPT !.shared = ext[s][n].shared] ELSE Unseen

\* sync_user() of one entry, on a server that knows nobody there.
LEMMA TakesEntry ==
  ASSUME NEW s \in Server, NEW n \in Nick, NEW k \in Nick, Known(s, k),
         users[s][k].ts \in Nat, users[s][k].home \in Server, users[s][k].ip \in Addr,
         ext[s][k].shared \in Nat
  PROVE  /\ SyncUser(s, k) \in Seq(Mail)
         /\ k = n => Takes(SyncUser(s, k), n, Unseen, Synced(s, n))
         /\ k # n => \A x : Takes(SyncUser(s, k), n, x, x)
<1> DEFINE e == users[s][k]
           c == ext[s][k].shared
           a == LoginMsg(k, e)
           b == SharingMsg(k, c)
<1>1. /\ a \in Mail /\ a.type = "LOGIN" /\ a.nick = k
      /\ b \in Mail /\ b.type = "SHARING" /\ b.nick = k /\ b.shared = c
  BY DEF LoginMsg, SharingMsg, Mail, Message
<1>2. SyncUser(s, k) = <<a>> \o (IF c # 0 THEN <<b>> ELSE <<>>)
  BY DEF SyncUser
<1>3. <<a>> \in Seq(Mail) /\ <<b>> \in Seq(Mail) /\ <<>> \in Seq(Mail)
  BY <1>1
<1>4. ASSUME k = n PROVE Takes(SyncUser(s, k), n, Unseen, Synced(s, n))
  <2>1. Admits(a, n, Unseen) /\ Taking(a, n, Unseen) = Fresh
    BY <1>1, <1>4 DEF Admits, Taking, News, NewsTypes, Unseen
  <2>2. Takes(<<a>>, n, Unseen, Fresh)
    BY <2>1, TakesOne
  <2>3. Synced(s, n) = [Fresh EXCEPT !.shared = c]
    BY <1>4 DEF Synced
  <2> HIDE DEF a, b, c
  <2>4. CASE c = 0
    <3>1. Synced(s, n) = Fresh /\ SyncUser(s, k) = <<a>> \o <<>>
      <4>1. [Fresh EXCEPT !.shared = 0] = Fresh
        BY DEF Fresh
      <4> QED BY <1>2, <2>3, <2>4, <4>1
    <3>2. Takes(<<>>, n, Fresh, Fresh)
      BY TakesNone
    <3> QED BY <1>3, <2>2, <3>1, <3>2, TakesJoin
  <2>5. CASE c # 0
    <3>1. SyncUser(s, k) = <<a>> \o <<b>>
      BY <1>2, <2>5
    <3>4. Fresh.known
      BY DEF Fresh
    <3>5. Taking(b, n, Fresh) = [Fresh EXCEPT !.shared = c] /\ Admits(b, n, Fresh)
      BY <1>1, <1>4, <3>4 DEF Admits, Taking, News, NewsTypes
    <3>2. Admits(b, n, Fresh) /\ Taking(b, n, Fresh) = Synced(s, n)
      BY <2>3, <3>5
    <3>3. Takes(<<b>>, n, Fresh, Synced(s, n))
      BY <3>2, TakesOne
    <3> QED BY <1>3, <2>2, <3>1, <3>3, TakesJoin
  <2> QED BY <2>4, <2>5
<1>5. ASSUME k # n, NEW x PROVE Takes(SyncUser(s, k), n, x, x)
  <2>1. Admits(a, n, x) /\ Taking(a, n, x) = x /\ Admits(b, n, x) /\ Taking(b, n, x) = x
    BY <1>1, <1>5 DEF Admits, Taking, News
  <2>2. Takes(<<a>>, n, x, x) /\ Takes(<<b>>, n, x, x) /\ Takes(<<>>, n, x, x)
    <3> HIDE DEF a, b
    <3>1. Takes(<<a>>, n, x, Taking(a, n, x)) /\ Takes(<<b>>, n, x, Taking(b, n, x))
      BY <2>1, TakesOne
    <3> QED BY <2>1, <3>1, TakesNone
  <2> HIDE DEF a, b, c
  <2>3. CASE c = 0
    BY <1>2, <1>3, <2>2, <2>3, TakesJoin
  <2>4. CASE c # 0
    BY <1>2, <1>3, <2>2, <2>4, TakesJoin
  <2> QED BY <2>3, <2>4
<1>6. SyncUser(s, k) \in Seq(Mail)
  <2> HIDE DEF a, b, c
  <2>1. CASE c = 0
    BY <1>2, <1>3, <2>1, ConcatProperties
  <2>2. CASE c # 0
    BY <1>2, <1>3, <2>2, ConcatProperties
  <2> QED BY <2>1, <2>2
<1> QED BY <1>4, <1>5, <1>6

\* synch_server(), on a server that knows nobody there.
LEMMA TakesSync ==
  ASSUME NEW s \in Server, NEW n \in Nick, NEW q \in Orders(KnownAt(s)),
         ext \in [Server -> [Nick -> Counters]], Tables
  PROVE  /\ SyncUsers(s, q) \in Seq(Mail)
         /\ Takes(SyncUsers(s, q), n, Unseen, Synced(s, n))
<1>1. KnownAt(s) \in SUBSET Nick
  BY DEF KnownAt
<1>2. /\ DOMAIN q = 1 .. Cardinality(KnownAt(s)) /\ Cardinality(KnownAt(s)) \in Nat
      /\ \A i \in DOMAIN q : q[i] \in Nick /\ Known(s, q[i])
  BY <1>1, OrdersType DEF KnownAt
<1>3. \A k \in Nick : Known(s, k) => \E i \in DOMAIN q : q[i] = k
  BY <1>2 DEF Orders, KnownAt
<1>4. ASSUME NEW k \in Nick, Known(s, k)
      PROVE  /\ users[s][k].ts \in Nat /\ users[s][k].home \in Server /\ users[s][k].ip \in Addr
             /\ ext[s][k].shared \in Nat
  BY <1>4 DEF Tables, EntriesHaveHomes, Typed, Entry, Counters
<1> DEFINE ss == [i \in DOMAIN q |-> SyncUser(s, q[i])]
           P(i) == \E j \in 1 .. i : q[j] = n
           w == [i \in 0 .. Cardinality(KnownAt(s)) |-> IF P(i) THEN Synced(s, n) ELSE Unseen]
           N == Cardinality(KnownAt(s))
<1>5. ss \in Seq(Seq(Mail)) /\ Len(ss) = N /\ \A i \in 1 .. N : ss[i] = SyncUser(s, q[i])
  <2>1. \A i \in DOMAIN q : SyncUser(s, q[i]) \in Seq(Mail)
    BY <1>2, <1>4, TakesEntry
  <2> QED BY <1>2, <2>1
<1>6. \A i \in 0 .. N : w[i] = IF P(i) THEN Synced(s, n) ELSE Unseen
  OBVIOUS
<1>7. ~P(0) /\ (P(N) <=> Known(s, n))
  <2>1. 1 .. 0 = {}
    OBVIOUS
  <2> QED BY <1>2, <1>3, <2>1
<1>8. ASSUME NEW i \in 1 .. N
      PROVE  i \in 0 .. N /\ i - 1 \in 0 .. N /\ (P(i) <=> P(i - 1) \/ q[i] = n)
  BY <1>2
<1>9. ASSUME NEW i \in 1 .. N, q[i] = n PROVE ~P(i - 1)
  <2> SUFFICES ASSUME NEW j \in 1 .. i - 1, q[j] = n PROVE FALSE
    OBVIOUS
  <2>1. i \in DOMAIN q /\ j \in DOMAIN q /\ j # i
    BY <1>2
  <2> QED BY <1>1, <1>9, <2>1, OrdersOnce
<1>10. 0 \in 0 .. N /\ N \in 0 .. N
  BY <1>2
<1> HIDE DEF P, w, ss
<1>11. ASSUME NEW i \in 1 .. N PROVE Takes(ss[i], n, w[i - 1], w[i])
  <2>1. ss[i] = SyncUser(s, q[i]) /\ q[i] \in Nick /\ Known(s, q[i])
    BY <1>2, <1>5
  <2>2. PICK k \in Nick : k = q[i]
    BY <2>1
  <2>3. CASE k = n
    <3>1. w[i - 1] = Unseen /\ w[i] = Synced(s, n)
      BY <1>6, <1>8, <1>9, <2>2, <2>3
    <3> QED BY <1>4, <2>1, <2>2, <2>3, <3>1, TakesEntry
  <2>4. CASE k # n
    <3>1. w[i] = w[i - 1]
      BY <1>6, <1>8, <2>2, <2>4
    <3> QED BY <1>4, <2>1, <2>2, <2>4, <3>1, TakesEntry
  <2> QED BY <2>3, <2>4
<1>12. w[0] = Unseen /\ w[N] = Synced(s, n)
  BY <1>6, <1>7, <1>10 DEF Synced
<1> HIDE DEF N
<1>13. Takes(FlattenSeq(ss), n, w[0], w[Len(ss)])
  BY <1>5, <1>11, TakesSeries
<1>14. FlattenSeq(ss) \in Seq(Mail)
  BY <1>5, Flattening
<1>15. SyncUsers(s, q) = FlattenSeq(ss)
  BY DEF SyncUsers, ss
<1> QED BY <1>5, <1>12, <1>13, <1>14, <1>15

\* t owes its peers a report: files were shared or unshared since the last one.
Owing(t, n) == ext[t][n].sharing \/ ext[t][n].unsharing

\* z is what t itself counts of n, or fewer uploads, or files not reported yet.
Matches(z, t, n) ==
  /\ z \in Sight /\ z.known = Known(t, n) /\ z.uploads <= ext[t][n].uploads
  /\ z.shared = ext[t][n].shared \/ Owing(t, n)

\* What s has of n and what is under way from t add up to what t has.
Tells(t, s, n) == \E z : Takes(chan[t][s], n, Seen(s, n), z) /\ Matches(z, t, n)

\* News comes from the side of the nick's home; only servers kill, and only over ghosts.
Plain(m) == (m.type = "KILL" => m.by \in Server) /\ (m.type = "LOGIN" => m.home \in Home[m.nick])
Note(t, s) == {m \in Mail : m.type \in NewsTypes => m.nick \in Carried(t, s) /\ Plain(m)}
About(n)   == {m \in Mail : m.type \in NewsTypes => m.nick = n /\ Plain(m)}

\* What a server has of its own: no counts without an entry, no report owed of users of
\* others, no user killed, and entries that come from the home of their nick.
OwnEntries(s) ==
  \A n \in Nick : /\ ~Known(s, n) => ext[s][n] = NewUser
                  /\ ~Local(s, n) => ~Owing(s, n)
                  /\ Known(s, n) => users[s][n].home \in Home[n]
NobodyKilled(s) == \A c \in Conn : conn[s][c].class = "user" => ~conn[s][c].killed

\* The inductive invariant of what the peers count.
MirrorInv ==
  /\ \A s, t \in Server : LinkEnds(s, t) /\ chan[t][s] \in Seq(Note(t, s))
  /\ \A s \in Server : OwnEntries(s) /\ NobodyKilled(s)
  /\ \A s, t \in Server : Live(t, s) => \A n \in Carried(t, s) : Tells(t, s, n)

\* s reads news of n, or of nobody, and counts what it says.
Hears(s, from, n) ==
  from \in Server =>
    /\ end[s][from] = "up" /\ chan[from][s] # <<>> /\ Head(chan[from][s]) # Eof
    /\ \A k \in Nick \ {n} : ~News(Head(chan[from][s]), k)
    /\ (Live(from, s) /\ Admits(Head(chan[from][s]), n, Seen(s, n))) =>
          Seen(s, n)' = Taking(Head(chan[from][s]), n, Seen(s, n))

\* A step of s on one nick that it has, or has just read news of: the other servers are
\* told what makes of an earlier count the new one.
Noting(s, from, n, msgs) ==
  /\ UNCHANGED end
  /\ \A r \in Server \ {s} : users'[r] = users[r] /\ conn'[r] = conn[r] /\ ext'[r] = ext[r]
  /\ \A k \in Nick \ {n} : users'[s][k] = users[s][k] /\ ext'[s][k] = ext[s][k]
  /\ users'[s][n].con \in Server => users'[s][n].con \in {users[s][n].con, from}
  /\ OwnEntries(s)' /\ NobodyKilled(s)'
  /\ IF from \in Server THEN n \in Carried(from, s) ELSE s \in Home[n]
  /\ Spreads(s, from, msgs) /\ Hears(s, from, n)
  /\ \A z : Matches(z, s, n) => \E y : Takes(msgs, n, z, y) /\ Matches(y, s, n)'

\* Messages about a nick are notes where the nick is carried; queues of notes stay such.
LEMMA NoteSeqs ==
  ASSUME NEW s \in Server, NEW t \in Server
  PROVE  /\ \A p, q \in Seq(Note(t, s)) : p \o q \in Seq(Note(t, s))
         /\ \A q \in Seq(Note(t, s)) : /\ q \in Seq(Mail)
                                       /\ q # <<>> => Head(q) \in Note(t, s) /\ Tail(q) \in Seq(Note(t, s))
         /\ \A n \in Carried(t, s) : \A q \in Seq(About(n)) : q \in Seq(Note(t, s))
         /\ <<>> \in Seq(Note(t, s)) /\ \A m \in Note(t, s) : <<m>> \in Seq(Note(t, s))
<1>1. Note(t, s) \subseteq Mail /\ \A n \in Carried(t, s) : About(n) \subseteq Note(t, s)
  BY DEF Note, About
<1>2. \A p, q \in Seq(Note(t, s)) : p \o q \in Seq(Note(t, s))
  BY ConcatProperties
<1>3. \A q \in Seq(Note(t, s)) : q # <<>> => Head(q) \in Note(t, s) /\ Tail(q) \in Seq(Note(t, s))
  BY HeadTailProperties
<1> HIDE DEF Note, About, Mail
<1>4. \A A : \A B : A \subseteq B => Seq(A) \subseteq Seq(B)
  OBVIOUS
<1>5. \A q \in Seq(Note(t, s)) : q \in Seq(Mail)
  BY <1>1, <1>4
<1>6. \A n \in Carried(t, s) : \A q \in Seq(About(n)) : q \in Seq(Note(t, s))
  BY <1>1, <1>4
<1>7. <<>> \in Seq(Note(t, s)) /\ \A m \in Note(t, s) : <<m>> \in Seq(Note(t, s))
  OBVIOUS
<1> QED BY <1>2, <1>3, <1>5, <1>6, <1>7

\* A step that leaves an entry alone leaves what is seen of it, and what it matches.
LEMMA SeenStays ==
  ASSUME NEW s, NEW n, users'[s][n] = users[s][n], ext'[s][n] = ext[s][n]
  PROVE  Seen(s, n)' = Seen(s, n) /\ \A z : Matches(z, s, n) => Matches(z, s, n)'
BY DEF Seen, Matches, Known, Owing

\* The two ends of every link after a step of that kind.
LEMMA NotingLinks ==
  ASSUME OneHome, FilesInv, MirrorInv, NEW s \in Server, NEW from \in Server \cup {None}, NEW n \in Nick,
         NEW msgs \in Seq(About(n)), Noting(s, from, n, msgs), NEW a \in Server, NEW b \in Server
  PROVE  LinkEnds(a, b)' /\ chan'[b][a] \in Seq(Note(b, a))
<1>1. LinkEnds(a, b) /\ chan[b][a] \in Seq(Note(b, a)) /\ chan[b][a] \in Seq(Mail)
  BY NoteSeqs DEF MirrorInv
<1>2. Spreads(s, from, msgs) /\ Hears(s, from, n) /\ UNCHANGED end
  BY DEF Noting
<1>3. chan'[b][a] = IF b = s /\ a \in Servers(s) \ {from} /\ end[a][s] # "down"
                    THEN chan[s][a] \o msgs
                    ELSE IF b = from /\ a = s THEN Tail(chan[from][s]) ELSE chan[b][a]
  BY <1>2 DEF Spreads
<1>4. chan'[a][b] = IF a = s /\ b \in Servers(s) \ {from} /\ end[b][s] # "down"
                    THEN chan[s][b] \o msgs
                    ELSE IF a = from /\ b = s THEN Tail(chan[from][s]) ELSE chan[a][b]
  BY <1>2 DEF Spreads
<1>5. b = from /\ a = s => end[a][b] = "up" /\ chan[b][a] # <<>> /\ Head(chan[b][a]) # Eof
  BY <1>2 DEF Hears
<1>6. b \in Servers(a) <=> end[a][b] \in {"up", "dying"}
  BY DEF Servers
<1>7. a \in Servers(b) <=> end[b][a] \in {"up", "dying"}
  BY DEF Servers
<1>8. end[a][b] = "down" => chan'[b][a] = <<>>
  BY <1>1, <1>3, <1>5 DEF LinkEnds
<1>9. end[a][b] = "pending" => chan'[a][b] = <<>>
  <2> SUFFICES ASSUME end[a][b] = "pending" PROVE chan'[a][b] = <<>>
    OBVIOUS
  <2>1. chan[a][b] = <<>>
    BY <1>1 DEF LinkEnds
  <2>2. ~(a = from /\ b = s)
    BY <1>2, <2>1 DEF Hears
  <2> QED BY <1>4, <1>6, <2>1, <2>2
<1>10. ASSUME end[a][b] = "pending", NEW k \in Nick PROVE users'[b][k].con # a
  <2>1. chan[a][b] = <<>> /\ users[b][k].con # a
    BY <1>1, <1>10 DEF LinkEnds
  <2>2. ~(a = from /\ b = s)
    BY <1>2, <2>1 DEF Hears
  <2>3. CASE b # s \/ k # n
    <3>1. users'[b][k] = users[b][k]
      BY <2>3 DEF Noting
    <3> QED BY <2>1, <3>1
  <2>4. CASE b = s /\ k = n
    <3>1. users'[b][k].con \in Server => users'[b][k].con \in {users[b][k].con, from}
      BY <2>4 DEF Noting
    <3> QED BY <2>1, <2>2, <2>4, <3>1
  <2> QED BY <2>3, <2>4
<1>11. ASSUME end[b][a] = "down", end[a][b] \in {"up", "pending"} PROVE HasEof(chan'[b][a])
  <2>1. HasEof(chan[b][a])
    BY <1>1, <1>11 DEF LinkEnds
  <2>2. chan'[b][a] = Tail(chan[b][a]) \/ chan'[b][a] = chan[b][a]
    BY <1>3, <1>7, <1>11
  <2>3. CASE b = from /\ a = s
    <3>1. HasEof(Tail(chan[b][a]))
      BY <1>1, <1>5, <2>1, <2>3, EofStays
    <3> QED BY <2>1, <2>2, <3>1
  <2>4. CASE ~(b = from /\ a = s)
    <3>1. chan'[b][a] = chan[b][a]
      BY <1>3, <1>7, <1>11, <2>4
    <3> QED BY <2>1, <3>1
  <2> QED BY <2>3, <2>4
<1>12. end'[a][b] = end[a][b] /\ end'[b][a] = end[b][a]
  BY <1>2
<1>13. LinkEnds(a, b)'
  BY <1>1, <1>8, <1>9, <1>10, <1>11, <1>12 DEF LinkEnds, HasEof
<1>14. chan'[b][a] \in Seq(Note(b, a))
  <2>1. CASE b = s /\ a \in Servers(s) \ {from} /\ end[a][s] # "down"
    <3>1. n \in Carried(s, a)
      <4>1. a \in Edge[s] \ {from}
        BY <2>1 DEF FilesInv, Tables, Servers
      <4>2. IF from \in Server THEN n \in Carried(from, s) ELSE s \in Home[n]
        BY DEF Noting
      <4> QED BY <4>1, <4>2, Carrying DEF OneWay
    <3>2. msgs \in Seq(Note(b, a))
      BY <2>1, <3>1, NoteSeqs
    <3> QED BY <1>1, <1>3, <2>1, <3>2, NoteSeqs
  <2>2. CASE b = from /\ a = s
    <3>1. Tail(chan[b][a]) \in Seq(Note(b, a))
      BY <1>1, <1>5, <2>2, NoteSeqs
    <3>2. chan'[b][a] = Tail(chan[b][a]) \/ b = s
      BY <1>3, <2>2
    <3>3. b # s
      <4>1. from \in Edge[s]
        BY <1>5, <2>2 DEF FilesInv, Tables
      <4> QED BY <2>2, <4>1, Carrying DEF OneWay
    <3> QED BY <3>1, <3>2, <3>3
  <2>3. CASE ~(b = s /\ a \in Servers(s) \ {from} /\ end[a][s] # "down") /\ ~(b = from /\ a = s)
    BY <1>1, <1>3, <2>3
  <2> QED BY <2>1, <2>2, <2>3
<1> QED BY <1>13, <1>14

\* What the other end has and what is under way, after a step of that kind.
LEMMA NotingTells ==
  ASSUME OneHome, FilesInv, MirrorInv, NEW s \in Server, NEW from \in Server \cup {None}, NEW n \in Nick,
         NEW msgs \in Seq(About(n)), Noting(s, from, n, msgs),
         NEW a \in Server, NEW b \in Server, Live(a, b), NEW k \in Carried(a, b)
  PROVE  Tells(a, b, k)'
<1>1. /\ chan[a][b] \in Seq(Mail) /\ msgs \in Seq(Mail) /\ None \notin Server
      /\ b \in Edge[a] /\ a \in Edge[b] /\ a # b /\ k \in Nick
  <2>1. chan[a][b] \in Seq(Mail) /\ LinkEnds(a, b) /\ LinkEnds(b, a)
    BY NoteSeqs DEF MirrorInv
  <2>2. b \in Edge[a] /\ a \in Edge[b]
    BY <2>1 DEF LinkEnds, Live
  <2>3. a # b
    BY <2>2, Carrying DEF OneWay
  <2>4. msgs \in Seq(Mail)
    <3>1. About(n) \subseteq Mail
      BY DEF About
    <3> HIDE DEF Mail, About
    <3> QED BY <3>1
  <2> QED BY <2>1, <2>2, <2>3, <2>4, DisjointNames DEF Carried
<1>2. PICK z : Takes(chan[a][b], k, Seen(b, k), z) /\ Matches(z, a, k)
  BY DEF MirrorInv, Tells
<1>3. Spreads(s, from, msgs) /\ Hears(s, from, n) /\ UNCHANGED end
  BY DEF Noting
<1>4. ASSUME NEW r \in Server, r # s \/ k # n
      PROVE  Seen(r, k)' = Seen(r, k) /\ (Matches(z, r, k) => Matches(z, r, k)')
  <2>1. users'[r][k] = users[r][k] /\ ext'[r][k] = ext[r][k]
    BY <1>1, <1>4 DEF Noting
  <2> QED BY <2>1, SeenStays
<1>5. ASSUME NEW x, NEW y, Seen(b, k)' = x, Matches(y, a, k)', Takes(chan'[a][b], k, x, y)
      PROVE  Tells(a, b, k)'
  BY <1>5 DEF Tells
<1>6. k # n => \A x : Takes(msgs, k, x, x)
  <2> SUFFICES ASSUME k # n, NEW x PROVE Takes(msgs, k, x, x)
    OBVIOUS
  <2>1. ASSUME NEW i \in 1 .. Len(msgs) PROVE ~News(msgs[i], k)
    <3>1. msgs[i] \in About(n)
      OBVIOUS
    <3> QED BY <3>1 DEF About, News
  <2> QED BY <2>1, TakesOthers
<1>7. CASE a = s /\ b # from
  <2>1. b \in Servers(s) /\ end[b][s] # "down"
    BY <1>7 DEF Live, Servers
  <2>2. chan'[a][b] = chan[a][b] \o msgs
    BY <1>3, <1>7, <2>1 DEF Spreads
  <2>3. Seen(b, k)' = Seen(b, k)
    BY <1>1, <1>4, <1>7
  <2>4. PICK y : Takes(msgs, k, z, y) /\ Matches(y, a, k)'
    <3>1. CASE k = n
      BY <1>2, <1>7, <3>1 DEF Noting
    <3>2. CASE k # n
      BY <1>2, <1>4, <1>6, <3>2
    <3> QED BY <3>1, <3>2
  <2>5. Takes(chan[a][b] \o msgs, k, Seen(b, k), y)
    BY <1>1, <1>2, <2>4, TakesJoin
  <2> QED BY <1>5, <2>2, <2>3, <2>4, <2>5
<1>8. CASE a = s /\ b = from
  <2>1. chan'[a][b] = chan[a][b]
    BY <1>1, <1>3, <1>8 DEF Spreads
  <2>2. k # n
    <3>1. n \in Carried(b, a)
      BY <1>8 DEF Noting
    <3> QED BY <3>1, Carrying DEF OneWay
  <2> QED BY <1>2, <1>4, <1>5, <2>1, <2>2
<1>9. CASE b = s /\ a = from
  <2> DEFINE m == Head(chan[a][b])
  <2>1. chan'[a][b] = Tail(chan[a][b]) /\ chan[a][b] # <<>>
    BY <1>1, <1>3, <1>9 DEF Spreads, Hears
  <2>2. Admits(m, k, Seen(b, k)) /\ Takes(Tail(chan[a][b]), k, Taking(m, k, Seen(b, k)), z)
    BY <1>1, <1>2, <2>1, TakesRead
  <2>3. Seen(b, k)' = Taking(m, k, Seen(b, k))
    <3>1. CASE k = n
      BY <1>3, <1>9, <2>2, <3>1 DEF Hears
    <3>2. CASE k # n
      <4>1. ~News(m, k)
        BY <1>1, <1>3, <1>9, <3>2 DEF Hears
      <4> QED BY <1>4, <3>2, <4>1 DEF Taking
    <3> QED BY <3>1, <3>2
  <2>4. Matches(z, a, k)'
    BY <1>1, <1>2, <1>4, <1>9
  <2> QED BY <1>5, <2>1, <2>2, <2>3, <2>4
<1>10. CASE b = s /\ a # from
  <2>1. chan'[a][b] = chan[a][b]
    BY <1>1, <1>3, <1>10 DEF Spreads
  <2>2. k # n
    <3>1. IF from \in Server THEN n \in Carried(from, b) ELSE b \in Home[n]
      BY <1>10 DEF Noting
    <3>2. n \notin Carried(a, b)
      BY <1>1, <1>10, <3>1, Carrying DEF OneWay
    <3> QED BY <3>2
  <2> QED BY <1>2, <1>4, <1>5, <2>1, <2>2
<1>11. CASE a # s /\ b # s
  <2>1. chan'[a][b] = chan[a][b]
    BY <1>3, <1>11 DEF Spreads
  <2> QED BY <1>2, <1>4, <1>5, <1>11, <2>1
<1> QED BY <1>7, <1>8, <1>9, <1>10, <1>11

\* Every step of that kind keeps the invariant.
LEMMA NotingKeeps ==
  ASSUME OneHome, FilesInv, MirrorInv, NEW s \in Server, NEW from \in Server \cup {None}, NEW n \in Nick,
         NEW msgs \in Seq(About(n)), Noting(s, from, n, msgs)
  PROVE  MirrorInv'
<1>1. \A a, b \in Server : LinkEnds(a, b)' /\ chan'[b][a] \in Seq(Note(b, a))
  BY NotingLinks
<1>2. ASSUME NEW a \in Server PROVE OwnEntries(a)' /\ NobodyKilled(a)'
  <2>1. CASE a = s
    BY <2>1 DEF Noting
  <2>2. CASE a # s
    <3>1. users'[a] = users[a] /\ conn'[a] = conn[a] /\ ext'[a] = ext[a]
      BY <2>2 DEF Noting
    <3>2. OwnEntries(a) /\ NobodyKilled(a)
      BY DEF MirrorInv
    <3> QED BY <3>1, <3>2 DEF OwnEntries, NobodyKilled, Known, Local, Owing
  <2> QED BY <2>1, <2>2
<1>3. ASSUME NEW a \in Server, NEW b \in Server, Live(a, b)', NEW k \in Carried(a, b) PROVE Tells(a, b, k)'
  <2>1. Live(a, b)
    BY <1>3 DEF Live, Noting
  <2> QED BY <2>1, NotingTells
<1>4. \A a, b \in Server : Carried(a, b)' = Carried(a, b) /\ Note(a, b)' = Note(a, b)
  BY DEF Carried, Note, Plain
<1> QED BY <1>1, <1>2, <1>3, <1>4 DEF MirrorInv

\* What is counted is told apart by its fields, and each field may change alone.
LEMMA Sights ==
  /\ Unseen \in Sight /\ Fresh \in Sight
  /\ ~Unseen.known /\ Unseen.shared = 0 /\ Unseen.uploads = 0
  /\ Fresh.known /\ Fresh.shared = 0 /\ Fresh.uploads = 0
  /\ \A x, y \in Sight :
       x.known = y.known /\ x.shared = y.shared /\ x.uploads = y.uploads => x = y
  /\ \A x \in Sight, k \in Nat :
       LET y == [x EXCEPT !.shared = k]
           z == [x EXCEPT !.uploads = k]
       IN  /\ y \in Sight /\ y.shared = k /\ y.known = x.known /\ y.uploads = x.uploads
           /\ z \in Sight /\ z.shared = x.shared /\ z.known = x.known /\ z.uploads = k
<1>1. /\ Unseen \in Sight /\ Fresh \in Sight
      /\ ~Unseen.known /\ Unseen.shared = 0 /\ Unseen.uploads = 0
      /\ Fresh.known /\ Fresh.shared = 0 /\ Fresh.uploads = 0
  BY DEF Sight, Unseen, Fresh
<1>2. ASSUME NEW x \in Sight, NEW y \in Sight,
             x.known = y.known, x.shared = y.shared, x.uploads = y.uploads
      PROVE  x = y
  BY <1>2 DEF Sight
<1>3. ASSUME NEW x \in Sight, NEW k \in Nat
      PROVE  LET y == [x EXCEPT !.shared = k]
             IN  y \in Sight /\ y.shared = k /\ y.known = x.known /\ y.uploads = x.uploads
  BY DEF Sight
<1>4. ASSUME NEW x \in Sight, NEW k \in Nat
      PROVE  LET z == [x EXCEPT !.uploads = k]
             IN  z \in Sight /\ z.shared = x.shared /\ z.known = x.known /\ z.uploads = k
  BY DEF Sight
<1> QED BY <1>1, <1>2, <1>3, <1>4

LEMMA SightsSame ==
  ASSUME NEW x \in Sight, NEW y \in Sight,
         x.known = y.known, x.shared = y.shared, x.uploads = y.uploads
  PROVE  x = y
BY DEF Sight

\* What s sees of n, now and after a step.
LEMMA SeenNow ==
  ASSUME NEW s, NEW n, ext[s][n] \in Counters
  PROVE  /\ Seen(s, n) \in Sight /\ Seen(s, n).known = Known(s, n)
         /\ Seen(s, n).shared = ext[s][n].shared /\ Seen(s, n).uploads = ext[s][n].uploads
         /\ ext[s][n] = NewUser => Seen(s, n) = IF Known(s, n) THEN Fresh ELSE Unseen
<1>1. /\ Seen(s, n) \in Sight /\ Seen(s, n).known = Known(s, n)
      /\ Seen(s, n).shared = ext[s][n].shared /\ Seen(s, n).uploads = ext[s][n].uploads
  BY DEF Seen, Sight, Known, Counters
<1>2. NewUser.shared = 0 /\ NewUser.uploads = 0
  BY DEF NewUser
<1>3. ASSUME ext[s][n] = NewUser, Known(s, n) PROVE Seen(s, n) = Fresh
  <2>1. ext[s][n].shared = 0 /\ ext[s][n].uploads = 0 /\ Known(s, n) = TRUE
    BY <1>2, <1>3 DEF Known
  <2> QED BY <2>1 DEF Seen, Fresh
<1>4. ASSUME ext[s][n] = NewUser, ~Known(s, n) PROVE Seen(s, n) = Unseen
  <2>1. ext[s][n].shared = 0 /\ ext[s][n].uploads = 0 /\ Known(s, n) = FALSE
    BY <1>2, <1>4 DEF Known
  <2> QED BY <2>1 DEF Seen, Unseen
<1> QED BY <1>1, <1>3, <1>4

LEMMA SeenNext ==
  ASSUME NEW s, NEW n, ext'[s][n] \in Counters
  PROVE  /\ Seen(s, n)' \in Sight /\ Seen(s, n)'.known = Known(s, n)'
         /\ Seen(s, n)'.shared = ext'[s][n].shared /\ Seen(s, n)'.uploads = ext'[s][n].uploads
         /\ ext'[s][n] = NewUser => Seen(s, n)' = IF Known(s, n)' THEN Fresh ELSE Unseen
<1>1. /\ Seen(s, n)' \in Sight /\ Seen(s, n)'.known = Known(s, n)'
      /\ Seen(s, n)'.shared = ext'[s][n].shared /\ Seen(s, n)'.uploads = ext'[s][n].uploads
  BY DEF Seen, Sight, Known, Counters
<1>2. NewUser.shared = 0 /\ NewUser.uploads = 0
  BY DEF NewUser
<1>3. ASSUME ext'[s][n] = NewUser, Known(s, n)' PROVE Seen(s, n)' = Fresh
  <2>1. ext'[s][n].shared = 0 /\ ext'[s][n].uploads = 0 /\ Known(s, n)' = TRUE
    BY <1>2, <1>3 DEF Known
  <2> QED BY <2>1 DEF Seen, Fresh
<1>4. ASSUME ext'[s][n] = NewUser, ~Known(s, n)' PROVE Seen(s, n)' = Unseen
  <2>1. ext'[s][n].shared = 0 /\ ext'[s][n].uploads = 0 /\ Known(s, n)' = FALSE
    BY <1>2, <1>4 DEF Known
  <2> QED BY <2>1 DEF Seen, Unseen
<1> QED BY <1>1, <1>3, <1>4

\* What each message on a nick makes of x.
LEMMA NewsTaken ==
  ASSUME NEW n, NEW m, m.nick = n, NEW x \in Sight
  PROVE  /\ m.type \in {"QUIT", "KILL"} => Admits(m, n, x) /\ Taking(m, n, x) = Unseen
         /\ m.type = "LOGIN" => Taking(m, n, x) = Fresh /\ (Admits(m, n, x) <=> ~x.known)
         /\ m.type \in {"SHARING", "START", "END"} =>
              Admits(m, n, x) /\ (~x.known => Taking(m, n, x) = x)
         /\ m.type = "SHARING" /\ x.known => Taking(m, n, x) = [x EXCEPT !.shared = m.shared]
         /\ m.type \in {"START", "END"} /\ x.known =>
              Taking(m, n, x) = [x EXCEPT !.uploads = Tally(x.uploads, m.type)]
<1>1. m.type \in {"QUIT", "KILL"} => Admits(m, n, x) /\ Taking(m, n, x) = Unseen
  BY DEF Admits, Taking, News, NewsTypes
<1>2. m.type = "LOGIN" => Taking(m, n, x) = Fresh /\ (Admits(m, n, x) <=> ~x.known)
  BY DEF Admits, Taking, News, NewsTypes
<1>3. m.type \in {"SHARING", "START", "END"} => Admits(m, n, x) /\ (~x.known => Taking(m, n, x) = x)
  BY DEF Admits, Taking, News, NewsTypes
<1>4. m.type = "SHARING" /\ x.known => Taking(m, n, x) = [x EXCEPT !.shared = m.shared]
  BY DEF Taking, News, NewsTypes
<1>5. m.type \in {"START", "END"} /\ x.known =>
              Taking(m, n, x) = [x EXCEPT !.uploads = Tally(x.uploads, m.type)]
  BY DEF Taking, News, NewsTypes
<1> QED BY <1>1, <1>2, <1>3, <1>4, <1>5

\* The messages that are sent about a nick.
LEMMA AboutMade ==
  ASSUME NEW n \in Nick
  PROVE  /\ QuitMsg(n) \in About(n) /\ QuitMsg(n).type = "QUIT" /\ QuitMsg(n).nick = n
         /\ \A s \in Server : /\ KillMsg(s, n) \in About(n)
                              /\ KillMsg(s, n).type = "KILL" /\ KillMsg(s, n).nick = n
         /\ \A what \in {"START", "END"} :
              /\ UploadMsg(what, n) \in About(n)
              /\ UploadMsg(what, n).type = what /\ UploadMsg(what, n).nick = n
         /\ \A k \in Nat : /\ SharingMsg(n, k) \in About(n) /\ SharingMsg(n, k).shared = k
                           /\ SharingMsg(n, k).type = "SHARING" /\ SharingMsg(n, k).nick = n
         /\ \A e : (e.ts \in Nat /\ e.home \in Server /\ e.ip \in Addr /\ e.home \in Home[n]) =>
              /\ LoginMsg(n, e) \in About(n)
              /\ LoginMsg(n, e).type = "LOGIN" /\ LoginMsg(n, e).nick = n
<1>1. QuitMsg(n) \in About(n) /\ QuitMsg(n).type = "QUIT" /\ QuitMsg(n).nick = n
  BY DEF QuitMsg, About, Plain, Mail, Message
<1>2. ASSUME NEW s \in Server
      PROVE  KillMsg(s, n) \in About(n) /\ KillMsg(s, n).type = "KILL" /\ KillMsg(s, n).nick = n
  BY DEF KillMsg, About, Plain, Mail, Message
<1>3. ASSUME NEW what \in {"START", "END"}
      PROVE  /\ UploadMsg(what, n) \in About(n)
             /\ UploadMsg(what, n).type = what /\ UploadMsg(what, n).nick = n
  BY DEF UploadMsg, About, Plain, Mail
<1>4. ASSUME NEW k \in Nat
      PROVE  /\ SharingMsg(n, k) \in About(n) /\ SharingMsg(n, k).shared = k
             /\ SharingMsg(n, k).type = "SHARING" /\ SharingMsg(n, k).nick = n
  BY DEF SharingMsg, About, Plain, Mail
<1>5. ASSUME NEW e, e.ts \in Nat, e.home \in Server, e.ip \in Addr, e.home \in Home[n]
      PROVE  /\ LoginMsg(n, e) \in About(n)
             /\ LoginMsg(n, e).type = "LOGIN" /\ LoginMsg(n, e).nick = n
  BY <1>5 DEF LoginMsg, About, Plain, Mail, Message
<1> QED BY <1>1, <1>2, <1>3, <1>4, <1>5

\* Where messages go, read from a link or not.
LEMMA PassesOn ==
  ASSUME Posts(chan), NEW s \in Server, NEW t \in Server, NEW msgs
  PROVE  /\ chan' = PassOn(chan, s, None, msgs) => Spreads(s, None, msgs)
         /\ s # t /\ chan' = PassOn(Received(t, s), s, t, msgs) => Spreads(s, t, msgs)
         /\ s # t /\ chan' = Received(t, s) => Spreads(s, t, <<>>)
<1>1. chan \in [Server -> [Server -> Seq(Mail)]] /\ None \notin Server
  BY DisjointNames DEF Posts
<1>2. \A r, u \in Server : Received(t, s)[r][u] = IF r = t /\ u = s THEN Tail(chan[t][s]) ELSE chan[r][u]
  BY <1>1 DEF Received
<1>3. \A r, u \in Server : PassOn(chan, s, None, msgs)[r][u] =
        IF r = s /\ u \in Servers(s) \ {None} /\ end[u][s] # "down" THEN chan[s][u] \o msgs ELSE chan[r][u]
  BY <1>1 DEF PassOn
<1>4. \A r, u \in Server : PassOn(Received(t, s), s, t, msgs)[r][u] =
        IF r = s /\ u \in Servers(s) \ {t} /\ end[u][s] # "down" THEN Received(t, s)[s][u] \o msgs
        ELSE Received(t, s)[r][u]
  <2>1. Received(t, s) = [r \in Server |-> Received(t, s)[r]]
    BY <1>1 DEF Received
  <2> QED BY <2>1 DEF PassOn
<1>5. \A u \in Server : chan[s][u] \o <<>> = chan[s][u]
  BY <1>1, ConcatEmptySeq
<1>6. chan' = PassOn(chan, s, None, msgs) => Spreads(s, None, msgs)
  BY <1>1, <1>3 DEF Spreads
<1>7. s # t /\ chan' = PassOn(Received(t, s), s, t, msgs) => Spreads(s, t, msgs)
  BY <1>2, <1>4 DEF Spreads
<1>8. s # t /\ chan' = Received(t, s) => Spreads(s, t, <<>>)
  BY <1>2, <1>5 DEF Spreads
<1> QED BY <1>6, <1>7, <1>8

\* What the handlers start from: the invariants, and what ext is after the step.
Ready ==
  /\ FilesInv /\ MirrorInv /\ ext' \in [Server -> [Nick -> Counters]]

\* An entry that comes or goes begins with no counts.
LEMMA EntryTurns ==
  ASSUME Ready, Release, NEW s \in Server, NEW n \in Nick, NEW e \in Entry,
         users' = [users EXCEPT ![s][n] = e], e # users[s][n],
         e.con # None => e.home \in Home[n]
  PROVE  /\ \A r \in Server \ {s} : users'[r] = users[r] /\ ext'[r] = ext[r]
         /\ \A k \in Nick \ {n} : users'[s][k] = users[s][k] /\ ext'[s][k] = ext[s][k]
         /\ users'[s][n] = e /\ OwnEntries(s)'
         /\ e.con = None => Seen(s, n)' = Unseen /\ Matches(Unseen, s, n)'
         /\ e.con # None => Seen(s, n)' = Fresh /\ Matches(Fresh, s, n)'
<1>1. \A r \in Server, k \in Nick : users'[r][k] = IF r = s /\ k = n THEN e ELSE users[r][k]
  BY DEF Ready, FilesInv, Tables, Typed
<1>2. \A r \in Server, k \in Nick : ext'[r][k] = IF r = s /\ k = n THEN NewUser ELSE ext[r][k]
  BY <1>1 DEF Release, Changed
<1>3. \A r \in Server \ {s} : users'[r] = users[r] /\ ext'[r] = ext[r]
  <2>1. users' \in [Server -> [Nick -> Entry]] /\ users \in [Server -> [Nick -> Entry]]
    BY DEF Ready, FilesInv, Tables, Typed
  <2>2. ext' \in [Server -> [Nick -> Counters]] /\ ext \in [Server -> [Nick -> Counters]]
    BY DEF Ready, FilesInv, Tallied
  <2>3. \A r \in Server \ {s} : users'[r] = users[r]
    BY <1>1, <2>1
  <2>4. \A r \in Server \ {s} : ext'[r] = ext[r]
    BY <1>2, <2>2
  <2> QED BY <2>3, <2>4
<1>4. users'[s][n] = e /\ ext'[s][n] = NewUser
  BY <1>1, <1>2
<1>5. ~NewUser.sharing /\ ~NewUser.unsharing /\ NewUser.shared = 0 /\ NewUser.uploads = 0
  BY DEF NewUser
<1>6. OwnEntries(s)'
  <2> SUFFICES ASSUME NEW k \in Nick
               PROVE  /\ ~Known(s, k)' => ext'[s][k] = NewUser
                      /\ ~Local(s, k)' => ~Owing(s, k)'
                      /\ Known(s, k)' => users'[s][k].home \in Home[k]
    BY DEF OwnEntries
  <2>1. CASE k = n
    BY <1>4, <1>5, <2>1 DEF Known, Owing
  <2>2. CASE k # n
    <3>1. users'[s][k] = users[s][k] /\ ext'[s][k] = ext[s][k]
      BY <1>1, <1>2, <2>2
    <3>2. /\ ~Known(s, k) => ext[s][k] = NewUser
          /\ ~Local(s, k) => ~Owing(s, k)
          /\ Known(s, k) => users[s][k].home \in Home[k]
      BY DEF Ready, MirrorInv, OwnEntries
    <3> QED BY <3>1, <3>2 DEF Known, Local, Owing
  <2> QED BY <2>1, <2>2
<1>7. Known(s, n)' <=> e.con # None
  BY <1>4 DEF Known
<1>8. ext'[s][n] \in Counters
  BY DEF Ready
<1>9. Seen(s, n)' = IF Known(s, n)' THEN Fresh ELSE Unseen
  BY <1>4, <1>8, SeenNext
<1>10. ASSUME NEW x \in {Fresh, Unseen}, Known(s, n)' <=> x = Fresh PROVE Matches(x, s, n)'
  <2>1. x \in Sight /\ x.shared = 0 /\ x.uploads = 0 /\ x.known = Known(s, n)'
    <3>1. Fresh # Unseen /\ Known(s, n)' \in BOOLEAN
      BY Sights DEF Known
    <3>2. CASE x = Fresh
      BY <1>10, <3>2 DEF Sight, Fresh, Known
    <3>3. CASE x = Unseen
      BY <1>10, <3>1, <3>3 DEF Sight, Unseen, Known
    <3> QED BY <3>2, <3>3
  <2> QED BY <1>4, <1>5, <2>1 DEF Matches
<1>11. Fresh # Unseen
  BY Sights
<1>12. (Known(s, n)' => Matches(Fresh, s, n)') /\ (~Known(s, n)' => Matches(Unseen, s, n)')
  BY <1>10, <1>11
<1> QED BY <1>1, <1>2, <1>3, <1>4, <1>6, <1>7, <1>9, <1>12

\* Steps that change no entry change no count but by commands.
LEMMA EntriesStay ==
  ASSUME Ready, Release, UNCHANGED users
  PROVE  ext' = ext
<1>1. \A r \in Server, k \in Nick : ext'[r][k] = ext[r][k]
  BY DEF Release, Changed
<1>2. ext' \in [Server -> [Nick -> Counters]] /\ ext \in [Server -> [Nick -> Counters]]
  BY DEF Ready, FilesInv, Tallied
<1> QED BY <1>1, <1>2

\* Nothing changes that the peers count.
LEMMA StillKeeps ==
  ASSUME MirrorInv, UNCHANGED <<users, ext, end, chan>>,
         \A s \in Server, c \in Conn : (conn'[s][c].class = "user" /\ conn'[s][c].killed) =>
                                         conn[s][c].class = "user" /\ conn[s][c].killed
  PROVE  MirrorInv'
<1>1. \A s, t \in Server : LinkEnds(s, t)' /\ chan'[t][s] \in Seq(Note(t, s))
  BY DEF MirrorInv, LinkEnds, HasEof
<1>2. \A s \in Server : OwnEntries(s)' /\ NobodyKilled(s)'
  BY DEF MirrorInv, OwnEntries, NobodyKilled, Known, Local, Owing
<1>3. ASSUME NEW s \in Server, NEW t \in Server, Live(t, s)', NEW n \in Carried(t, s) PROVE Tells(t, s, n)'
  <2>1. Live(t, s)
    BY <1>3 DEF Live
  <2>2. PICK z : Takes(chan[t][s], n, Seen(s, n), z) /\ Matches(z, t, n)
    BY <2>1 DEF MirrorInv, Tells
  <2>3. Seen(s, n)' = Seen(s, n) /\ Matches(z, t, n)'
    BY <2>2, SeenStays
  <2> QED BY <2>2, <2>3 DEF Tells
<1>4. \A a, b \in Server : Carried(a, b)' = Carried(a, b) /\ Note(a, b)' = Note(a, b)
  BY DEF Carried, Note, Plain
<1> QED BY <1>1, <1>2, <1>3, <1>4 DEF MirrorInv

\* One or two messages about a nick, one after the other.
LEMMA TakesNews ==
  ASSUME NEW n, NEW x, NEW y, NEW z, NEW a \in About(n), NEW b \in About(n),
         Admits(a, n, x), y = Taking(a, n, x), Admits(b, n, y), z = Taking(b, n, y)
  PROVE  /\ <<a>> \in Seq(About(n)) /\ Takes(<<a>>, n, x, y)
         /\ <<a>> \o <<b>> \in Seq(About(n)) /\ Takes(<<a>> \o <<b>>, n, x, z)
<1>1. Takes(<<a>>, n, x, y) /\ Takes(<<b>>, n, y, z)
  BY TakesOne
<1> HIDE DEF About
<1>2. <<a>> \in Seq(About(n)) /\ <<b>> \in Seq(About(n))
  OBVIOUS
<1>3. <<a>> \o <<b>> \in Seq(About(n))
  BY <1>2, ConcatProperties
<1>4. Takes(<<a>> \o <<b>>, n, x, z)
  BY <1>1, <1>2, TakesJoin
<1> QED BY <1>1, <1>2, <1>3, <1>4

\* The message that s reads from t, if it is news.
LEMMA ReadNews ==
  ASSUME OneHome, Ready, NEW s \in Server, NEW t \in Server, end[s][t] = "up", chan[t][s] # <<>>,
         Head(chan[t][s]).type \in NewsTypes
  PROVE  LET m == Head(chan[t][s])
             n == m.nick
         IN  /\ m \in Mail /\ n \in Nick /\ n \in Carried(t, s) /\ Plain(m) /\ m \in About(n)
             /\ m # Eof /\ \A k \in Nick \ {n} : ~News(m, k)
             /\ t \in Edge[s] /\ s # t /\ ~Local(s, n) /\ (Known(s, n) => users[s][n].con = t)
<1> DEFINE m == Head(chan[t][s])
           n == m.nick
<1>1. chan[t][s] \in Seq(Note(t, s)) /\ LinkEnds(s, t)
  BY DEF Ready, MirrorInv
<1>2. m \in Note(t, s)
  BY <1>1, NoteSeqs
<1>3. m \in Mail /\ n \in Carried(t, s) /\ Plain(m) /\ n \in Nick
  BY <1>2 DEF Note, Carried
<1>4. m \in About(n)
  BY <1>3 DEF About
<1>5. m # Eof
  BY DEF NewsTypes, Eof
<1>6. \A k \in Nick \ {n} : ~News(m, k)
  BY DEF News
<1>7. t \in Edge[s] /\ s # t
  <2>1. t \in Edge[s]
    BY <1>1 DEF LinkEnds
  <2> QED BY <2>1, Carrying DEF OneWay
<1>8. ~Local(s, n)
  <2>1. Local(s, n) => s \in Home[n]
    BY <1>3 DEF Ready, FilesInv, Tables, FromNear
  <2> QED BY <1>3, <1>7, <2>1, Carrying DEF OneWay
<1>9. Known(s, n) => users[s][n].con = t
  <2>1. Known(s, n) => users[s][n].con \in Server
    BY <1>3, <1>8 DEF Ready, FilesInv, Tables, Typed, Entry, Known, Local
  <2>2. users[s][n].con \in Server => n \in Carried(users[s][n].con, s)
    BY <1>3 DEF Ready, FilesInv, Tables, FromNear
  <2> QED BY <1>3, <2>1, <2>2 DEF Carried
<1> HIDE DEF m
<1> QED BY <1>3, <1>4, <1>5, <1>6, <1>7, <1>8, <1>9 DEF m

\* login() of a client, over a ghost or over nobody.
LEMMA LoginMirrored ==
  ASSUME OneHome, Ready, Release, NEW s \in Server, NEW c \in Conn, NEW n \in Nick, NEW ip \in Addr,
         Login(s, c, n, ip)
  PROVE  MirrorInv'
<1> DEFINE old   == users[s][n]
           new   == [con |-> c, ts |-> now, home |-> s, ip |-> ip]
           mine  == [class |-> "user", nick |-> n, destroy |-> FALSE, killed |-> FALSE]
           kill  == KillMsg(s, n)
           login == LoginMsg(n, new)
           msgs  == IF Known(s, n) THEN <<kill>> \o <<login>> ELSE <<login>>
<1>1. /\ users' = [users EXCEPT ![s][n] = new]
      /\ conn' = [conn EXCEPT ![s] = [Zap(s, old) EXCEPT ![c] = mine]]
      /\ chan' = PassOn(chan, s, None, (IF Known(s, n) THEN <<kill>> ELSE <<>>) \o <<login>>)
      /\ UNCHANGED end /\ conn[s][c] = Free /\ s \in Home[n]
  BY DEF Login
<1>2. new \in Entry /\ new.con = c /\ new.ts \in Nat /\ new.home = s /\ new.ip \in Addr
  BY DEF Entry, Ready, FilesInv, Tables, Typed
<1>3. /\ login \in About(n) /\ login.type = "LOGIN" /\ login.nick = n
      /\ kill \in About(n) /\ kill.type = "KILL" /\ kill.nick = n
  BY <1>1, <1>2, AboutMade
<1>4. new # old
  <2>1. conn[s][c].class # "user"
    BY <1>1 DEF Free
  <2>2. old.con # c
    BY <2>1 DEF Ready, FilesInv, Tables, EntriesHaveConnections
  <2> QED BY <1>2, <2>2
<1>5. chan' = PassOn(chan, s, None, msgs)
  <2>1. <<>> \o <<login>> = <<login>>
    <3> HIDE DEF login
    <3> QED OBVIOUS
  <2> QED BY <1>1, <2>1
<1>6. c # None /\ c \notin Server /\ None \notin Server
  BY DisjointNames
<1> HIDE DEF new, kill, login, mine
<1>7. /\ \A r \in Server \ {s} : users'[r] = users[r] /\ ext'[r] = ext[r]
      /\ \A k \in Nick \ {n} : users'[s][k] = users[s][k] /\ ext'[s][k] = ext[s][k]
      /\ users'[s][n] = new /\ OwnEntries(s)' /\ Matches(Fresh, s, n)'
  <2>1. users' = [users EXCEPT ![s][n] = new] /\ new \in Entry /\ new # users[s][n]
        /\ new.con # None /\ new.home \in Home[n]
    BY <1>1, <1>2, <1>4, <1>6
  <2> HIDE DEF old
  <2> QED BY ONLY <2>1, Ready, Release, s \in Server, n \in Nick, EntryTurns
<1>8. NobodyKilled(s)' /\ \A r \in Server \ {s} : conn'[r] = conn[r]
  <2>1. Zap(s, old) = IF old.con \in Conn THEN [conn[s] EXCEPT ![old.con] = Zapped] ELSE conn[s]
    BY DEF Zap
  <2>2. conn'[s] = [Zap(s, old) EXCEPT ![c] = mine] /\ \A r \in Server \ {s} : conn'[r] = conn[r]
    BY <1>1 DEF Ready, FilesInv, Tables, Typed
  <2>3. conn[s] \in [Conn -> Connection]
    BY DEF Ready, FilesInv, Tables, Typed
  <2>4. \A d \in Conn : conn'[s][d] = IF d = c THEN mine
                          ELSE IF d = old.con THEN Zapped ELSE conn[s][d]
    <3> HIDE DEF old
    <3> QED BY <2>1, <2>2, <2>3
  <2>5. ~mine.killed /\ Zapped.class # "user"
    BY DEF mine, Zapped
  <2>6. \A d \in Conn : conn[s][d].class = "user" => ~conn[s][d].killed
    BY DEF Ready, MirrorInv, NobodyKilled
  <2> QED BY <2>2, <2>4, <2>5, <2>6 DEF NobodyKilled
<1>9. ASSUME NEW z, Matches(z, s, n) PROVE Takes(msgs, n, z, Fresh)
  <2>1. z \in Sight /\ z.known = Known(s, n)
    BY <1>9 DEF Matches
  <2>2. CASE Known(s, n)
    <3>1. Admits(kill, n, z) /\ Taking(kill, n, z) = Unseen
      BY <1>3, <2>1, NewsTaken
    <3>2. Admits(login, n, Unseen) /\ Taking(login, n, Unseen) = Fresh
      BY <1>3, NewsTaken, Sights
    <3>3. Takes(<<kill>> \o <<login>>, n, z, Fresh)
      BY <1>3, <3>1, <3>2, TakesNews
    <3> QED BY <2>2, <3>3
  <2>3. CASE ~Known(s, n)
    <3>1. Admits(login, n, z) /\ Taking(login, n, z) = Fresh
      BY <1>3, <2>1, <2>3, NewsTaken
    <3>2. Takes(<<login>>, n, z, Fresh)
      BY <3>1, TakesOne
    <3> QED BY <2>3, <3>2
  <2> QED BY <2>2, <2>3
<1>10. msgs \in Seq(About(n))
  <2>1. <<kill>> \in Seq(About(n)) /\ <<login>> \in Seq(About(n))
    BY <1>3
  <2>2. <<kill>> \o <<login>> \in Seq(About(n))
    BY <2>1, ConcatProperties
  <2> QED BY <2>1, <2>2
<1> HIDE DEF msgs
<1>11. Spreads(s, None, msgs)
  BY <1>5, PassesOn DEF Ready, FilesInv
<1>12. users'[s][n].con \notin Server
  BY <1>2, <1>6, <1>7
<1>13. Noting(s, None, n, msgs)
  BY <1>1, <1>6, <1>7, <1>8, <1>9, <1>11, <1>12 DEF Noting, Hears
<1> QED BY <1>10, <1>13, NotingKeeps DEF Ready

\* remove_connection() of a client: its peers are told, since nobody was killed.
LEMMA ReapUserMirrored ==
  ASSUME OneHome, Ready, Release, NEW s \in Server, NEW c \in Conn, ReapUser(s, c)
  PROVE  MirrorInv'
<1> DEFINE k == conn[s][c]
<1>1. conn' = [conn EXCEPT ![s][c] = Free] /\ UNCHANGED end
  BY DEF ReapUser
<1>2. Free.class = "free"
  BY DEF Free
<1>3. \A r \in Server, d \in Conn : conn'[r][d] = IF r = s /\ d = c THEN Free ELSE conn[r][d]
  BY <1>1 DEF Ready, FilesInv, Tables, Typed
<1>4. CASE k.class # "user"
  <2>1. UNCHANGED <<users, chan>>
    BY <1>4 DEF ReapUser, SaysQuit
  <2>2. UNCHANGED ext
    BY <2>1, EntriesStay
  <2>3. \A r \in Server, d \in Conn : (conn'[r][d].class = "user" /\ conn'[r][d].killed) =>
                                         conn[r][d].class = "user" /\ conn[r][d].killed
    BY <1>2, <1>3
  <2> QED BY <1>1, <2>1, <2>2, <2>3, StillKeeps DEF Ready
<1>5. CASE k.class = "user"
  <2>1. k.nick \in Nick /\ users[s][k.nick].con = c
    BY <1>5 DEF Ready, FilesInv, Tables, ConnectionsOwnEntries
  <2>2. PICK n \in Nick : n = k.nick
    BY <2>1
  <2>3. ~k.killed
    BY <1>5 DEF Ready, MirrorInv, NobodyKilled
  <2>4. /\ users' = [users EXCEPT ![s][n] = Absent]
        /\ chan' = PassOn(chan, s, None, <<QuitMsg(n)>>)
    BY <1>5, <2>2, <2>3 DEF ReapUser, SaysQuit
  <2>5. Absent \in Entry /\ Absent.con = None /\ None \notin Conn /\ None \notin Server
    BY DisjointNames DEF Absent, Entry
  <2>6. Absent # users[s][n]
    BY <2>1, <2>2, <2>5
  <2>7. /\ \A r \in Server \ {s} : users'[r] = users[r] /\ ext'[r] = ext[r]
        /\ \A j \in Nick \ {n} : users'[s][j] = users[s][j] /\ ext'[s][j] = ext[s][j]
        /\ users'[s][n] = Absent /\ OwnEntries(s)' /\ Matches(Unseen, s, n)'
    BY <2>4, <2>5, <2>6, EntryTurns
  <2>8. NobodyKilled(s)' /\ \A r \in Server \ {s} : conn'[r] = conn[r]
    <3>1. \A d \in Conn : conn[s][d].class = "user" => ~conn[s][d].killed
      BY DEF Ready, MirrorInv, NobodyKilled
    <3>2. \A r \in Server \ {s} : conn'[r] = conn[r]
      BY <1>1 DEF Ready, FilesInv, Tables, Typed
    <3> QED BY <1>2, <1>3, <3>1, <3>2 DEF NobodyKilled
  <2>9. QuitMsg(n) \in About(n) /\ QuitMsg(n).type = "QUIT" /\ QuitMsg(n).nick = n
    BY AboutMade
  <2>10. ASSUME NEW z, Matches(z, s, n) PROVE Takes(<<QuitMsg(n)>>, n, z, Unseen)
    <3>1. z \in Sight
      BY <2>10 DEF Matches
    <3>2. Admits(QuitMsg(n), n, z) /\ Taking(QuitMsg(n), n, z) = Unseen
      BY <2>9, <3>1, NewsTaken
    <3>3. Takes(<<QuitMsg(n)>>, n, z, Taking(QuitMsg(n), n, z))
      BY <3>2, TakesOne
    <3> QED BY <3>2, <3>3
  <2>11. PICK msgs \in Seq(About(n)) : msgs = <<QuitMsg(n)>>
    <3>1. <<QuitMsg(n)>> \in Seq(About(n))
      BY <2>9
    <3> QED BY <3>1
  <2>12. Spreads(s, None, msgs)
    BY <2>4, <2>11, PassesOn DEF Ready, FilesInv
  <2>13. s \in Home[n]
    BY <2>1, <2>2 DEF Ready, FilesInv, Tables, FromNear, Local
  <2>14. Noting(s, None, n, msgs)
    BY <1>1, <2>5, <2>7, <2>8, <2>10, <2>11, <2>12, <2>13 DEF Noting, Hears
  <2> QED BY <2>14, NotingKeeps DEF Ready
<1> QED BY <1>4, <1>5

\* The head of a link that may be news of a nick.
Incoming(s, t) == /\ s \in Server /\ t \in Server
                  /\ end[s][t] = "up" /\ chan[t][s] # <<>> /\ Head(chan[t][s]).type \in NewsTypes

\* s reads news that changes nothing: what it says is what s has already.
LEMMA OldNewsKeeps ==
  ASSUME OneHome, Ready, NEW s \in Server, NEW t \in Server, Incoming(s, t),
         NEW m, m = Head(chan[t][s]), NEW n, n = m.nick,
         chan' = Received(t, s), UNCHANGED <<users, conn, ext, end>>,
         (Live(t, s) /\ Admits(m, n, Seen(s, n))) => Taking(m, n, Seen(s, n)) = Seen(s, n)
  PROVE  MirrorInv'
<1>1. /\ end[s][t] = "up" /\ chan[t][s] # <<>> /\ m.type \in NewsTypes
      /\ n \in Nick /\ n \in Carried(t, s) /\ m # Eof /\ \A k \in Nick \ {n} : ~News(m, k)
      /\ s # t
  BY ReadNews DEF Incoming
<1>2. Spreads(s, t, <<>>)
  BY <1>1, PassesOn DEF Ready, FilesInv
<1>3. \A r, k : Seen(r, k)' = Seen(r, k)
  BY DEF Seen, Known
<1>4. Hears(s, t, n)
  BY <1>1, <1>3 DEF Hears
<1>5. OwnEntries(s)' /\ NobodyKilled(s)'
  BY DEF Ready, MirrorInv, OwnEntries, NobodyKilled, Known, Local, Owing
<1>6. users'[s][n].con \in Server => users'[s][n].con \in {users[s][n].con, t}
  OBVIOUS
<1>7. \A z : Matches(z, s, n) => Takes(<<>>, n, z, z) /\ Matches(z, s, n)'
  BY TakesNone, SeenStays
<1>8. Noting(s, t, n, <<>>)
  BY <1>1, <1>2, <1>4, <1>5, <1>6, <1>7 DEF Noting
<1>9. <<>> \in Seq(About(n))
  OBVIOUS
<1> QED BY <1>1, <1>8, <1>9, NotingKeeps DEF Ready

\* The count that an entry begins with, or what is left when it ends.
Begun(e) == IF e.con = None THEN Unseen ELSE Fresh

\* s reads news that gives it an entry, or takes it away, and passes it on.
LEMMA TurnKeeps ==
  ASSUME OneHome, Ready, Release, NEW s \in Server, NEW t \in Server, Incoming(s, t),
         NEW m, m = Head(chan[t][s]), NEW n, n = m.nick,
         NEW e \in Entry, e # users[s][n], users' = [users EXCEPT ![s][n] = e],
         e.con \in {None, t}, e.con # None => e.home \in Home[n],
         UNCHANGED <<conn, end>>,
         NEW msgs \in Seq(About(n)), chan' = PassOn(Received(t, s), s, t, msgs),
         \A z : Matches(z, s, n) => Takes(msgs, n, z, Begun(e)),
         Admits(m, n, Seen(s, n)) => Taking(m, n, Seen(s, n)) = Begun(e)
  PROVE  MirrorInv'
<1>1. /\ end[s][t] = "up" /\ chan[t][s] # <<>> /\ m.type \in NewsTypes
      /\ n \in Nick /\ n \in Carried(t, s) /\ m # Eof /\ \A k \in Nick \ {n} : ~News(m, k)
      /\ s # t
  BY ReadNews DEF Incoming
<1>2. Spreads(s, t, msgs)
  BY <1>1, PassesOn DEF Ready, FilesInv
<1>3. /\ \A r \in Server \ {s} : users'[r] = users[r] /\ ext'[r] = ext[r]
      /\ \A k \in Nick \ {n} : users'[s][k] = users[s][k] /\ ext'[s][k] = ext[s][k]
      /\ users'[s][n] = e /\ OwnEntries(s)'
      /\ Seen(s, n)' = Begun(e) /\ Matches(Begun(e), s, n)'
  BY ONLY <1>1, s \in Server, n \in Nick, Ready, Release, e \in Entry, e # users[s][n],
          users' = [users EXCEPT ![s][n] = e], e.con # None => e.home \in Home[n], EntryTurns DEF Begun
<1>4. Hears(s, t, n)
  BY <1>1, <1>3 DEF Hears
<1>5. NobodyKilled(s)'
  BY DEF Ready, MirrorInv, NobodyKilled
<1>6. users'[s][n].con \in Server => users'[s][n].con \in {users[s][n].con, t}
  BY <1>3, DisjointNames
<1>7. Noting(s, t, n, msgs)
  BY <1>1, <1>2, <1>3, <1>4, <1>5, <1>6 DEF Noting
<1> QED BY <1>1, <1>7, NotingKeeps DEF Ready

\* client_quit()
LEMMA RecvQuitMirrored ==
  ASSUME OneHome, Ready, Release, NEW s \in Server, NEW t \in Server, RecvQuit(s, t)
  PROVE  MirrorInv'
<1>1. PICK m : m = Head(chan[t][s])
  OBVIOUS
<1>2. PICK n : n = m.nick
  OBVIOUS
<1>3. Incoming(s, t) /\ m.type = "QUIT" /\ UNCHANGED <<conn, end>>
  BY <1>1 DEF RecvQuit, Deliver, Incoming, NewsTypes
<1>4. n \in Nick /\ ~Local(s, n)
  BY <1>1, <1>2, <1>3, ReadNews DEF Incoming
<1>5. ext[s][n] \in Counters
  BY <1>4 DEF Ready, FilesInv, Tallied
<1>6. Taking(m, n, Seen(s, n)) = Unseen
  BY <1>2, <1>3, <1>5, SeenNow, NewsTaken
<1>7. CASE Known(s, n)
  <2>1. users' = [users EXCEPT ![s][n] = Absent] /\ chan' = PassOn(Received(t, s), s, t, <<QuitMsg(n)>>)
    BY <1>1, <1>2, <1>4, <1>7 DEF RecvQuit
  <2>2. Absent \in Entry /\ Absent.con = None /\ Absent # users[s][n] /\ Begun(Absent) = Unseen
    BY <1>7 DEF Absent, Entry, Known, Begun
  <2>3. QuitMsg(n) \in About(n) /\ QuitMsg(n).type = "QUIT" /\ QuitMsg(n).nick = n
    BY <1>4, AboutMade
  <2>4. PICK msgs \in Seq(About(n)) : msgs = <<QuitMsg(n)>>
    <3>1. <<QuitMsg(n)>> \in Seq(About(n))
      BY <2>3
    <3> QED BY <3>1
  <2>5. ASSUME NEW z, Matches(z, s, n) PROVE Takes(msgs, n, z, Unseen)
    <3>1. Admits(QuitMsg(n), n, z) /\ Taking(QuitMsg(n), n, z) = Unseen
      BY <2>3, <2>5, NewsTaken DEF Matches
    <3> QED BY <2>4, <3>1, TakesOne
  <2> QED BY <1>1, <1>2, <1>3, <1>6, <2>1, <2>2, <2>4, <2>5, TurnKeeps
<1>8. CASE ~Known(s, n)
  <2>1. UNCHANGED users /\ chan' = Received(t, s)
    BY <1>1, <1>2, <1>8 DEF RecvQuit
  <2>2. Seen(s, n) = Unseen
    <3>1. ext[s][n] = NewUser
      BY <1>4, <1>8 DEF Ready, MirrorInv, OwnEntries
    <3> QED BY <1>5, <1>8, <3>1, SeenNow
  <2>3. UNCHANGED ext
    BY <2>1, EntriesStay
  <2> QED BY <1>1, <1>2, <1>3, <1>6, <2>1, <2>2, <2>3, OldNewsKeeps
<1> QED BY <1>7, <1>8

\* kill_user() from a server: the killer is one, over a ghost or a collision.
LEMMA RecvKillMirrored ==
  ASSUME OneHome, Ready, Release, NEW s \in Server, NEW t \in Server, RecvKill(s, t)
  PROVE  MirrorInv'
<1>1. PICK m : m = Head(chan[t][s])
  OBVIOUS
<1>2. PICK n : n = m.nick
  OBVIOUS
<1>3. Incoming(s, t) /\ m.type = "KILL" /\ UNCHANGED end
  BY <1>1 DEF RecvKill, Deliver, Incoming, NewsTypes
<1>4. n \in Nick /\ ~Local(s, n) /\ m.by \in Server /\ m \in About(n)
  BY <1>1, <1>2, <1>3, ReadNews DEF Incoming, Plain
<1>5. ext[s][n] \in Counters
  BY <1>4 DEF Ready, FilesInv, Tallied
<1>6. Taking(m, n, Seen(s, n)) = Unseen
  BY <1>2, <1>3, <1>5, SeenNow, NewsTaken
<1>7. CASE Known(s, n)
  <2>1. KillEntry(s, n) /\ chan' = PassOn(Received(t, s), s, t, <<m>>)
    BY <1>1, <1>2, <1>4, <1>7 DEF RecvKill
  <2>2. users' = [users EXCEPT ![s][n] = Absent] /\ UNCHANGED conn
    BY <1>4, <2>1 DEF KillEntry
  <2>3. Absent \in Entry /\ Absent.con = None /\ Absent # users[s][n] /\ Begun(Absent) = Unseen
    BY <1>7 DEF Absent, Entry, Known, Begun
  <2>4. PICK msgs \in Seq(About(n)) : msgs = <<m>>
    <3>1. <<m>> \in Seq(About(n))
      BY <1>4
    <3> QED BY <3>1
  <2>5. ASSUME NEW z, Matches(z, s, n) PROVE Takes(msgs, n, z, Unseen)
    <3>1. Admits(m, n, z) /\ Taking(m, n, z) = Unseen
      BY <1>2, <1>3, <2>5, NewsTaken DEF Matches
    <3> QED BY <2>4, <3>1, TakesOne
  <2> QED BY <1>1, <1>2, <1>3, <1>6, <2>1, <2>2, <2>3, <2>4, <2>5, TurnKeeps
<1>8. CASE ~Known(s, n)
  <2>1. UNCHANGED <<users, conn>> /\ chan' = Received(t, s)
    BY <1>1, <1>2, <1>8 DEF RecvKill
  <2>2. Seen(s, n) = Unseen
    <3>1. ext[s][n] = NewUser
      BY <1>4, <1>8 DEF Ready, MirrorInv, OwnEntries
    <3> QED BY <1>5, <1>8, <3>1, SeenNow
  <2>3. UNCHANGED ext
    BY <2>1, EntriesStay
  <2> QED BY <1>1, <1>2, <1>3, <1>6, <2>1, <2>2, <2>3, OldNewsKeeps
<1> QED BY <1>7, <1>8

\* login() from a server
LEMMA RecvLoginMirrored ==
  ASSUME OneHome, Ready, Release, NEW s \in Server, NEW t \in Server, RecvLogin(s, t)
  PROVE  MirrorInv'
<1>1. PICK m : m = Head(chan[t][s])
  OBVIOUS
<1>2. PICK n : n = m.nick
  OBVIOUS
<1>3. Incoming(s, t) /\ m.type = "LOGIN" /\ UNCHANGED end
  BY <1>1 DEF RecvLogin, Deliver, Incoming, NewsTypes
<1>4. n \in Nick /\ ~Local(s, n) /\ m \in Mail /\ m.home \in Home[n]
  BY <1>1, <1>2, <1>3, ReadNews DEF Incoming, Plain
<1>5. ext[s][n] \in Counters
  BY <1>4 DEF Ready, FilesInv, Tallied
<1>6. /\ Seen(s, n).known = Known(s, n) /\ Taking(m, n, Seen(s, n)) = Fresh
      /\ Admits(m, n, Seen(s, n)) <=> ~Known(s, n)
  BY <1>2, <1>3, <1>5, SeenNow, NewsTaken
<1>7. CASE Known(s, n) /\ ~Displaces(m, users[s][n])
  <2>1. UNCHANGED <<users, conn>> /\ chan' = Received(t, s)
    BY <1>1, <1>2, <1>7 DEF RecvLogin
  <2>2. UNCHANGED ext
    BY <2>1, EntriesStay
  <2> QED BY <1>1, <1>2, <1>3, <1>6, <1>7, <2>1, <2>2, OldNewsKeeps
<1>8. CASE ~(Known(s, n) /\ ~Displaces(m, users[s][n]))
  <2>1. PICK e : e = [con |-> t, ts |-> m.ts, home |-> m.home, ip |-> m.ip]
    OBVIOUS
  <2>2. /\ users' = [users EXCEPT ![s][n] = e] /\ conn' = [conn EXCEPT ![s] = Zap(s, users[s][n])]
        /\ chan' = PassOn(Received(t, s), s, t,
                     (IF Known(s, n) THEN <<KillMsg(s, n)>> ELSE <<>>) \o <<LoginMsg(n, e)>>)
    BY <1>1, <1>2, <1>8, <2>1 DEF RecvLogin
  <2>3. UNCHANGED conn
    <3>1. Zap(s, users[s][n]) = conn[s]
      BY <1>4 DEF Zap, Local
    <3>2. conn = [r \in Server |-> conn[r]]
      BY DEF Ready, FilesInv, Tables, Typed
    <3> QED BY <2>2, <3>1, <3>2
  <2>4. m.ts \in Nat /\ m.home \in Server /\ m.ip \in Addr
    BY <1>3, <1>4, MailFields
  <2>5. e \in Entry /\ e.con = t /\ e.con # None /\ e.ts = m.ts /\ e.home = m.home /\ e.ip = m.ip
    BY <2>1, <2>4, DisjointNames DEF Entry
  <2>6. e # users[s][n]
    <3>1. CASE Known(s, n)
      BY <1>8, <2>4, <2>5, <3>1 DEF Displaces
    <3>2. CASE ~Known(s, n)
      BY <2>5, <3>2 DEF Known
    <3> QED BY <3>1, <3>2
  <2>7. PICK login : login = LoginMsg(n, e)
    OBVIOUS
  <2>8. PICK kill : kill = KillMsg(s, n)
    OBVIOUS
  <2>9. /\ login \in About(n) /\ login.type = "LOGIN" /\ login.nick = n
        /\ kill \in About(n) /\ kill.type = "KILL" /\ kill.nick = n
    BY <1>4, <2>4, <2>5, <2>7, <2>8, AboutMade
  <2>10. PICK msgs : msgs = IF Known(s, n) THEN <<kill>> \o <<login>> ELSE <<login>>
    OBVIOUS
  <2>11. msgs \in Seq(About(n))
    <3>1. <<kill>> \in Seq(About(n)) /\ <<login>> \in Seq(About(n))
      BY <2>9
    <3>2. <<kill>> \o <<login>> \in Seq(About(n))
      BY <3>1, ConcatProperties
    <3> QED BY <2>10, <3>1, <3>2
  <2>12. chan' = PassOn(Received(t, s), s, t, msgs)
    <3>1. <<>> \o <<login>> = <<login>>
      OBVIOUS
    <3> QED BY <2>2, <2>7, <2>8, <2>10, <3>1
  <2>13. ASSUME NEW z, Matches(z, s, n) PROVE Takes(msgs, n, z, Fresh)
    <3>1. z \in Sight /\ z.known = Known(s, n)
      BY <2>13 DEF Matches
    <3>2. CASE Known(s, n)
      <4>1. Admits(kill, n, z) /\ Taking(kill, n, z) = Unseen
        BY <2>9, <3>1, NewsTaken
      <4>2. Admits(login, n, Unseen) /\ Taking(login, n, Unseen) = Fresh
        BY <2>9, NewsTaken, Sights
      <4>3. Takes(<<kill>> \o <<login>>, n, z, Fresh)
        BY <2>9, <4>1, <4>2, TakesNews
      <4> QED BY <2>10, <3>2, <4>3
    <3>3. CASE ~Known(s, n)
      <4>1. Admits(login, n, z) /\ Taking(login, n, z) = Fresh
        BY <2>9, <3>1, <3>3, NewsTaken
      <4>2. Takes(<<login>>, n, z, Fresh)
        BY <4>1, TakesOne
      <4> QED BY <2>10, <3>3, <4>2
    <3> QED BY <3>2, <3>3
  <2>14. Begun(e) = Fresh
    BY <2>5 DEF Begun
  <2>15. e.con \in {None, t} /\ (e.con # None => e.home \in Home[n]) /\ UNCHANGED <<conn, end>>
    BY <1>3, <1>4, <2>3, <2>5
  <2>16. users' = [users EXCEPT ![s][n] = e] /\ Taking(m, n, Seen(s, n)) = Begun(e)
    BY <1>6, <2>2, <2>14
  <2>17. \A z : Matches(z, s, n) => Takes(msgs, n, z, Begun(e))
    BY <2>13, <2>14
  <2> QED BY ONLY OneHome, Ready, Release, s \in Server, t \in Server, <1>1, <1>2, <1>3, <2>5, <2>6,
                  <2>11, <2>12, <2>15, <2>16, <2>17, TurnKeeps
<1> QED BY <1>7, <1>8

\* What a notice of files or uploads makes of x is an entry's count again.
Counts(m, n, old, u) ==
  \A z \in Sight : (z.known /\ z.uploads <= old.uploads) =>
    \E y \in Sight :
      /\ Admits(m, n, z) /\ Taking(m, n, z) = y /\ y.known
      /\ y.uploads <= u.uploads /\ (z.uploads = old.uploads => y.uploads = u.uploads)
      /\ y.shared = u.shared \/ z.shared # old.shared

\* s reads a notice on an entry that it has, whose counts become those of u.
Notice(s, t, m, n, u) ==
  /\ Incoming(s, t) /\ m = Head(chan[t][s]) /\ n = m.nick /\ Known(s, n)
  /\ ext' = [ext EXCEPT ![s][n] = u] /\ Counts(m, n, ext[s][n], u)
  /\ u.sharing = ext[s][n].sharing /\ u.unsharing = ext[s][n].unsharing
  /\ UNCHANGED <<users, conn, end>> /\ chan' = PassOn(Received(t, s), s, t, <<m>>)

\* Such a notice is passed on, and keeps the invariant.
LEMMA CountKeeps ==
  ASSUME OneHome, Ready, NEW s \in Server, NEW t \in Server,
         NEW m, NEW n, NEW u \in Counters, Notice(s, t, m, n, u)
  PROVE  MirrorInv'
<1>a. Incoming(s, t) /\ m = Head(chan[t][s]) /\ n = m.nick /\ Known(s, n)
  BY Zenon DEF Notice
<1>b. /\ Counts(m, n, ext[s][n], u)
      /\ u.sharing = ext[s][n].sharing /\ u.unsharing = ext[s][n].unsharing
  BY Zenon DEF Notice
<1>c. users' = users /\ conn' = conn /\ end' = end
  BY Zenon DEF Notice
<1>d. ext' = [ext EXCEPT ![s][n] = u] /\ chan' = PassOn(Received(t, s), s, t, <<m>>)
  BY Zenon DEF Notice
<1>e. /\ ext \in [Server -> [Nick -> Counters]]
      /\ \A k \in Nick : /\ ~Known(s, k) => ext[s][k] = NewUser
                         /\ ~Local(s, k) => ~Owing(s, k)
                         /\ Known(s, k) => users[s][k].home \in Home[k]
      /\ NobodyKilled(s)
  BY DEF Ready, FilesInv, Tallied, MirrorInv, OwnEntries
<1>f. Known(s, n) = TRUE
  BY ONLY <1>a DEF Known
<1>1. /\ end[s][t] = "up" /\ chan[t][s] # <<>> /\ m.type \in NewsTypes /\ m \in About(n)
      /\ n \in Nick /\ n \in Carried(t, s) /\ m # Eof /\ \A k \in Nick \ {n} : ~News(m, k)
      /\ s # t
  BY <1>a, ReadNews, Zenon DEF Incoming
<1>2. PICK msgs \in Seq(About(n)) : msgs = <<m>>
  <2>1. <<m>> \in Seq(About(n))
    BY <1>1
  <2> QED BY <2>1
<1>3. Spreads(s, t, msgs)
  BY <1>1, <1>2, <1>d, PassesOn DEF Ready, FilesInv
<1>4. \A r \in Server, k \in Nick : ext'[r][k] = IF r = s /\ k = n THEN u ELSE ext[r][k]
  BY ONLY <1>d, <1>e, <1>1, s \in Server
<1>5. \A r \in Server \ {s} : ext'[r] = ext[r]
  BY ONLY <1>d, <1>e, s \in Server
<1>6. OwnEntries(s)' /\ NobodyKilled(s)'
  <2>1. NobodyKilled(s)'
    BY ONLY <1>c, <1>e DEF NobodyKilled
  <2>2. ASSUME NEW k \in Nick
        PROVE  /\ ~Known(s, k)' => ext'[s][k] = NewUser
               /\ ~Local(s, k)' => ~Owing(s, k)'
               /\ Known(s, k)' => users'[s][k].home \in Home[k]
    <3>1. ext'[s][k] = IF k = n THEN u ELSE ext[s][k]
      BY ONLY <1>4, s \in Server, k \in Nick
    <3>2. Owing(s, k)' <=> Owing(s, k)
      BY ONLY <3>1, <1>b DEF Owing
    <3>3. ~Known(s, k) => k # n
      BY ONLY <1>a
    <3>4. (Known(s, k)' <=> Known(s, k)) /\ (Local(s, k)' <=> Local(s, k)) /\ users'[s][k] = users[s][k]
      BY ONLY <1>c DEF Known, Local
    <3>5. /\ ~Known(s, k) => ext[s][k] = NewUser
          /\ ~Local(s, k) => ~Owing(s, k)
          /\ Known(s, k) => users[s][k].home \in Home[k]
      BY ONLY <1>e, k \in Nick
    <3> QED BY ONLY <3>1, <3>2, <3>3, <3>4, <3>5
  <2> QED BY <2>1, <2>2 DEF OwnEntries
<1>7. Hears(s, t, n)
  <2>1. Known(s, n)' = TRUE
    BY ONLY <1>c, <1>f DEF Known
  <2>2. ext'[s][n] = u /\ ext[s][n] \in Counters /\ ext'[s][n] \in Counters
    BY ONLY <1>1, <1>4, <1>e, s \in Server, u \in Counters
  <2>3. PICK x \in Sight : x = Seen(s, n) /\ x.known /\ x.shared = ext[s][n].shared
                          /\ x.uploads = ext[s][n].uploads
    BY <1>f, <2>2, SeenNow
  <2>4. PICK y \in Sight : Taking(m, n, x) = y /\ y.known /\ y.uploads = u.uploads /\ y.shared = u.shared
    <3>1. x.uploads <= ext[s][n].uploads
      BY ONLY <2>3 DEF Sight
    <3> QED BY <1>b, <2>3, <3>1, Zenon DEF Counts
  <2>5. PICK w \in Sight : w = Seen(s, n)' /\ w.known /\ w.shared = u.shared /\ w.uploads = u.uploads
    BY <2>1, <2>2, SeenNext
  <2>6. Seen(s, n)' = y
    <3>1. y.known = TRUE /\ w.known = TRUE
      BY ONLY <2>4, <2>5, y \in Sight, w \in Sight DEF Sight
    <3>2. w = y
      BY ONLY <2>4, <2>5, <3>1, SightsSame
    <3> QED BY ONLY <2>5, <3>2
  <2>8. Taking(m, n, Seen(s, n)) = y
    BY ONLY <2>3, <2>4
  <2> QED BY ONLY <1>a, <1>1, <2>6, <2>8 DEF Hears
<1>8. ASSUME NEW z, Matches(z, s, n) PROVE \E y : Takes(msgs, n, z, y) /\ Matches(y, s, n)'
  <2>1. /\ z \in Sight /\ z.known = TRUE /\ z.uploads <= ext[s][n].uploads
        /\ z.shared = ext[s][n].shared \/ Owing(s, n)
    BY ONLY <1>8, <1>f DEF Matches
  <2>3. PICK y \in Sight :
          /\ Admits(m, n, z) /\ Taking(m, n, z) = y /\ y.known /\ y.uploads <= u.uploads
          /\ y.shared = u.shared \/ z.shared # ext[s][n].shared
    BY <1>b, <2>1, Zenon DEF Counts
  <2>4. Takes(msgs, n, z, y)
    BY <1>2, <2>3, TakesOne
  <2>7. ext'[s][n] = u
    BY ONLY <1>1, <1>4, s \in Server
  <2>5. Owing(s, n) => Owing(s, n)'
    BY ONLY <1>b, <2>7 DEF Owing
  <2>6. y.known = Known(s, n)'
    <3>1. Known(s, n)' = TRUE
      BY ONLY <1>c, <1>f DEF Known
    <3>2. y.known = TRUE
      BY ONLY <2>3, y \in Sight DEF Sight
    <3> QED BY ONLY <3>1, <3>2
  <2>8. Matches(y, s, n)'
    BY ONLY y \in Sight, <2>1, <2>3, <2>5, <2>6, <2>7 DEF Matches
  <2> QED BY <2>4, <2>8
<1>9. /\ UNCHANGED end /\ n \in Carried(t, s) /\ t \in Server
      /\ \A r \in Server \ {s} : users'[r] = users[r] /\ conn'[r] = conn[r] /\ ext'[r] = ext[r]
      /\ \A k \in Nick \ {n} : users'[s][k] = users[s][k] /\ ext'[s][k] = ext[s][k]
      /\ users'[s][n].con \in Server => users'[s][n].con \in {users[s][n].con, t}
  <2>2. \A k \in Nick \ {n} : ext'[s][k] = ext[s][k]
    BY ONLY <1>4, s \in Server
  <2> QED BY ONLY <1>1, <1>5, <1>c, <2>2, t \in Server
<1>10. Noting(s, t, n, msgs)
  BY ONLY <1>3, <1>6, <1>7, <1>8, <1>9 DEF Noting
<1> QED BY <1>1, <1>2, <1>10, NotingKeeps, Zenon DEF Ready

\* user_sharing()
LEMMA RecvSharingMirrored ==
  ASSUME OneHome, Ready, NEW s \in Server, NEW t \in Server, RecvSharing(s, t)
  PROVE  MirrorInv'
<1>1. PICK m : m = Head(chan[t][s])
  OBVIOUS
<1>2. PICK n : n = m.nick
  OBVIOUS
<1>3. Incoming(s, t) /\ m.type = "SHARING" /\ UNCHANGED <<users, conn, end>>
  BY <1>1 DEF RecvSharing, Deliver, Incoming, NewsTypes
<1>4. n \in Nick /\ ~Local(s, n) /\ m \in Mail /\ m.shared \in Nat
  <2>1. n \in Nick /\ ~Local(s, n) /\ m \in Mail
    BY <1>1, <1>2, <1>3, ReadNews DEF Incoming
  <2> QED BY <1>3, <2>1, MailFields
<1>5. ext[s][n] \in Counters
  BY <1>4 DEF Ready, FilesInv, Tallied
<1>6. CASE Known(s, n)
  <2>1. PICK u : u = [ext[s][n] EXCEPT !.shared = m.shared]
    BY Zenon
  <2>2. /\ u \in Counters /\ u.shared = m.shared /\ u.uploads = ext[s][n].uploads
        /\ u.sharing = ext[s][n].sharing /\ u.unsharing = ext[s][n].unsharing
        /\ ext[s][n].shared \in Nat /\ ext[s][n].uploads \in Nat
    BY <1>4, <1>5, <2>1 DEF Counters
  <2>3. ext' = [ext EXCEPT ![s][n] = u] /\ chan' = PassOn(Received(t, s), s, t, <<m>>)
    BY <1>1, <1>2, <1>6, <2>1, Zenon DEF RecvSharing
  <2>4. Counts(m, n, ext[s][n], u)
    <3> SUFFICES ASSUME NEW z \in Sight, z.known, z.uploads <= ext[s][n].uploads
                 PROVE  \E y \in Sight :
                          /\ Admits(m, n, z) /\ Taking(m, n, z) = y /\ y.known
                          /\ y.uploads <= u.uploads /\ (z.uploads = ext[s][n].uploads => y.uploads = u.uploads)
                          /\ y.shared = u.shared
      BY DEF Counts
    <3>1. PICK y : y = [z EXCEPT !.shared = m.shared]
      OBVIOUS
    <3>2. y \in Sight /\ y.shared = m.shared /\ y.known = z.known /\ y.uploads = z.uploads
      BY <1>4, <3>1, Sights
    <3>3. Taking(m, n, z) = y /\ Admits(m, n, z)
      BY <1>2, <1>3, <3>1, NewsTaken
    <3> QED BY <2>2, <3>2, <3>3
  <2>5. Notice(s, t, m, n, u)
    BY <1>1, <1>2, <1>3, <1>6, <2>2, <2>3, <2>4, Zenon DEF Notice
  <2> QED BY <2>2, <2>5, CountKeeps
<1>7. CASE ~Known(s, n)
  <2>1. UNCHANGED ext /\ chan' = Received(t, s)
    BY <1>1, <1>2, <1>7 DEF RecvSharing
  <2>2. Taking(m, n, Seen(s, n)) = Seen(s, n)
    BY <1>2, <1>3, <1>5, <1>7, SeenNow, NewsTaken
  <2> QED BY <1>1, <1>2, <1>3, <2>1, <2>2, OldNewsKeeps
<1> QED BY <1>6, <1>7

\* upload_start() and upload_end() from a server
LEMMA RecvUploadMirrored ==
  ASSUME OneHome, Ready, NEW s \in Server, NEW t \in Server, RecvUpload(s, t)
  PROVE  MirrorInv'
<1>1. PICK m : m = Head(chan[t][s])
  OBVIOUS
<1>2. PICK n : n = m.nick
  OBVIOUS
<1>3. Incoming(s, t) /\ m.type \in {"START", "END"} /\ UNCHANGED <<users, conn, end>>
  BY <1>1 DEF RecvUpload, Deliver, Incoming, NewsTypes
<1>4. n \in Nick /\ ~Local(s, n) /\ m \in Mail
  BY <1>1, <1>2, <1>3, ReadNews DEF Incoming
<1>5. ext[s][n] \in Counters
  BY <1>4 DEF Ready, FilesInv, Tallied
<1>6. CASE Known(s, n)
  <2>1. PICK u : u = Counted(ext[s][n], m.type)
    OBVIOUS
  <2>2. /\ u \in Counters /\ u.shared = ext[s][n].shared /\ u.uploads = Tally(ext[s][n].uploads, m.type)
        /\ u.sharing = ext[s][n].sharing /\ u.unsharing = ext[s][n].unsharing
        /\ ext[s][n].shared \in Nat /\ ext[s][n].uploads \in Nat
    BY <1>3, <1>5, <2>1 DEF Counters, Counted, Tally
  <2>3. ext' = [ext EXCEPT ![s][n] = u] /\ chan' = PassOn(Received(t, s), s, t, <<m>>)
    BY <1>1, <1>2, <1>4, <1>6, <2>1 DEF RecvUpload
  <2>4. Counts(m, n, ext[s][n], u)
    <3> SUFFICES ASSUME NEW z \in Sight, z.known, z.uploads <= ext[s][n].uploads
                 PROVE  \E y \in Sight :
                          /\ Admits(m, n, z) /\ Taking(m, n, z) = y /\ y.known
                          /\ y.uploads <= u.uploads /\ (z.uploads = ext[s][n].uploads => y.uploads = u.uploads)
                          /\ y.shared = u.shared \/ z.shared # ext[s][n].shared
      BY DEF Counts
    <3>1. PICK j : j = Tally(z.uploads, m.type)
      OBVIOUS
    <3>2. j \in Nat /\ j <= u.uploads /\ (z.uploads = ext[s][n].uploads => j = u.uploads)
      BY <2>2, <3>1 DEF Tally, Sight
    <3>3. PICK y : y = [z EXCEPT !.uploads = j]
      OBVIOUS
    <3>4. y \in Sight /\ y.shared = z.shared /\ y.known = z.known /\ y.uploads = j
      BY <3>2, <3>3, Sights
    <3>5. Taking(m, n, z) = y /\ Admits(m, n, z)
      BY <1>2, <1>3, <3>1, <3>3, NewsTaken
    <3> QED BY <2>2, <3>2, <3>4, <3>5
  <2>5. Notice(s, t, m, n, u)
    BY <1>1, <1>2, <1>3, <1>6, <2>2, <2>3, <2>4, Zenon DEF Notice
  <2> QED BY <2>2, <2>5, CountKeeps
<1>7. CASE ~Known(s, n)
  <2>1. UNCHANGED ext /\ chan' = Received(t, s)
    BY <1>1, <1>2, <1>7 DEF RecvUpload
  <2>2. Taking(m, n, Seen(s, n)) = Seen(s, n)
    BY <1>2, <1>3, <1>5, <1>7, SeenNow, NewsTaken
  <2> QED BY <1>1, <1>2, <1>3, <2>1, <2>2, OldNewsKeeps
<1> QED BY <1>6, <1>7

\* What a report makes of a count that was right but for it.
LEMMA ReportTaken ==
  ASSUME Ready, NEW s \in Server, NEW n \in Nick, NEW tag, NEW v, v = Reported(s, n, tag),
         NEW z \in Sight, z.known, z.shared = ext[s][n].shared \/ Owing(s, n)
  PROVE  /\ Report(s, n, tag) \in Seq(About(n))
         /\ v \in Counters /\ v.shared = ext[s][n].shared /\ v.uploads = ext[s][n].uploads
         /\ \E y \in Sight : /\ Takes(Report(s, n, tag), n, z, y) /\ y.known /\ y.uploads = z.uploads
                             /\ y.shared = v.shared \/ v.sharing \/ v.unsharing
<1>1. PICK e \in Counters : e = ext[s][n]
  BY DEF Ready, FilesInv, Tallied
<1>2. v \in Counters /\ v.shared = ext[s][n].shared
  BY ReportedCounts DEF Ready, FilesInv, Tallied
<1>3. v.uploads = ext[s][n].uploads
  <2>1. v = e \/ v = [e EXCEPT !.sharing = FALSE] \/ v = [e EXCEPT !.unsharing = FALSE]
    BY <1>1 DEF Reported
  <2> QED BY <1>1, <2>1 DEF Counters
<1>4. CASE ~Reports(s, n, tag)
  <2>1. v = e /\ Report(s, n, tag) = <<>>
    BY <1>1, <1>4 DEF Reported, Report
  <2>2. z.shared = v.shared \/ v.sharing \/ v.unsharing
    BY <1>1, <2>1 DEF Owing
  <2>3. Takes(<<>>, n, z, z) /\ <<>> \in Seq(About(n))
    BY TakesNone
  <2> QED BY <1>2, <1>3, <2>1, <2>2, <2>3
<1>5. CASE Reports(s, n, tag)
  <2>1. PICK m : m = SharingMsg(n, e.shared)
    OBVIOUS
  <2>2. e.shared \in Nat /\ v.shared = e.shared
    BY <1>1, <1>2 DEF Counters
  <2>3. m \in About(n) /\ m.shared = e.shared /\ m.type = "SHARING" /\ m.nick = n
    BY <2>1, <2>2, AboutMade
  <2>4. Report(s, n, tag) = <<m>>
    BY <1>1, <1>5, <2>1 DEF Report
  <2>5. PICK y : y = [z EXCEPT !.shared = e.shared]
    OBVIOUS
  <2>6. y \in Sight /\ y.shared = e.shared /\ y.known = z.known /\ y.uploads = z.uploads
    BY <2>2, <2>5, Sights
  <2>7. Admits(m, n, z) /\ Taking(m, n, z) = y
    BY <2>3, <2>5, NewsTaken
  <2>8. Takes(<<m>>, n, z, y)
    BY <2>7, TakesOne
  <2>9. <<m>> \in Seq(About(n))
    BY <2>3
  <2> QED BY <1>2, <1>3, <2>2, <2>4, <2>6, <2>8, <2>9
<1> QED BY <1>4, <1>5

\* What a command tells of itself makes of the count before it, v, the one after it, u.
Telling(own, n, v, u) ==
  \A y \in Sight : (y.known /\ y.uploads <= v.uploads) =>
    \E w \in Sight :
      /\ Takes(own, n, y, w) /\ w.known /\ w.uploads <= u.uploads
      /\ (y.shared = v.shared \/ v.sharing \/ v.unsharing) =>
            (w.shared = u.shared \/ u.sharing \/ u.unsharing)

\* The client in slot c of s, logged in as n, gives a command: a report that was due,
\* the command's own messages, and the entry that it leaves.
Commands(s, c, n, tag, own, u) ==
  /\ Client(s, c) /\ n = conn[s][c].nick
  /\ ext' = [ext EXCEPT ![s][n] = u] /\ Telling(own, n, Reported(s, n, tag), u)
  /\ chan' = PassOn(chan, s, None, Report(s, n, tag) \o own)

\* Every such command keeps the invariant.
LEMMA CommandKeeps ==
  ASSUME OneHome, Ready, NEW s \in Server, NEW c \in Conn, NEW n, NEW tag,
         NEW own \in Seq(About(n)), NEW u \in Counters, Commands(s, c, n, tag, own, u)
  PROVE  MirrorInv'
<1>1. conn[s][c].class = "user" /\ UNCHANGED <<users, conn, end>>
  BY DEF Commands, Client
<1>2. n \in Nick /\ users[s][n].con = c /\ Local(s, n) /\ s \in Home[n]
  <2>1. n \in Nick /\ users[s][n].con = c
    BY <1>1 DEF Commands, Ready, FilesInv, Tables, ConnectionsOwnEntries
  <2>2. Local(s, n)
    BY <2>1 DEF Local
  <2> QED BY <2>1, <2>2 DEF Ready, FilesInv, Tables, FromNear
<1>3. Known(s, n) /\ c # None /\ c \notin Server /\ None \notin Server
  BY <1>2, DisjointNames DEF Known
<1>4. PICK v : v = Reported(s, n, tag)
  OBVIOUS
<1>5. PICK r : r = Report(s, n, tag)
  OBVIOUS
<1>6. ASSUME NEW z \in Sight, z.known, z.shared = ext[s][n].shared \/ Owing(s, n)
      PROVE  /\ r \in Seq(About(n)) /\ v.uploads = ext[s][n].uploads
             /\ \E y \in Sight : /\ Takes(r, n, z, y) /\ y.known /\ y.uploads = z.uploads
                                 /\ y.shared = v.shared \/ v.sharing \/ v.unsharing
  BY ONLY <1>2, <1>4, <1>5, <1>6, Ready, s \in Server, ReportTaken
<1>7. r \in Seq(About(n))
  <2>1. ext[s][n] \in Counters
    BY <1>2 DEF Ready, FilesInv, Tallied
  <2>2. Seen(s, n) \in Sight /\ Seen(s, n).known /\ Seen(s, n).shared = ext[s][n].shared
    BY <1>3, <2>1, SeenNow
  <2> QED BY <1>6, <2>2
<1>8. PICK msgs : msgs = r \o own
  OBVIOUS
<1>9. msgs \in Seq(About(n))
  BY <1>7, <1>8, ConcatProperties
<1>10. Spreads(s, None, msgs)
  BY <1>5, <1>8, PassesOn DEF Ready, FilesInv, Commands
<1>11. \A x \in Server, k \in Nick : ext'[x][k] = IF x = s /\ k = n THEN u ELSE ext[x][k]
  BY <1>2 DEF Commands, Ready, FilesInv, Tallied
<1>12. \A x \in Server \ {s} : ext'[x] = ext[x]
  BY <1>2 DEF Commands, Ready, FilesInv, Tallied
<1>13. ext'[s][n] = u /\ \A k \in Nick \ {n} : ext'[s][k] = ext[s][k]
  BY <1>2, <1>11
<1>14. OwnEntries(s)' /\ NobodyKilled(s)'
  <2> SUFFICES ASSUME NEW k \in Nick
               PROVE  /\ ~Known(s, k)' => ext'[s][k] = NewUser
                      /\ ~Local(s, k)' => ~Owing(s, k)'
                      /\ Known(s, k)' => users'[s][k].home \in Home[k]
    BY <1>1 DEF OwnEntries, Ready, MirrorInv, NobodyKilled
  <2>1. /\ ~Known(s, k) => ext[s][k] = NewUser
        /\ ~Local(s, k) => ~Owing(s, k)
        /\ Known(s, k) => users[s][k].home \in Home[k]
    BY DEF Ready, MirrorInv, OwnEntries
  <2>2. k # n => ext'[s][k] = ext[s][k]
    BY <1>13
  <2> QED BY <1>1, <1>2, <1>3, <2>1, <2>2 DEF Known, Local, Owing
<1>15. ASSUME NEW z, Matches(z, s, n) PROVE \E w : Takes(msgs, n, z, w) /\ Matches(w, s, n)'
  <2>1. /\ z \in Sight /\ z.known /\ z.uploads <= ext[s][n].uploads
        /\ z.shared = ext[s][n].shared \/ Owing(s, n)
    BY <1>3, <1>15 DEF Matches
  <2>2. PICK y \in Sight :
          /\ Takes(r, n, z, y) /\ y.known /\ y.uploads = z.uploads
          /\ y.shared = v.shared \/ v.sharing \/ v.unsharing
    BY <1>6, <2>1
  <2>3. y.uploads <= v.uploads
    BY <1>6, <2>1, <2>2
  <2>4. PICK w \in Sight :
          /\ Takes(own, n, y, w) /\ w.known /\ w.uploads <= u.uploads
          /\ w.shared = u.shared \/ u.sharing \/ u.unsharing
    BY <1>4, <2>2, <2>3 DEF Commands, Telling
  <2>5. Takes(msgs, n, z, w)
    BY <1>7, <1>8, <2>2, <2>4, TakesJoin
  <2>6. w.known = Known(s, n)'
    <3>1. Known(s, n)' = TRUE /\ w.known = TRUE
      BY <1>1, <1>3, <2>4 DEF Known, Sight
    <3> QED BY <3>1
  <2>7. Matches(w, s, n)'
    BY <1>13, <2>4, <2>6 DEF Matches, Owing
  <2> QED BY <2>5, <2>7
<1>16. /\ UNCHANGED end /\ None \notin Server /\ s \in Home[n] /\ Hears(s, None, n)
       /\ \A x \in Server \ {s} : users'[x] = users[x] /\ conn'[x] = conn[x] /\ ext'[x] = ext[x]
       /\ \A k \in Nick \ {n} : users'[s][k] = users[s][k] /\ ext'[s][k] = ext[s][k]
       /\ users'[s][n].con \in Server => users'[s][n].con \in {users[s][n].con, None}
  BY ONLY <1>1, <1>2, <1>3, <1>12, <1>13 DEF Hears
<1>17. Noting(s, None, n, msgs)
  BY ONLY <1>10, <1>14, <1>15, <1>16 DEF Noting
<1> QED BY <1>2, <1>9, <1>17, NotingKeeps DEF Ready

\* A command with nothing to tell: it changes no count, or the next report is due.
LEMMA TellingNone ==
  ASSUME NEW n, NEW v, NEW u, u.uploads = v.uploads, u = v \/ u.sharing \/ u.unsharing
  PROVE  Telling(<<>>, n, v, u)
BY TakesNone DEF Telling

\* upload_start() and upload_end() tell what they do.
LEMMA TellingUploads ==
  ASSUME NEW n \in Nick, NEW v \in Counters, NEW what \in {"START", "END"}
  PROVE  Counted(v, what) \in Counters /\ Telling(Relay(what, n), n, v, Counted(v, what))
<1>1. PICK u : u = Counted(v, what)
  OBVIOUS
<1>2. /\ u \in Counters /\ u.shared = v.shared /\ u.uploads = Tally(v.uploads, what)
      /\ u.sharing = v.sharing /\ u.unsharing = v.unsharing /\ v.uploads \in Nat
  BY <1>1 DEF Counters, Counted, Tally
<1>3. PICK m : m = UploadMsg(what, n)
  OBVIOUS
<1>4. m.type = what /\ m.nick = n /\ Relay(what, n) = <<m>>
  BY <1>3, AboutMade DEF Relay
<1>5. ASSUME NEW y \in Sight, y.known, y.uploads <= v.uploads
      PROVE  \E w \in Sight : /\ Takes(<<m>>, n, y, w) /\ w.known /\ w.uploads <= u.uploads
                              /\ w.shared = y.shared
  <2>1. PICK j : j = Tally(y.uploads, what)
    OBVIOUS
  <2>2. j \in Nat /\ j <= u.uploads
    BY <1>2, <1>5, <2>1 DEF Tally, Sight
  <2>3. PICK w : w = [y EXCEPT !.uploads = j]
    OBVIOUS
  <2>4. w \in Sight /\ w.shared = y.shared /\ w.known = y.known /\ w.uploads = j
    BY <2>2, <2>3, Sights, ZenonT(60)
  <2>5. Taking(m, n, y) = w /\ Admits(m, n, y)
    BY <1>4, <1>5, <2>1, <2>3, NewsTaken
  <2>6. Takes(<<m>>, n, y, w)
    BY <2>5, TakesOne
  <2> QED BY <1>5, <2>2, <2>4, <2>6
<1>6. Telling(<<m>>, n, v, u)
  <2> SUFFICES ASSUME NEW y \in Sight, y.known, y.uploads <= v.uploads
               PROVE  \E w \in Sight :
                        /\ Takes(<<m>>, n, y, w) /\ w.known /\ w.uploads <= u.uploads
                        /\ (y.shared = v.shared \/ v.sharing \/ v.unsharing) =>
                              (w.shared = u.shared \/ u.sharing \/ u.unsharing)
    BY DEF Telling
  <2>1. PICK w \in Sight : /\ Takes(<<m>>, n, y, w) /\ w.known /\ w.uploads <= u.uploads
                           /\ w.shared = y.shared
    BY <1>5
  <2> QED BY <1>2, <2>1
<1> QED BY <1>1, <1>2, <1>4, <1>6

\* Who gives the command, and what a report leaves of the entry.
LEMMA ClientReports ==
  ASSUME Ready, NEW s \in Server, NEW c \in Conn, Client(s, c), NEW n, n = conn[s][c].nick, NEW tag
  PROVE  /\ n \in Nick /\ Reported(s, n, tag) \in Counters
         /\ Report(s, n, tag) \o <<>> = Report(s, n, tag)
<1>1. n \in Nick
  BY DEF Client, Ready, FilesInv, Tables, ConnectionsOwnEntries
<1>2. Reported(s, n, tag) \in Counters
  BY <1>1, ReportedCounts DEF Ready, FilesInv, Tallied
<1>3. Report(s, n, tag) \o <<>> = Report(s, n, tag)
  <2>1. PICK m : Report(s, n, tag) = <<m>> \/ Report(s, n, tag) = <<>>
    BY DEF Report
  <2> QED BY <2>1
<1> QED BY <1>1, <1>2, <1>3

\* An entry after a file more or less: its uploads stay, and a report is due.
LEMMA CountsShared ==
  ASSUME NEW v \in Counters, NEW k \in Nat
  PROVE  LET a == [v EXCEPT !.shared = k, !.sharing = TRUE]
             r == [v EXCEPT !.shared = k, !.unsharing = TRUE]
         IN  /\ a \in Counters /\ a.uploads = v.uploads /\ a.sharing
             /\ r \in Counters /\ r.uploads = v.uploads /\ r.unsharing
<1> DEFINE a == [v EXCEPT !.shared = k, !.sharing = TRUE]
           r == [v EXCEPT !.shared = k, !.unsharing = TRUE]
<1>1. a \in Counters /\ r \in Counters
  BY CountsMade
<1>2. a.uploads = v.uploads /\ a.sharing = TRUE
  BY DEF Counters
<1>3. r.uploads = v.uploads /\ r.unsharing = TRUE
  BY DEF Counters
<1> QED BY <1>1, <1>2, <1>3

\* add_file(), share_file() and one file of add_directory()
LEMMA AddFileMirrored ==
  ASSUME OneHome, Ready, NEW s \in Server, NEW c \in Conn, NEW f \in File, AddFile(s, c, f)
  PROVE  MirrorInv'
<1>1. PICK n : n = conn[s][c].nick
  OBVIOUS
<1>2. PICK v : v = Reported(s, n, "ADD")
  OBVIOUS
<1>3. Client(s, c) /\ chan' = PassOn(chan, s, None, Report(s, n, "ADD"))
  BY <1>1 DEF AddFile
<1>4. n \in Nick /\ v \in Counters /\ Report(s, n, "ADD") \o <<>> = Report(s, n, "ADD")
  BY <1>1, <1>2, <1>3, ClientReports
<1>5. PICK u : /\ ext' = [ext EXCEPT ![s][n] = u]
               /\ u = v \/ u = [v EXCEPT !.shared = @ + 1, !.sharing = TRUE]
  BY <1>1, <1>2 DEF AddFile
<1>6. u \in Counters /\ u.uploads = v.uploads /\ (u = v \/ u.sharing \/ u.unsharing)
  <2>1. PICK k \in Nat : k = v.shared + 1
    BY <1>4 DEF Counters
  <2>2. u = v \/ u = [v EXCEPT !.shared = k, !.sharing = TRUE]
    BY <1>5, <2>1
  <2>3. CASE u = v
    BY <1>4, <2>3
  <2>4. CASE u = [v EXCEPT !.shared = k, !.sharing = TRUE]
    BY ONLY <1>4, <2>1, <2>4, CountsShared, Zenon
  <2> QED BY <2>2, <2>3, <2>4
<1>7. Telling(<<>>, n, v, u)
  BY <1>6, TellingNone
<1>8. Commands(s, c, n, "ADD", <<>>, u)
  BY <1>1, <1>2, <1>3, <1>4, <1>5, <1>7 DEF Commands
<1>9. <<>> \in Seq(About(n))
  OBVIOUS
<1> QED BY ONLY <1>6, <1>8, <1>9, OneHome, Ready, s \in Server, c \in Conn, CommandKeeps

\* remove_file()
LEMMA RemoveFileMirrored ==
  ASSUME OneHome, Ready, NEW s \in Server, NEW c \in Conn, NEW f \in File, RemoveFile(s, c, f)
  PROVE  MirrorInv'
<1>1. PICK n : n = conn[s][c].nick
  OBVIOUS
<1>2. PICK v : v = Reported(s, n, "REMOVE")
  OBVIOUS
<1>3. Client(s, c) /\ chan' = PassOn(chan, s, None, Report(s, n, "REMOVE"))
  BY <1>1 DEF RemoveFile
<1>4. n \in Nick /\ v \in Counters /\ Report(s, n, "REMOVE") \o <<>> = Report(s, n, "REMOVE")
  BY <1>1, <1>2, <1>3, ClientReports
<1>5. PICK u : /\ ext' = [ext EXCEPT ![s][n] = u]
               /\ u = v \/ (v.shared # 0 /\ u = [v EXCEPT !.shared = @ - 1, !.unsharing = TRUE])
  BY <1>1, <1>2 DEF RemoveFile
<1>6. u \in Counters /\ u.uploads = v.uploads /\ (u = v \/ u.sharing \/ u.unsharing)
  <2>1. CASE u = v
    BY <1>4, <2>1
  <2>2. CASE u # v
    <3>1. PICK k \in Nat : k = v.shared - 1
      BY <1>4, <1>5, <2>2 DEF Counters
    <3>2. u = [v EXCEPT !.shared = k, !.unsharing = TRUE]
      BY <1>5, <2>2, <3>1
    <3> QED BY ONLY <1>4, <3>1, <3>2, CountsShared, Zenon
  <2> QED BY <2>1, <2>2
<1>7. Telling(<<>>, n, v, u)
  BY <1>6, TellingNone
<1>8. Commands(s, c, n, "REMOVE", <<>>, u)
  BY <1>1, <1>2, <1>3, <1>4, <1>5, <1>7 DEF Commands
<1>9. <<>> \in Seq(About(n))
  OBVIOUS
<1> QED BY ONLY <1>6, <1>8, <1>9, OneHome, Ready, s \in Server, c \in Conn, CommandKeeps

\* The commands that report what is due and change no count.
LEMMA OthersMirrored ==
  ASSUME OneHome, Ready, NEW s \in Server, NEW c \in Conn, Other(s, c, <<>>),
         ext' = [ext EXCEPT ![s][conn[s][c].nick] = Reported(s, conn[s][c].nick, "OTHER")]
  PROVE  MirrorInv'
<1>1. PICK n : n = conn[s][c].nick
  OBVIOUS
<1>2. PICK v : v = Reported(s, n, "OTHER")
  OBVIOUS
<1>3. /\ Client(s, c) /\ chan' = PassOn(chan, s, None, Report(s, n, "OTHER") \o <<>>)
      /\ ext' = [ext EXCEPT ![s][n] = v]
  BY <1>1, <1>2 DEF Other
<1>4. v \in Counters
  BY <1>1, <1>2, <1>3, ClientReports
<1>5. Telling(<<>>, n, v, v)
  BY TellingNone
<1>6. Commands(s, c, n, "OTHER", <<>>, v)
  BY <1>1, <1>2, <1>3, <1>5 DEF Commands
<1>7. <<>> \in Seq(About(n))
  OBVIOUS
<1> QED BY ONLY <1>4, <1>6, <1>7, OneHome, Ready, s \in Server, c \in Conn, CommandKeeps

\* upload_start() and upload_end() of a client
LEMMA UploadMirrored ==
  ASSUME OneHome, Ready, NEW s \in Server, NEW c \in Conn, NEW what \in {"START", "END"}, Upload(s, c, what)
  PROVE  MirrorInv'
<1>1. PICK n : n = conn[s][c].nick
  OBVIOUS
<1>2. PICK v : v = Reported(s, n, "OTHER")
  OBVIOUS
<1>3. PICK u : u = Counted(v, what)
  OBVIOUS
<1>4. /\ Client(s, c) /\ chan' = PassOn(chan, s, None, Report(s, n, "OTHER") \o Relay(what, n))
      /\ ext' = [ext EXCEPT ![s][n] = u]
  BY <1>1, <1>2, <1>3 DEF Other, Upload
<1>5. n \in Nick /\ v \in Counters
  BY <1>1, <1>2, <1>4, ClientReports
<1>6. u \in Counters /\ Telling(Relay(what, n), n, v, u)
  BY <1>3, <1>5, TellingUploads
<1>7. Commands(s, c, n, "OTHER", Relay(what, n), u)
  BY <1>1, <1>2, <1>4, <1>6 DEF Commands
<1>8. Relay(what, n) \in Seq(About(n))
  <2>1. UploadMsg(what, n) \in About(n)
    BY <1>5, AboutMade
  <2> QED BY <2>1 DEF Relay
<1> QED BY ONLY <1>6, <1>7, <1>8, OneHome, Ready, s \in Server, c \in Conn, CommandKeeps

\* Every command of a client.
LEMMA CommandsMirrored ==
  ASSUME OneHome, Ready, CommandStep
  PROVE  MirrorInv'
<1>1. PICK s \in Server, c \in Conn :
        \/ \E f \in File : AddFile(s, c, f) \/ RemoveFile(s, c, f)
        \/ Command(s, c)
        \/ \E what \in {"START", "END"} : Upload(s, c, what)
        \/ \E n \in Watched : AddHotlist(s, c, n) \/ RemoveHotlist(s, c, n)
  BY DEF CommandStep
<1>2. CASE \E f \in File : AddFile(s, c, f) \/ RemoveFile(s, c, f)
  BY <1>2, AddFileMirrored, RemoveFileMirrored
<1>3. CASE Command(s, c)
  BY <1>3, OthersMirrored DEF Command
<1>4. CASE \E what \in {"START", "END"} : Upload(s, c, what)
  BY <1>4, UploadMirrored
<1>5. CASE \E n \in Watched : AddHotlist(s, c, n) \/ RemoveHotlist(s, c, n)
  <2>1. /\ Other(s, c, <<>>)
        /\ ext' = [ext EXCEPT ![s][conn[s][c].nick] = Reported(s, conn[s][c].nick, "OTHER")]
    BY <1>5 DEF AddHotlist, RemoveHotlist
  <2> QED BY <2>1, OthersMirrored
<1> QED BY <1>1, <1>2, <1>3, <1>4, <1>5

\* A client hangs up, the clock ticks, the main loop turns to what is marked.
LEMMA MarksMirrored ==
  ASSUME Ready, Release,
         \/ Tick \/ \E s \in Server : EndRead(s) \/ \E c \in Conn : Disconnect(s, c)
  PROVE  MirrorInv'
<1>1. UNCHANGED <<users, end, chan>>
  BY DEF Tick, EndRead, Disconnect
<1>2. UNCHANGED ext
  BY <1>1, EntriesStay
<1>3. ASSUME NEW r \in Server, NEW d \in Conn
      PROVE  conn'[r][d].class = conn[r][d].class /\ conn'[r][d].killed = conn[r][d].killed
  <2>1. CASE UNCHANGED conn
    BY <2>1
  <2>2. ASSUME NEW s \in Server, NEW c \in Conn, Disconnect(s, c)
        PROVE  conn'[r][d].class = conn[r][d].class /\ conn'[r][d].killed = conn[r][d].killed
    <3> DEFINE k == [conn[s][c] EXCEPT !.destroy = TRUE]
    <3>1. conn' = [conn EXCEPT ![s][c] = k]
      BY <2>2 DEF Disconnect
    <3>2. conn[s][c] \in Connection
      BY DEF Ready, FilesInv, Tables, Typed
    <3>3. k.class = conn[s][c].class /\ k.killed = conn[s][c].killed
      BY <3>2 DEF Connection
    <3> HIDE DEF k
    <3>4. conn'[r][d] = IF r = s /\ d = c THEN k ELSE conn[r][d]
      BY <3>1 DEF Ready, FilesInv, Tables, Typed
    <3> QED BY <3>3, <3>4
  <2> QED BY <2>1, <2>2 DEF Tick, EndRead
<1> QED BY <1>1, <1>2, <1>3, StillKeeps DEF Ready

\* A message that is no news is read, and what is left to read tells the same.
LEMMA SilentTells ==
  ASSUME MirrorInv, NEW s \in Server, NEW t \in Server, Live(t, s), chan[t][s] # <<>>,
         Head(chan[t][s]).type \notin NewsTypes, NEW n \in Carried(t, s)
  PROVE  \E z : Takes(Tail(chan[t][s]), n, Seen(s, n), z) /\ Matches(z, t, n)
<1>1. PICK z : Takes(chan[t][s], n, Seen(s, n), z) /\ Matches(z, t, n)
  BY DEF MirrorInv, Tells
<1>2. chan[t][s] \in Seq(Mail)
  BY NoteSeqs DEF MirrorInv
<1>3. Takes(Tail(chan[t][s]), n, Taking(Head(chan[t][s]), n, Seen(s, n)), z)
  BY <1>1, <1>2, TakesRead
<1>4. Taking(Head(chan[t][s]), n, Seen(s, n)) = Seen(s, n)
  BY DEF Taking, News
<1> QED BY <1>1, <1>3, <1>4

\* A step of links, where no entry changes.
LEMMA LinksKeep ==
  ASSUME MirrorInv, UNCHANGED <<users, ext, conn>>,
         \A a, b \in Server : LinkEnds(a, b)' /\ chan'[b][a] \in Seq(Note(b, a)),
         \A a, b \in Server : Live(a, b)' =>
           \A n \in Carried(a, b) : \E z : Takes(chan'[a][b], n, Seen(b, n), z) /\ Matches(z, a, n)
  PROVE  MirrorInv'
<1>1. \A s \in Server : OwnEntries(s)' /\ NobodyKilled(s)'
  BY DEF MirrorInv, OwnEntries, NobodyKilled, Known, Local, Owing
<1>2. ASSUME NEW s \in Server, NEW t \in Server, Live(t, s)', NEW n \in Carried(t, s) PROVE Tells(t, s, n)'
  <2>1. PICK z : Takes(chan'[t][s], n, Seen(s, n), z) /\ Matches(z, t, n)
    BY <1>2
  <2>2. Seen(s, n)' = Seen(s, n) /\ Matches(z, t, n)'
    BY <2>1, SeenStays
  <2> QED BY <2>1, <2>2 DEF Tells
<1>3. \A a, b \in Server : Carried(a, b)' = Carried(a, b) /\ Note(a, b)' = Note(a, b)
  BY DEF Carried, Note, Plain
<1> QED BY <1>1, <1>2, <1>3 DEF MirrorInv

\* A link is marked, because it failed or because the peer closed it.
LEMMA LinkDiesMirrored ==
  ASSUME OneHome, Ready, Release, NEW s \in Server, NEW t \in Server, LinkFails(s, t) \/ RecvEof(s, t)
  PROVE  MirrorInv'
<1>1. /\ end[s][t] = "up" /\ end' = [end EXCEPT ![s][t] = "dying"] /\ UNCHANGED <<users, conn>>
  BY DEF LinkFails, RecvEof, Deliver
<1>2. UNCHANGED ext
  BY <1>1, EntriesStay
<1>3. \A a, b \in Server : end'[a][b] = IF a = s /\ b = t THEN "dying" ELSE end[a][b]
  BY <1>1 DEF Ready, FilesInv, Tables, Typed
<1>4. t \in Edge[s] /\ s \in Edge[t] /\ s # t
  BY <1>1, Carrying DEF Ready, FilesInv, Tables, OneWay
<1>5. LinkEnds(s, t) /\ LinkEnds(t, s) /\ chan[t][s] \in Seq(Note(t, s))
  BY DEF Ready, MirrorInv
<1>6. \/ UNCHANGED chan
      \/ /\ chan[t][s] # <<>> /\ Head(chan[t][s]).type = "EOF"
         /\ \A a, b \in Server : chan'[a][b] = IF a = t /\ b = s THEN Tail(chan[t][s]) ELSE chan[a][b]
  <2>1. CASE LinkFails(s, t)
    BY <2>1 DEF LinkFails
  <2>2. CASE RecvEof(s, t)
    <3>1. chan' = [chan EXCEPT ![t][s] = Tail(chan[t][s])] /\ chan[t][s] # <<>> /\ Head(chan[t][s]).type = "EOF"
      BY <2>2 DEF RecvEof, Deliver, Received
    <3> QED BY <3>1 DEF Ready, FilesInv, Posts
  <2> QED BY <2>1, <2>2
<1>7. \A a, b \in Server : chan'[a][b] = chan[a][b] \/ (a = t /\ b = s /\ chan'[a][b] = Tail(chan[t][s])
                                                          /\ chan[t][s] # <<>> /\ Head(chan[t][s]).type = "EOF")
  BY <1>6
<1>8. "EOF" \notin NewsTypes
  BY DEF NewsTypes
<1>9. ASSUME NEW a \in Server, NEW b \in Server PROVE LinkEnds(a, b)' /\ chan'[b][a] \in Seq(Note(b, a))
  <2>1. LinkEnds(a, b) /\ chan[b][a] \in Seq(Note(b, a))
    BY DEF Ready, MirrorInv
  <2>2. chan'[b][a] \in Seq(Note(b, a))
    BY <1>5, <1>7, <2>1, NoteSeqs, ZenonT(60)
  <2>3. CASE a = s /\ b = t
    <3>1. end'[a][b] = "dying"
      BY <1>3, <2>3
    <3> QED BY <1>4, <2>2, <2>3, <3>1 DEF LinkEnds
  <2>4. CASE a = t /\ b = s
    <3>1. end'[a][b] = end[a][b] /\ chan'[b][a] = chan[b][a] /\ end'[b][a] = "dying"
      BY <1>3, <1>4, <1>7, <2>4
    <3>2. end[a][b] = "pending" => chan'[a][b] = <<>>
      BY <1>7, <2>1, <2>4 DEF LinkEnds
    <3> QED BY <1>1, <2>1, <2>2, <3>1, <3>2 DEF LinkEnds
  <2>5. CASE ~(a = s /\ b = t) /\ ~(a = t /\ b = s)
    <3>1. /\ end'[a][b] = end[a][b] /\ end'[b][a] = end[b][a]
          /\ chan'[a][b] = chan[a][b] /\ chan'[b][a] = chan[b][a] /\ users' = users
      BY <1>1, <1>3, <1>7, <2>5
    <3> QED BY <2>1, <2>2, <3>1 DEF LinkEnds, HasEof
  <2> QED BY <2>3, <2>4, <2>5
<1>10. ASSUME NEW a \in Server, NEW b \in Server, Live(a, b)', NEW n \in Carried(a, b)
       PROVE  \E z : Takes(chan'[a][b], n, Seen(b, n), z) /\ Matches(z, a, n)
  <2>1. Live(a, b)
    BY <1>1, <1>3, <1>10 DEF Live
  <2>2. CASE chan'[a][b] = chan[a][b]
    BY <2>1, <2>2 DEF Ready, MirrorInv, Tells
  <2>3. CASE a = t /\ b = s /\ chan'[a][b] = Tail(chan[t][s])
               /\ chan[t][s] # <<>> /\ Head(chan[t][s]).type = "EOF"
    BY <1>8, <1>10, <2>1, <2>3, SilentTells DEF Ready
  <2> QED BY <1>7, <2>2, <2>3
<1> QED BY <1>1, <1>2, <1>9, <1>10, LinksKeep DEF Ready

\* What a server has of its own when it drops the entries of some nicks.
LEMMA OwnStays ==
  ASSUME Ready, Release, NEW s \in Server, NEW S \in SUBSET Nick,
         \A n \in Nick : users'[s][n] = IF n \in S THEN Absent ELSE users[s][n],
         \A n \in S : Known(s, n)
  PROVE  /\ OwnEntries(s)'
         /\ \A n \in Nick \ S : ext'[s][n] = ext[s][n]
         /\ \A n \in S : Seen(s, n)' = Unseen /\ Matches(Unseen, s, n)'
<1>1. Absent.con = None /\ None \notin Conn
  BY DisjointNames DEF Absent
<1>2. /\ \A n \in S : ext'[s][n] = NewUser
      /\ \A n \in Nick \ S : ext'[s][n] = ext[s][n]
  <2>1. ext' = [r \in Server |-> [n \in Nick |-> IF n \in Changed(r) THEN NewUser ELSE ext[r][n]]]
    BY DEF Release
  <2>2. \A n \in S : n \in Changed(s)
    BY <1>1 DEF Changed, Known
  <2>3. \A n \in Nick \ S : n \notin Changed(s)
    BY DEF Changed
  <2> QED BY <2>1, <2>2, <2>3
<1>3. ~NewUser.sharing /\ ~NewUser.unsharing /\ NewUser.shared = 0 /\ NewUser.uploads = 0
  BY DEF NewUser
<1>4. OwnEntries(s)'
  <2> SUFFICES ASSUME NEW n \in Nick
               PROVE  /\ ~Known(s, n)' => ext'[s][n] = NewUser
                      /\ ~Local(s, n)' => ~Owing(s, n)'
                      /\ Known(s, n)' => users'[s][n].home \in Home[n]
    BY DEF OwnEntries
  <2>1. CASE n \in S
    BY <1>1, <1>2, <1>3, <2>1 DEF Known, Owing
  <2>2. CASE n \notin S
    <3>1. users'[s][n] = users[s][n] /\ ext'[s][n] = ext[s][n]
      BY <1>2, <2>2
    <3>2. OwnEntries(s)
      BY DEF Ready, MirrorInv
    <3> QED BY <3>1, <3>2 DEF OwnEntries, Known, Local, Owing
  <2> QED BY <2>1, <2>2
<1>5. ASSUME NEW n \in S PROVE Seen(s, n)' = Unseen /\ Matches(Unseen, s, n)'
  <2>1. ext'[s][n] = NewUser /\ users'[s][n].con = None /\ ext'[s][n] \in Counters
    BY <1>1, <1>2 DEF Ready
  <2>2. Known(s, n)' = FALSE
    BY <2>1 DEF Known
  <2>3. Seen(s, n)' = Unseen
    BY <2>1, <2>2, SeenNext
  <2>4. Unseen \in Sight /\ Unseen.known = FALSE /\ Unseen.shared = 0 /\ Unseen.uploads = 0
    BY DEF Unseen, Sight
  <2>5. /\ Unseen.known = Known(s, n)' /\ Unseen.shared = ext'[s][n].shared
        /\ Unseen.uploads <= ext'[s][n].uploads
    <3>1. ext'[s][n].shared = 0 /\ ext'[s][n].uploads = 0
      BY <1>3, <2>1
    <3>2. Unseen.known = Known(s, n)'
      BY <2>1, <2>4 DEF Known
    <3> QED BY <2>4, <3>1, <3>2
  <2>6. Matches(Unseen, s, n)'
    BY <2>4, <2>5 DEF Matches
  <2> QED BY <2>3, <2>6
<1> QED BY <1>2, <1>4, <1>5

\* remove_connection() of a server: everyone behind the link has quit.
LEMMA ReapLinkMirrored ==
  ASSUME OneHome, Ready, Release, NEW s \in Server, NEW t \in Server, ReapLink(s, t)
  PROVE  MirrorInv'
<1> DEFINE gone == Behind(s, t)
<1>1. /\ end[s][t] = "dying" /\ end' = [end EXCEPT ![s][t] = "down"] /\ conn' = conn
      /\ users' = [users EXCEPT ![s] = [n \in Nick |-> IF n \in gone THEN Absent ELSE users[s][n]]]
  BY DEF ReapLink
<1>2. t \in Edge[s] /\ s \in Edge[t] /\ s # t
  BY <1>1, Carrying DEF Ready, FilesInv, Tables, OneWay
<1>3. /\ gone \in SUBSET Nick /\ gone \subseteq Carried(t, s)
      /\ \A n \in Nick : n \in gone <=> users[s][n].con = t
      /\ \A n \in gone : Known(s, n)
  <2>1. \A n \in Nick : users[s][n].con = t => n \in Carried(t, s)
    BY SMTT(30) DEF Ready, FilesInv, Tables, FromNear
  <2> QED BY <2>1, DisjointNames DEF Behind, Known
<1>4. PICK q \in Orders(gone) : SplitOut(s, t, [i \in DOMAIN q |-> QuitMsg(q[i])])
  BY DEF ReapLink, SplitOut
<1> DEFINE M == [i \in DOMAIN q |-> QuitMsg(q[i])]
<1>5. /\ M \in Seq(Message) /\ \A i \in 1 .. Len(M) : M[i].type = "QUIT" /\ M[i].nick \in gone
      /\ \A n \in gone : \E i \in 1 .. Len(M) : M[i].nick = n
  BY <1>3, <1>4, SplitQuits
<1> HIDE DEF M, gone
<1>6. M \in Seq(Mail) /\ \A u \in Server : gone \subseteq Carried(s, u) => M \in Seq(Note(s, u))
  <2>1. ASSUME NEW i \in 1 .. Len(M) PROVE M[i] \in Mail /\ Plain(M[i]) /\ M[i].nick \in gone
    BY <1>5 DEF Mail, Plain
  <2>2. M \in [1 .. Len(M) -> Message] /\ Len(M) \in Nat
    BY <1>5, LenProperties
  <2>3. ASSUME NEW A, \A i \in 1 .. Len(M) : M[i] \in A PROVE M \in Seq(A)
    <3>1. M \in [1 .. Len(M) -> A]
      BY <2>2, <2>3
    <3> QED BY <2>2, <3>1
  <2>4. M \in Seq(Mail)
    BY <2>1, <2>3
  <2>5. ASSUME NEW u \in Server, gone \subseteq Carried(s, u) PROVE M \in Seq(Note(s, u))
    <3>1. \A i \in 1 .. Len(M) : M[i] \in Note(s, u)
      BY <2>1, <2>5 DEF Note
    <3> QED BY <2>3, <3>1
  <2> QED BY <2>4, <2>5
<1>7. SplitChans(s, t, M)
  <2>1. chan \in [Server -> [Server -> Seq(Mail)]]
    BY DEF Ready, FilesInv, Posts
  <2>2. SplitOut(s, t, M)
    BY <1>4 DEF M
  <2> QED BY ONLY <1>2, <1>6, <2>1, <2>2, s \in Server, t \in Server, SplitSends
<1>8. /\ \A a, b \in Server : end'[a][b] = IF a = s /\ b = t THEN "down" ELSE end[a][b]
      /\ \A r \in Server \ {s} : users'[r] = users[r]
      /\ \A n \in Nick : users'[s][n] = IF n \in gone THEN Absent ELSE users[s][n]
  BY <1>1 DEF Ready, FilesInv, Tables, Typed
<1>9. Absent.con = None /\ None \notin Server /\ None \notin Conn
  BY DisjointNames DEF Absent
<1>10. /\ OwnEntries(s)' /\ \A n \in Nick \ gone : ext'[s][n] = ext[s][n]
       /\ \A n \in gone : Seen(s, n)' = Unseen /\ Matches(Unseen, s, n)'
  BY <1>3, <1>8, OwnStays
<1>11. \A r \in Server \ {s}, n \in Nick : ext'[r][n] = ext[r][n]
  BY <1>8 DEF Release, Changed
<1>12. ASSUME NEW r \in Server, NEW n \in Nick, r # s \/ n \notin gone
       PROVE  Seen(r, n)' = Seen(r, n) /\ \A z : Matches(z, r, n) => Matches(z, r, n)'
  <2>1. users'[r][n] = users[r][n] /\ ext'[r][n] = ext[r][n]
    BY <1>8, <1>10, <1>11, <1>12
  <2> QED BY <2>1, SeenStays
<1>13. ASSUME NEW a \in Server, NEW b \in Server PROVE LinkEnds(a, b)'
  <2>1. Eof \in Mail /\ chan[s][t] \in Seq(Mail) /\ LinkEnds(a, b)
    BY DEF Eof, Message, Mail, Ready, MirrorInv, FilesInv, Posts
  <2>2. /\ \A r \in Server, n \in Nick : users'[r][n].con \in {users[r][n].con, None}
        /\ \A n \in Nick : users'[s][n].con # t
    BY <1>3, <1>8, <1>9
  <2> QED BY ONLY <1>2, <1>7, <1>8, <2>1, <2>2, s \in Server, t \in Server, a \in Server, b \in Server, SplitLinks
<1>14. ASSUME NEW u \in Edge[s], u # t PROVE u \in Server /\ gone \subseteq Carried(s, u)
  BY <1>2, <1>3, <1>14, Carrying, Environment DEF OneWay
<1>15. ASSUME NEW a \in Server, NEW b \in Server PROVE chan'[a][b] \in Seq(Note(a, b))
  <2>1. chan[a][b] \in Seq(Note(a, b))
    BY DEF Ready, MirrorInv
  <2>2. CASE a = t /\ b = s
    <3>1. chan'[a][b] = <<>>
      BY <1>7, <2>2 DEF SplitChans
    <3> QED BY <3>1, NoteSeqs
  <2>3. CASE a = s /\ b = t
    <3>1. Eof \in Note(a, b)
      BY DEF Eof, Note, NewsTypes, Mail, Message
    <3>2. <<Eof>> \in Seq(Note(a, b))
      BY <3>1, NoteSeqs
    <3>3. chan'[a][b] \in {chan[a][b], chan[a][b] \o <<Eof>>}
      BY <1>2, <1>7, <2>3 DEF SplitChans
    <3> QED BY <2>1, <3>2, <3>3, NoteSeqs
  <2>4. CASE a = s /\ b # t /\ b \in Servers(s) /\ end[b][s] # "down"
    <3>1. b \in Edge[s]
      BY <2>4 DEF Ready, FilesInv, Tables, Servers
    <3>2. M \in Seq(Note(a, b)) /\ chan'[a][b] = chan[a][b] \o M
      BY <1>2, <1>6, <1>7, <1>14, <2>4, <3>1 DEF SplitChans
    <3> QED BY <2>1, <3>2, NoteSeqs
  <2>5. CASE /\ ~(a = t /\ b = s) /\ ~(a = s /\ b = t)
             /\ ~(a = s /\ b # t /\ b \in Servers(s) /\ end[b][s] # "down")
    BY <1>7, <2>1, <2>5 DEF SplitChans
  <2> QED BY <2>2, <2>3, <2>4, <2>5
<1>16. ASSUME NEW a \in Server PROVE OwnEntries(a)' /\ NobodyKilled(a)'
  <2>1. OwnEntries(a) /\ NobodyKilled(a)'
    BY <1>1 DEF Ready, MirrorInv, NobodyKilled
  <2>2. CASE a = s
    BY <1>10, <2>1, <2>2
  <2>3. CASE a # s
    <3>1. \A n \in Nick : users'[a][n] = users[a][n] /\ ext'[a][n] = ext[a][n]
      BY <1>8, <1>11, <2>3
    <3> QED BY <2>1, <3>1 DEF OwnEntries, Known, Local, Owing
  <2> QED BY <2>2, <2>3
<1>17. ASSUME NEW a \in Server, NEW b \in Server, Live(a, b)', NEW n \in Carried(a, b) PROVE Tells(a, b, n)'
  <2>1. ~(a = s /\ b = t) /\ ~(a = t /\ b = s) /\ Live(a, b)
    BY <1>2, <1>8, <1>17 DEF Live
  <2>2. chan[a][b] \in Seq(Mail) /\ n \in Nick
    BY DEF Ready, FilesInv, Posts, Carried
  <2>3. PICK z : Takes(chan[a][b], n, Seen(b, n), z) /\ Matches(z, a, n)
    BY <2>1 DEF Ready, MirrorInv, Tells
  <2>4. b \in Edge[a] /\ a \in Edge[b] /\ a # b
    <3>1. end[b][a] # "down"
      BY <2>1 DEF Live
    <3> QED BY <3>1, Carrying DEF OneWay, Ready, FilesInv, Tables
  <2>5. CASE a = s
    <3>1. b \in Servers(s) /\ end[b][s] # "down" /\ b # t
      BY <2>1, <2>5 DEF Live, Servers
    <3>2. chan'[a][b] = chan[a][b] \o M
      BY <1>2, <1>7, <2>5, <3>1 DEF SplitChans
    <3>3. Seen(b, n)' = Seen(b, n)
      BY <1>12, <2>2, <2>4, <2>5
    <3>4. Takes(M, n, z, IF n \in gone THEN Unseen ELSE z)
      BY <1>5, <1>6, TakesGone
    <3>5. PICK y : Takes(M, n, z, y) /\ Matches(y, a, n)'
      <4>1. CASE n \in gone
        BY <1>10, <2>5, <3>4, <4>1
      <4>2. CASE n \notin gone
        BY <1>12, <2>2, <2>3, <2>5, <3>4, <4>2
      <4> QED BY <4>1, <4>2
    <3>6. Takes(chan[a][b] \o M, n, Seen(b, n), y)
      BY <1>6, <2>2, <2>3, <3>5, TakesJoin
    <3> QED BY <3>2, <3>3, <3>5, <3>6 DEF Tells
  <2>6. CASE a # s
    <3>1. chan'[a][b] = chan[a][b]
      BY <1>7, <2>1, <2>6 DEF SplitChans
    <3>2. b = s => n \notin gone
      <4>1. b = s => a \in Edge[s] /\ a # t
        BY <2>1, <2>4
      <4> QED BY <1>14, <4>1, Carrying DEF OneWay
    <3>3. Seen(b, n)' = Seen(b, n) /\ Matches(z, a, n)'
      BY <1>12, <2>2, <2>3, <2>6, <3>2
    <3> QED BY <2>3, <3>1, <3>3 DEF Tells
  <2> QED BY <2>5, <2>6
<1>18. \A a, b \in Server : Carried(a, b)' = Carried(a, b) /\ Note(a, b)' = Note(a, b)
  BY DEF Carried, Note, Plain
<1> QED BY <1>13, <1>15, <1>16, <1>17, <1>18 DEF MirrorInv

\* sync_user() sends notes: logins from the home of their nicks.
LEMMA SyncNotes ==
  ASSUME OneHome, Ready, NEW s \in Server, NEW t \in Edge[s], t \in Server, t \notin Servers(s),
         NEW q \in Orders(KnownAt(s))
  PROVE  SyncUsers(s, q) \in Seq(Note(s, t))
<1>0. Tables /\ ext \in [Server -> [Nick -> Counters]] /\ OwnEntries(s)
  BY DEF Ready, FilesInv, MirrorInv, Tallied
<1>1. KnownAt(s) \in SUBSET Nick
  BY DEF KnownAt
<1>2. /\ DOMAIN q = 1 .. Cardinality(KnownAt(s)) /\ Cardinality(KnownAt(s)) \in Nat
      /\ \A i \in DOMAIN q : q[i] \in Nick /\ Known(s, q[i])
  BY <1>1, OrdersType DEF KnownAt
<1>3. ASSUME NEW n \in Nick, Known(s, n) PROVE SyncUser(s, n) \in Seq(Note(s, t))
  <2>1. n \in Carried(s, t)
    BY <1>0, <1>3, NewsGoesOn
  <2>2. /\ users[s][n].ts \in Nat /\ users[s][n].home \in Server /\ users[s][n].ip \in Addr
        /\ users[s][n].home \in Home[n]
    BY <1>0, <1>3 DEF Tables, EntriesHaveHomes, Typed, Entry, OwnEntries
  <2>3. ext[s][n].shared \in Nat
    BY <1>0 DEF Counters
  <2> DEFINE k == ext[s][n].shared
             e == users[s][n]
  <2>4. LoginMsg(n, e) \in About(n) /\ SharingMsg(n, k) \in About(n)
    BY <2>2, <2>3, AboutMade
  <2>5. LoginMsg(n, e) \in Note(s, t) /\ SharingMsg(n, k) \in Note(s, t)
    BY <2>1, <2>4 DEF About, Note
  <2>6. SyncUser(s, n) = <<LoginMsg(n, e)>> \o (IF k # 0 THEN <<SharingMsg(n, k)>> ELSE <<>>)
    BY DEF SyncUser
  <2> HIDE DEF k, e
  <2>7. /\ <<LoginMsg(n, e)>> \in Seq(Note(s, t))
        /\ (IF k # 0 THEN <<SharingMsg(n, k)>> ELSE <<>>) \in Seq(Note(s, t))
    BY <2>5, NoteSeqs
  <2> QED BY <2>6, <2>7, NoteSeqs
<1> DEFINE ss == [i \in DOMAIN q |-> SyncUser(s, q[i])]
<1>4. ss \in Seq(Seq(Note(s, t)))
  <2>1. \A i \in DOMAIN q : SyncUser(s, q[i]) \in Seq(Note(s, t))
    BY <1>2, <1>3
  <2> QED BY <1>2, <2>1
<1>5. SyncUsers(s, q) = FlattenSeq(ss)
  BY DEF SyncUsers
<1> HIDE DEF ss
<1> QED BY <1>4, <1>5, Flattening

\* A peer that has learnt nothing from s yet is told what s has.
LEMMA SyncTells ==
  ASSUME OneHome, Ready, NEW s \in Server, NEW t \in Server, t \in Edge[s],
         \A n \in Nick : users[t][n].con # s,
         NEW q \in Orders(KnownAt(s)), NEW n \in Carried(s, t)
  PROVE  /\ SyncUsers(s, q) \in Seq(Mail)
         /\ Takes(SyncUsers(s, q), n, Seen(t, n), Synced(s, n)) /\ Matches(Synced(s, n), s, n)
<1>1. /\ Tables /\ ext \in [Server -> [Nick -> Counters]] /\ OwnEntries(s) /\ OwnEntries(t)
      /\ n \in Nick /\ s \in Edge[t] /\ ext[s][n] \in Counters /\ ext[t][n] \in Counters
  BY Carrying DEF Ready, FilesInv, MirrorInv, Tallied, OneWay, Carried
<1>2. ~Known(t, n)
  <2>1. users[t][n].con \notin Server
    <3>1. users[t][n].con \in Server => n \in Carried(users[t][n].con, t)
      BY <1>1 DEF Tables, FromNear
    <3> QED BY <1>1, <3>1 DEF Carried
  <2>2. ~Local(t, n)
    <3>1. Local(t, n) => t \in Home[n]
      BY <1>1 DEF Tables, FromNear
    <3> QED BY <1>1, <3>1, Carrying DEF OneWay
  <2> QED BY <1>1, <2>1, <2>2 DEF Tables, Typed, Entry, Known, Local
<1>3. Seen(t, n) = Unseen
  <2>1. ext[t][n] = NewUser
    BY <1>1, <1>2 DEF OwnEntries
  <2> QED BY <1>1, <1>2, <2>1, SeenNow
<1>4. Matches(Synced(s, n), s, n)
  <2>1. CASE Known(s, n)
    <3> DEFINE k == ext[s][n].shared
               z == [Fresh EXCEPT !.shared = k]
    <3>1. k \in Nat /\ ext[s][n].uploads \in Nat
      BY <1>1 DEF Counters
    <3>2. Synced(s, n) = z
      BY <2>1 DEF Synced
    <3>3. z \in Sight /\ z.known = TRUE /\ z.shared = k /\ z.uploads = 0
      <4> HIDE DEF k
      <4> QED BY <3>1 DEF Fresh, Sight
    <3>4. z.known = Known(s, n)
      BY <2>1, <3>3 DEF Known
    <3>5. z.uploads <= ext[s][n].uploads
      <4> HIDE DEF z
      <4> QED BY <3>1, <3>3
    <3> HIDE DEF z
    <3> QED BY <3>2, <3>3, <3>4, <3>5 DEF Matches
  <2>2. CASE ~Known(s, n)
    <3>1. Synced(s, n) = Unseen /\ ext[s][n] = NewUser
      BY <1>1, <2>2 DEF Synced, OwnEntries
    <3>2. ext[s][n].shared = 0 /\ ext[s][n].uploads = 0
      BY <3>1 DEF NewUser
    <3>3. Unseen \in Sight /\ Unseen.known = FALSE /\ Unseen.shared = 0 /\ Unseen.uploads = 0
      BY DEF Unseen, Sight
    <3>4. Unseen.known = Known(s, n)
      BY <2>2, <3>3 DEF Known
    <3> QED BY <3>1, <3>2, <3>3, <3>4 DEF Matches
  <2> QED BY <2>1, <2>2
<1> QED BY <1>1, <1>3, <1>4, TakesSync

\* The ACK that precedes the table is no news.
LEMMA AckIsNoNews ==
  ASSUME NEW s \in Server, NEW t \in Server
  PROVE  /\ Ack \in Note(s, t) /\ Ack.type \notin NewsTypes /\ Ack # Eof
         /\ \A n, x : Takes(<<Ack>>, n, x, x)
<1>1. Ack \in Note(s, t) /\ Ack.type \notin NewsTypes /\ Ack # Eof
  BY DEF Ack, Eof, Note, NewsTypes, Mail, Message
<1>2. ASSUME NEW n, NEW x PROVE Takes(<<Ack>>, n, x, x)
  <2>1. Admits(Ack, n, x) /\ Taking(Ack, n, x) = x
    BY <1>1 DEF Admits, Taking, News
  <2>2. Takes(<<Ack>>, n, x, Taking(Ack, n, x))
    BY <2>1, TakesOne
  <2> QED BY <2>1, <2>2
<1> QED BY <1>1, <1>2

\* server_login_ack() where it comes first: the table is sent on a link that is new.
LEMMA OpenMirrored ==
  ASSUME OneHome, Ready, Release, NEW s \in Server, NEW t \in Server,
         NEW q \in Orders(KnownAt(s)), Open(s, t, SyncUsers(s, q))
  PROVE  MirrorInv'
<1> DEFINE M == SyncUsers(s, q)
<1>1. /\ t \in Edge[s] /\ end[s][t] = "down" /\ end[t][s] = "down"
      /\ end' = [end EXCEPT ![s][t] = "up", ![t][s] = "pending"]
      /\ chan' = [chan EXCEPT ![s][t] = <<Ack>> \o M] /\ UNCHANGED <<users, conn>>
  BY DEF Open
<1>2. UNCHANGED ext
  BY <1>1, EntriesStay
<1>3. s \in Edge[t] /\ s # t
  BY <1>1, Carrying DEF OneWay
<1>4. \A a, b \in Server : end'[a][b] = IF a = s /\ b = t THEN "up"
                                        ELSE IF a = t /\ b = s THEN "pending" ELSE end[a][b]
  <2> DEFINE f == [end EXCEPT ![s][t] = "up"]
  <2>1. /\ f \in [Server -> [Server -> {"down", "pending", "up", "dying"}]]
        /\ \A a, b \in Server : f[a][b] = IF a = s /\ b = t THEN "up" ELSE end[a][b]
    BY DEF Ready, FilesInv, Tables, Typed
  <2>2. end' = [f EXCEPT ![t][s] = "pending"]
    BY <1>1
  <2> HIDE DEF f
  <2>3. \A a, b \in Server : end'[a][b] = IF a = t /\ b = s THEN "pending" ELSE f[a][b]
    BY <2>1, <2>2
  <2> QED BY <1>3, <2>1, <2>3
<1>5. \A a, b \in Server : chan'[a][b] = IF a = s /\ b = t THEN <<Ack>> \o M ELSE chan[a][b]
  BY <1>1 DEF Ready, FilesInv, Posts
<1>6. \A a, b \in Server : LinkEnds(a, b) /\ chan[b][a] \in Seq(Note(b, a))
  BY DEF Ready, MirrorInv
<1>7. chan[s][t] = <<>> /\ chan[t][s] = <<>>
  BY <1>1, <1>6 DEF LinkEnds
<1>8. t \notin Servers(s) /\ s \notin Servers(t)
  BY <1>1 DEF Servers
<1>9. \A n \in Nick : users[t][n].con # s /\ users[s][n].con # t
  BY <1>8 DEF Ready, FilesInv, Tables, EntriesHaveConnections
<1>10. M \in Seq(Note(s, t))
  BY <1>1, <1>8, SyncNotes
<1>11. ASSUME NEW n \in Carried(s, t)
       PROVE  /\ M \in Seq(Mail) /\ Takes(M, n, Seen(t, n), Synced(s, n))
              /\ Matches(Synced(s, n), s, n)
  BY <1>1, <1>9, SyncTells
<1> HIDE DEF M
<1>12. <<Ack>> \o M \in Seq(Note(s, t)) /\ <<Ack>> \in Seq(Mail)
  <2>1. <<Ack>> \in Seq(Note(s, t))
    BY AckIsNoNews, NoteSeqs
  <2> QED BY <1>10, <2>1, NoteSeqs
<1>13. users' = users
  BY <1>1
<1>14. ASSUME NEW a \in Server, NEW b \in Server PROVE LinkEnds(a, b)' /\ chan'[b][a] \in Seq(Note(b, a))
  <2>1. chan'[b][a] \in Seq(Note(b, a))
    <3>1. CASE b = s /\ a = t
      BY <1>5, <1>12, <3>1
    <3>2. CASE ~(b = s /\ a = t)
      BY <1>5, <1>6, <3>2
    <3> QED BY <3>1, <3>2
  <2>2. /\ end'[s][t] = "up" /\ end'[t][s] = "pending" /\ chan'[t][s] = <<>>
        /\ \A n \in Nick : users'[s][n].con # t
    BY <1>3, <1>4, <1>5, <1>7, <1>9, <1>13
  <2>3. CASE a = s /\ b = t
    BY <1>1, <2>1, <2>2, <2>3 DEF LinkEnds
  <2>4. CASE a = t /\ b = s
    BY <1>3, <2>1, <2>2, <2>4 DEF LinkEnds
  <2>5. CASE ~(a = s /\ b = t) /\ ~(a = t /\ b = s)
    <3>1. /\ end'[a][b] = end[a][b] /\ end'[b][a] = end[b][a]
          /\ chan'[a][b] = chan[a][b] /\ chan'[b][a] = chan[b][a] /\ users' = users
      BY <1>4, <1>5, <1>13, <2>5
    <3> QED BY <1>6, <2>1, <3>1 DEF LinkEnds, HasEof
  <2> QED BY <2>3, <2>4, <2>5
<1>15. ASSUME NEW a \in Server, NEW b \in Server, Live(a, b)', NEW n \in Carried(a, b)
       PROVE  \E z : Takes(chan'[a][b], n, Seen(b, n), z) /\ Matches(z, a, n)
  <2>1. CASE a = s /\ b = t
    <3>1. /\ M \in Seq(Mail) /\ Takes(M, n, Seen(t, n), Synced(s, n))
          /\ Matches(Synced(s, n), s, n)
      BY <1>11, <2>1
    <3>2. Takes(<<Ack>>, n, Seen(t, n), Seen(t, n))
      BY AckIsNoNews
    <3>3. Takes(<<Ack>> \o M, n, Seen(t, n), Synced(s, n))
      BY <1>12, <3>1, <3>2, TakesJoin
    <3>4. chan'[a][b] = <<Ack>> \o M
      BY <1>5, <2>1
    <3> QED BY <2>1, <3>1, <3>3, <3>4
  <2>2. CASE ~(a = s /\ b = t)
    <3>1. ~(a = t /\ b = s)
      BY <1>3, <1>4, <1>15 DEF Live
    <3>2. Live(a, b) /\ chan'[a][b] = chan[a][b]
      BY <1>4, <1>5, <1>15, <2>2, <3>1 DEF Live
    <3> QED BY <3>2 DEF Ready, MirrorInv, Tells
  <2> QED BY <2>1, <2>2
<1> QED BY <1>1, <1>2, <1>14, <1>15, LinksKeep DEF Ready

\* server_login_ack() at the other side.
LEMMA AcknowledgeMirrored ==
  ASSUME OneHome, Ready, Release, NEW s \in Server, NEW t \in Server,
         NEW q \in Orders(KnownAt(s)), Acknowledge(s, t, SyncUsers(s, q))
  PROVE  MirrorInv'
<1> DEFINE M == SyncUsers(s, q)
<1>1. /\ end[s][t] = "pending" /\ chan[t][s] # <<>> /\ Head(chan[t][s]) = Ack
      /\ end' = [end EXCEPT ![s][t] = "up"]
      /\ chan' = IF end[t][s] # "down" THEN [Received(t, s) EXCEPT ![s][t] = @ \o M] ELSE Received(t, s)
      /\ UNCHANGED <<users, conn>>
  BY DEF Acknowledge
<1>2. UNCHANGED ext
  BY <1>1, EntriesStay
<1>3. \A a, b \in Server : LinkEnds(a, b) /\ chan[b][a] \in Seq(Note(b, a))
  BY DEF Ready, MirrorInv
<1>4. /\ t \in Edge[s] /\ s \in Edge[t] /\ s # t
      /\ chan[s][t] = <<>> /\ \A n \in Nick : users[t][n].con # s
      /\ end[t][s] # "pending"
  BY <1>1, <1>3, Carrying DEF LinkEnds, OneWay
<1>5. \A a, b \in Server : end'[a][b] = IF a = s /\ b = t THEN "up" ELSE end[a][b]
  BY <1>1 DEF Ready, FilesInv, Tables, Typed
<1>6. t \notin Servers(s)
  BY <1>1 DEF Servers
<1>7. M \in Seq(Note(s, t))
  BY <1>4, <1>6, SyncNotes
<1>8. ASSUME NEW n \in Carried(s, t)
      PROVE  Takes(M, n, Seen(t, n), Synced(s, n)) /\ Matches(Synced(s, n), s, n)
  BY <1>4, SyncTells
<1> HIDE DEF M
<1>9. Ack.type \notin NewsTypes /\ Ack # Eof
  BY AckIsNoNews
<1>10. \A a, b \in Server : chan'[a][b] = IF a = t /\ b = s THEN Tail(chan[t][s])
                                          ELSE IF a = s /\ b = t /\ end[t][s] # "down" THEN M ELSE chan[a][b]
  <2> DEFINE R == Received(t, s)
  <2>1. /\ \A a, b \in Server : R[a][b] = IF a = t /\ b = s THEN Tail(chan[t][s]) ELSE chan[a][b]
        /\ R = [a \in Server |-> R[a]] /\ R[s] = chan[s]
    BY <1>4 DEF Ready, FilesInv, Posts, Received
  <2>2. <<>> \o M = M
    BY <1>7, ConcatEmptySeq
  <2> HIDE DEF R
  <2>3. CASE end[t][s] # "down"
    <3>1. chan' = [R EXCEPT ![s][t] = @ \o M]
      BY <1>1, <2>3 DEF R
    <3>2. chan[s] = [b \in Server |-> chan[s][b]]
      BY DEF Ready, FilesInv, Posts
    <3>3. \A a, b \in Server : chan'[a][b] = IF a = s /\ b = t THEN R[s][t] \o M ELSE R[a][b]
      BY <2>1, <3>1, <3>2
    <3>4. R[s][t] \o M = M
      BY <1>4, <2>1, <2>2
    <3>5. s # t /\ \A a, b \in Server : R[a][b] = IF a = t /\ b = s THEN Tail(chan[t][s]) ELSE chan[a][b]
      BY <1>4, <2>1
    <3>6. \A a, b \in Server : chan'[a][b] = IF a = s /\ b = t THEN M ELSE R[a][b]
      BY ONLY <3>3, <3>4
    <3> QED BY ONLY <2>3, <3>5, <3>6
  <2>4. CASE end[t][s] = "down"
    BY <1>1, <2>1, <2>4 DEF R
  <2> QED BY <2>3, <2>4
<1>11. ASSUME NEW a \in Server, NEW b \in Server PROVE chan'[b][a] \in Seq(Note(b, a))
  <2>1. Tail(chan[t][s]) \in Seq(Note(t, s))
    BY <1>1, <1>3, NoteSeqs
  <2> QED BY ONLY <1>3, <1>7, <1>10, <2>1, a \in Server, b \in Server
<1>12. ASSUME NEW a \in Server, NEW b \in Server PROVE LinkEnds(a, b)'
  <2>1. LinkEnds(a, b)
    BY <1>3
  <2>2. CASE a = s /\ b = t
    <3>1. end[t][s] = "down" => HasEof(chan[t][s])
      BY <1>1, <2>1, <2>2 DEF LinkEnds
    <3>2. HasEof(chan[t][s]) => HasEof(Tail(chan[t][s]))
      BY <1>1, <1>3, <1>9, EofStays
    <3>3. /\ end'[s][t] = "up" /\ end'[t][s] = end[t][s] /\ chan'[t][s] = Tail(chan[t][s])
      BY <1>4, <1>5, <1>10
    <3> QED BY <1>4, <2>2, <3>1, <3>2, <3>3 DEF LinkEnds
  <2>3. CASE ~(a = s /\ b = t)
    <3>1. end'[a][b] = end[a][b]
      BY <1>5, <2>3
    <3>2. end[a][b] = "down" => chan'[b][a] = <<>>
      BY <1>10, <2>1, <2>3 DEF LinkEnds
    <3>3. end[a][b] = "pending" => chan'[a][b] = <<>>
      BY <1>4, <1>10, <2>1, <2>3 DEF LinkEnds
    <3>4. end'[b][a] = "down" /\ end[a][b] \in {"up", "pending"} => HasEof(chan'[b][a])
      BY <1>1, <1>5, <1>10, <2>1, <2>3 DEF LinkEnds
    <3>5. \A n \in Nick : users'[b][n].con = users[b][n].con
      BY <1>1
    <3> QED BY <2>1, <3>1, <3>2, <3>3, <3>4, <3>5 DEF LinkEnds
  <2> QED BY <2>2, <2>3
<1>13. ASSUME NEW a \in Server, NEW b \in Server, Live(a, b)', NEW n \in Carried(a, b)
       PROVE  \E z : Takes(chan'[a][b], n, Seen(b, n), z) /\ Matches(z, a, n)
  <2>1. CASE a = s /\ b = t
    <3>1. end[t][s] # "down"
      BY <1>4, <1>5, <1>13, <2>1 DEF Live
    <3>2. chan'[a][b] = M
      BY <1>4, <1>10, <2>1, <3>1
    <3> QED BY <1>8, <2>1, <3>2
  <2>2. CASE a = t /\ b = s
    <3>1. Live(t, s)
      BY <1>1, <1>4, <1>5, <1>13, <2>2 DEF Live
    <3>2. chan'[a][b] = Tail(chan[t][s])
      BY <1>10, <2>2
    <3> QED BY <1>1, <1>9, <1>13, <2>2, <3>1, <3>2, SilentTells DEF Ready
  <2>3. CASE ~(a = s /\ b = t) /\ ~(a = t /\ b = s)
    <3>1. Live(a, b) /\ chan'[a][b] = chan[a][b]
      BY <1>5, <1>10, <1>13, <2>3 DEF Live
    <3> QED BY <3>1 DEF Ready, MirrorInv, Tells
  <2> QED BY <2>1, <2>2, <2>3
<1> QED BY <1>1, <1>2, <1>11, <1>12, <1>13, LinksKeep DEF Ready

\* Nobody is known at first.
LEMMA InitMirror == ASSUME OneHome, SessionsInit PROVE MirrorInv
<1>1. /\ users = [s \in Server |-> [n \in Nick |-> Absent]]
      /\ conn = [s \in Server |-> [c \in Conn |-> Free]]
      /\ end = [s \in Server |-> [t \in Server |->
                 IF Linked0 /\ t \in Edge[s] THEN "up" ELSE "down"]]
      /\ chan = [s \in Server |-> [t \in Server |-> <<>>]]
      /\ ext = [s \in Server |-> [n \in Nick |-> NewUser]]
  BY DEF SessionsInit, Init
<1>2. \A s, t \in Server : end[s][t] = (IF Linked0 /\ t \in Edge[s] THEN "up" ELSE "down") /\ chan[s][t] = <<>>
  BY <1>1
<1>3. \A s \in Server, n \in Nick : users[s][n] = Absent /\ ext[s][n] = NewUser
  BY <1>1
<1>4. Absent.con = None /\ None \notin Conn /\ Free.class = "free"
      /\ ~NewUser.sharing /\ ~NewUser.unsharing /\ NewUser.shared = 0 /\ NewUser.uploads = 0
      /\ NewUser \in Counters
  BY DisjointNames DEF Absent, Free, NewUser, Counters
<1>5. ASSUME NEW s \in Server, NEW t \in Server PROVE LinkEnds(s, t) /\ chan[t][s] \in Seq(Note(t, s))
  <2>1. \A u \in Edge[s] : s \in Edge[u]
    BY Carrying, Environment DEF OneWay
  <2>2. \A u \in Edge[t] : t \in Edge[u]
    BY Carrying, Environment DEF OneWay
  <2>3. LinkEnds(s, t)
    BY <1>2, <2>1, <2>2 DEF LinkEnds
  <2> QED BY <1>2, <2>3, NoteSeqs
<1>6. \A s \in Server : OwnEntries(s) /\ NobodyKilled(s)
  <2>1. \A s \in Server : OwnEntries(s)
    BY <1>3, <1>4 DEF OwnEntries, Known, Owing
  <2>2. \A s \in Server, c \in Conn : conn[s][c] = Free
    BY <1>1
  <2> QED BY <1>4, <2>1, <2>2 DEF NobodyKilled
<1>7. ASSUME NEW s \in Server, NEW t \in Server, NEW n \in Carried(t, s) PROVE Tells(t, s, n)
  <2>1. /\ n \in Nick /\ ext[s][n] = NewUser /\ ext[t][n] = NewUser
        /\ users[s][n].con = None /\ users[t][n].con = None
    BY <1>3, <1>4 DEF Carried
  <2>2. Seen(s, n) = Unseen
    <3>1. ~Known(s, n) /\ ext[s][n] \in Counters
      BY <1>4, <2>1 DEF Known
    <3> QED BY <2>1, <3>1, SeenNow
  <2>3. Takes(chan[t][s], n, Seen(s, n), Unseen)
    BY <1>2, <2>2, TakesNone
  <2>4. Unseen \in Sight /\ Unseen.known = FALSE /\ Unseen.shared = 0 /\ Unseen.uploads = 0
    BY DEF Unseen, Sight
  <2>5. /\ Unseen.known = Known(t, n) /\ Unseen.shared = ext[t][n].shared
        /\ Unseen.uploads <= ext[t][n].uploads
    <3>1. ext[t][n].shared = 0 /\ ext[t][n].uploads = 0
      BY <1>4, <2>1
    <3>2. Unseen.known = Known(t, n)
      BY <2>1, <2>4 DEF Known
    <3> QED BY <2>4, <3>1, <3>2
  <2> QED BY <2>3, <2>4, <2>5 DEF Tells, Matches
<1> QED BY <1>5, <1>6, <1>7 DEF MirrorInv

\* All steps of Sessions.
LEMMA NextMirror ==
  ASSUME OneHome, FilesInv, ListsTyped, MirrorInv, [SessionsNext]_all_vars
  PROVE  MirrorInv'
<1>1. FilesInv'
  BY NextFiles
<1>2. Ready
  BY <1>1 DEF Ready, FilesInv, Tallied
<1>3. CASE UserStep /\ Release
  <2>1. \/ \/ Tick \/ \E s \in Server : EndRead(s) \/ \E c \in Conn : Disconnect(s, c)
        \/ \E s \in Server, c \in Conn, n \in Nick, ip \in Addr : Login(s, c, n, ip)
        \/ \E s \in Server : Reap(s)
        \/ \E s, t \in Server : \/ LinkFails(s, t) \/ RecvEof(s, t) \/ JoinLink(s, t)
                                \/ RecvLogin(s, t) \/ RecvQuit(s, t) \/ RecvKill(s, t)
    BY <1>3 DEF UserStep
  <2>2. CASE \/ Tick \/ \E s \in Server : EndRead(s) \/ \E c \in Conn : Disconnect(s, c)
    BY <1>2, <1>3, <2>2, MarksMirrored
  <2>3. ASSUME NEW s \in Server, NEW c \in Conn, NEW n \in Nick, NEW ip \in Addr, Login(s, c, n, ip)
        PROVE  MirrorInv'
    BY <1>2, <1>3, <2>3, LoginMirrored
  <2>4. ASSUME NEW s \in Server, Reap(s) PROVE MirrorInv'
    BY <1>2, <1>3, <2>4, ReapUserMirrored, ReapLinkMirrored DEF Reap
  <2>5. ASSUME NEW s \in Server, NEW t \in Server, LinkFails(s, t) \/ RecvEof(s, t) PROVE MirrorInv'
    BY <1>2, <1>3, <2>5, LinkDiesMirrored
  <2>6. ASSUME NEW s \in Server, NEW t \in Server, JoinLink(s, t) PROVE MirrorInv'
    BY <1>2, <1>3, <2>6, OpenMirrored, AcknowledgeMirrored DEF JoinLink
  <2>7. ASSUME NEW s \in Server, NEW t \in Server, RecvLogin(s, t) \/ RecvQuit(s, t) \/ RecvKill(s, t)
        PROVE  MirrorInv'
    BY <1>2, <1>3, <2>7, RecvLoginMirrored, RecvQuitMirrored, RecvKillMirrored
  <2> QED BY <2>1, <2>2, <2>3, <2>4, <2>5, <2>6, <2>7
<1>4. CASE CommandStep
  BY <1>2, <1>4, CommandsMirrored
<1>5. ASSUME NEW s \in Server, NEW t \in Server, RecvSharing(s, t) \/ RecvUpload(s, t) PROVE MirrorInv'
  BY <1>2, <1>5, RecvSharingMirrored, RecvUploadMirrored
<1>6. CASE UNCHANGED all_vars
  BY <1>6, StillKeeps DEF all_vars, vars, ext_vars
<1> QED BY <1>3, <1>4, <1>5, <1>6 DEF SessionsNext

\* The invariant, in every state.
LEMMA AlwaysMirror == ASSUME OneHome PROVE SessionsSpec => [](FilesInv /\ MirrorInv)
<1> DEFINE SInv == FilesInv /\ HotlistInv /\ MirrorInv
<1>1. SessionsInit => SInv
  BY InitFiles, InitHotlists, InitMirror
<1>2. SInv /\ [SessionsNext]_all_vars => SInv'
  BY NextFiles, NextHotlists, NextMirror DEF HotlistInv
<1>3. SInv => FilesInv /\ MirrorInv
  OBVIOUS
<1> HIDE DEF SInv
<1> QED BY <1>1, <1>2, <1>3, PTL DEF SessionsSpec

\* The way home of a nick.
LEMMA HomewardLeads ==
  ASSUME OneHome, NEW n \in Nick
  PROVE  LeadsTo(Homeward[n], HomeOf(n)) /\ Home[n] \subseteq {HomeOf(n)}
<1>1. HomeOf(n) \in Server /\ Home[n] \subseteq {HomeOf(n)}
  BY DEF OneHome, HomeOf, Sole
<1>2. Homeward[n] = CHOOSE next \in [Server -> Server] : LeadsTo(next, HomeOf(n))
  BY DEF Homeward, Toward
<1>3. LeadsTo(Homeward[n], HomeOf(n))
  BY <1>1, <1>2, NoCycles
<1> QED BY <1>1, <1>3

\* The way home ends: no servers send one another's news round and round.  Were it so
\* among the servers B, the way towards one of them, r, would give each server of B one
\* of the others.
LEMMA NoEndlessWay ==
  ASSUME NEW next, NEW h, LeadsTo(next, h), NEW B \in SUBSET Server,
         \A v \in B : next[v] \in B /\ next[v] \in Edge[v]
  PROVE  B = {}
<1> SUFFICES ASSUME NEW r \in B PROVE FALSE
  OBVIOUS
<1>1. PICK to \in [Server -> Server] : LeadsTo(to, r)
  BY NoCycles
<1>2. to[r] \notin Edge[r]
  BY <1>1 DEF LeadsTo
<1>3. ASSUME NEW v \in B, to[v] # next[v] PROVE to[next[v]] = v /\ v \in Edge[next[v]]
  <2>1. next[v] \in Server /\ next[v] \in Edge[v]
    OBVIOUS
  <2>2. v \in Edge[next[v]]
    BY <2>1, NoCycles
  <2>3. (to[v] = next[v]) # (to[next[v]] = v)
    BY <1>1, <2>1 DEF LeadsTo
  <2> QED BY <1>3, <2>2, <2>3
<1>4. ASSUME NEW v \in B PROVE next[next[v]] # v
  <2>1. next[v] \in Server /\ next[v] \in Edge[v]
    OBVIOUS
  <2>2. (next[v] = next[v]) # (next[next[v]] = v)
    BY <2>1 DEF LeadsTo
  <2> QED BY <2>2
<1> DEFINE f == [v \in B |-> IF to[v] = next[v] THEN v ELSE next[v]]
<1>5. f \in [B -> B \ {r}]
  <2>1. ASSUME NEW v \in B, to[v] = next[v] PROVE v # r
    BY <1>2, <2>1
  <2>2. ASSUME NEW v \in B, to[v] # next[v] PROVE next[v] # r
    BY <1>2, <1>3, <2>2
  <2> QED BY <2>1, <2>2
<1>6. ASSUME NEW v \in B, NEW w \in B, f[v] = f[w] PROVE v = w
  <2>1. CASE to[v] = next[v] /\ to[w] = next[w]
    BY <1>6, <2>1
  <2>2. CASE to[v] = next[v] /\ to[w] # next[w]
    <3>1. v = next[w] /\ to[v] = w
      BY <1>3, <1>6, <2>2
    <3> QED BY <1>4, <2>2, <3>1
  <2>3. CASE to[v] # next[v] /\ to[w] = next[w]
    <3>1. w = next[v] /\ to[w] = v
      BY <1>3, <1>6, <2>3
    <3> QED BY <1>4, <2>3, <3>1
  <2>4. CASE to[v] # next[v] /\ to[w] # next[w]
    BY <1>3, <1>6, <2>4
  <2> QED BY <2>1, <2>2, <2>3, <2>4
<1> HIDE DEF f
<1>7. IsFiniteSet(B)
  BY FiniteNet, FS_Subset
<1>8. /\ IsFiniteSet(B \ {r}) /\ Cardinality(B \ {r}) = Cardinality(B) - 1
      /\ Cardinality(B) \in Nat
  BY <1>7, FS_RemoveElement, FS_CardinalityType
<1>9. \E v, w \in B : v # w /\ f[v] = f[w]
  <2>1. Cardinality(B) > Cardinality(B \ {r})
    BY <1>8
  <2> QED BY <1>5, <1>7, <1>8, <2>1, FS_PigeonHole
<1> QED BY <1>6, <1>9

\* When nothing is in flight, what a server has of a user of another it has from the next
\* server on the user's way home.
LEMMA NextOnTheWay ==
  ASSUME OneHome, FilesInv, MirrorInv, Quiet, NEW v \in Server, NEW n \in Nick, Known(v, n), v # HomeOf(n)
  PROVE  LET u == Homeward[n][v]
         IN  /\ u \in Server /\ u \in Edge[v] /\ Known(u, n)
             /\ ext[v][n].uploads <= ext[u][n].uploads
             /\ ext[v][n].shared = ext[u][n].shared \/ Owing(u, n)
<1>1. ~Local(v, n)
  <2>1. Local(v, n) => v \in Home[n]
    BY DEF FilesInv, Tables, FromNear
  <2> QED BY <2>1, HomewardLeads
<1>2. PICK u \in Server : users[v][n].con = u
  BY <1>1 DEF FilesInv, Tables, Typed, Entry, Known, Local
<1>3. n \in Carried(u, v)
  BY <1>2 DEF FilesInv, Tables, FromNear
<1>4. u \in Edge[v] /\ Homeward[n][v] = u
  BY <1>3 DEF Carried
<1>5. end[v][u] = "up"
  <2>1. u \in Servers(v)
    BY <1>2 DEF FilesInv, Tables, EntriesHaveConnections
  <2> QED BY <2>1 DEF Servers, Quiet
<1>6. chan[u][v] = <<>>
  BY DEF Quiet
<1>7. end[u][v] # "down"
  <2>1. 1 .. Len(<<>>) = {}
    OBVIOUS
  <2>2. ~HasEof(chan[u][v])
    BY <1>6, <2>1 DEF HasEof
  <2> QED BY <1>5, <2>2 DEF MirrorInv, LinkEnds
<1>8. Live(u, v)
  BY <1>5, <1>7 DEF Live, Quiet
<1>9. PICK z : Takes(chan[u][v], n, Seen(v, n), z) /\ Matches(z, u, n)
  BY <1>3, <1>8 DEF MirrorInv, Tells
<1>10. z = Seen(v, n)
  <2>1. PICK x : x = Seen(v, n)
    OBVIOUS
  <2>2. Takes(<<>>, n, x, z)
    BY <1>6, <1>9, <2>1
  <2>3. z = x
    BY ONLY <2>2, TakesNone
  <2> QED BY <2>1, <2>3
<1>11. ext[v][n] \in Counters
  BY DEF FilesInv, Tallied
<1>12. Seen(v, n).known = Known(v, n) /\ Seen(v, n).shared = ext[v][n].shared
       /\ Seen(v, n).uploads = ext[v][n].uploads
  BY <1>11, SeenNow
<1>13. Known(u, n)
  <2>1. z.known = Known(u, n) /\ z.known = Known(v, n)
    BY <1>9, <1>10, <1>12 DEF Matches
  <2> QED BY <2>1 DEF Known
<1>14. /\ ext[v][n].uploads <= ext[u][n].uploads
       /\ ext[v][n].shared = ext[u][n].shared \/ Owing(u, n)
  BY <1>9, <1>10, <1>12 DEF Matches
<1> QED BY <1>4, <1>13, <1>14

\* Wherever a nick is known, it is known to be of its home.
LEMMA KnownHome ==
  ASSUME OneHome, MirrorInv, NEW s \in Server, NEW n \in Nick, Known(s, n)
  PROVE  users[s][n].home = HomeOf(n)
BY HomewardLeads DEF MirrorInv, OwnEntries

\* Where every nick has one home, no server believes in more uploads of a user than the
\* user's own server, once nothing is in flight: upload_start() and upload_end() go to
\* all peers, and synch_server(), free_user() and server_split() leave nothing to count.
THEOREM UploadsReal == ASSUME OneHome PROVE SessionsSpec => []NoPhantomUploads
<1>1. ASSUME FilesInv, MirrorInv PROVE NoPhantomUploads
  <2> SUFFICES ASSUME Quiet, NEW s \in Server, NEW n \in Nick, Known(s, n)
               PROVE  ext[s][n].uploads <= ext[users[s][n].home][n].uploads
    BY DEF NoPhantomUploads
  <2> DEFINE h == HomeOf(n)
             B == {v \in Server : Known(v, n) /\ ~(ext[v][n].uploads <= ext[h][n].uploads)}
  <2>1. users[s][n].home = h /\ LeadsTo(Homeward[n], h) /\ h \in Server
    BY <1>1, KnownHome, HomewardLeads DEF OneHome, HomeOf, Sole
  <2>2. \A v \in Server : ext[v][n].uploads \in Nat
    BY <1>1 DEF FilesInv, Tallied, Counters
  <2>3. ASSUME NEW v \in B PROVE Homeward[n][v] \in B /\ Homeward[n][v] \in Edge[v]
    <3>1. v \in Server /\ Known(v, n) /\ ~(ext[v][n].uploads <= ext[h][n].uploads)
      OBVIOUS
    <3>2. v # h
      BY <2>2, <3>1
    <3>3. PICK u \in Server : /\ u = Homeward[n][v] /\ u \in Edge[v] /\ Known(u, n)
                              /\ ext[v][n].uploads <= ext[u][n].uploads
      BY <1>1, <3>1, <3>2, NextOnTheWay
    <3>4. ~(ext[u][n].uploads <= ext[h][n].uploads)
      BY <2>1, <2>2, <3>1, <3>3
    <3> QED BY <3>3, <3>4
  <2>4. B \in SUBSET Server
    OBVIOUS
  <2>5. B = {}
    <3> HIDE DEF B, h
    <3> QED BY <2>1, <2>3, <2>4, NoEndlessWay
  <2> QED BY <2>1, <2>5
<1> QED BY <1>1, AlwaysMirror, PTL

\* Where every nick has one home, every server comes to the number of files of a user that
\* the user's own server has, unless the report of handle_connection() still waits: what
\* add_file() and remove_file() count is told by user_sharing() and synch_server().
THEOREM SharesKnown == ASSUME OneHome PROVE SessionsSpec => []SharesReach
<1>1. ASSUME FilesInv, MirrorInv PROVE SharesReach
  <2> SUFFICES ASSUME Quiet, NEW s \in Server, NEW n \in Nick, Known(s, n),
                      ~Owing(users[s][n].home, n)
               PROVE  ext[s][n].shared = ext[users[s][n].home][n].shared
    BY DEF SharesReach, Owing
  <2> DEFINE h == HomeOf(n)
             B == {v \in Server : Known(v, n) /\ ext[v][n].shared # ext[h][n].shared}
  <2>1. users[s][n].home = h /\ LeadsTo(Homeward[n], h) /\ Home[n] \subseteq {h}
    BY <1>1, KnownHome, HomewardLeads
  <2>2. ASSUME NEW v \in B PROVE Homeward[n][v] \in B /\ Homeward[n][v] \in Edge[v]
    <3>1. v \in Server /\ Known(v, n) /\ ext[v][n].shared # ext[h][n].shared
      OBVIOUS
    <3>2. v # h
      BY <3>1
    <3>3. PICK u \in Server : /\ u = Homeward[n][v] /\ u \in Edge[v] /\ Known(u, n)
                              /\ ext[v][n].shared = ext[u][n].shared \/ Owing(u, n)
      BY <1>1, <3>1, <3>2, NextOnTheWay
    <3>4. ~Owing(u, n)
      <4>1. Owing(u, n) => Local(u, n)
        BY <1>1 DEF MirrorInv, OwnEntries
      <4>2. Local(u, n) => u \in Home[n]
        BY <1>1 DEF FilesInv, Tables, FromNear
      <4> QED BY <2>1, <4>1, <4>2
    <3> QED BY <3>1, <3>3, <3>4
  <2>3. B \in SUBSET Server
    OBVIOUS
  <2>4. B = {}
    <3> HIDE DEF B, h
    <3> QED BY <2>1, <2>2, <2>3, NoEndlessWay
  <2> QED BY <2>1, <2>4
<1> QED BY <1>1, AlwaysMirror, PTL

=============================================================================
