-------------------------- MODULE FileIndexProofs --------------------------
(***************************************************************************)
(* Proofs about FileIndex for any files, sizes, words, connections and     *)
(* memory: types, what is unshared is invalid and what is shared is left   *)
(* alone, a search finds what it can and nothing else, and memory is freed *)
(* with its last reference.                                                *)
(***************************************************************************)
EXTENDS FileIndex, FiniteSetTheorems, SequenceTheorems, TLAPS

\* ValidWhileShared, said of the tables: what is valid is held by some table, and what
\* is held has the name and the size it was given with, and one connection holds it
Holding ==
  /\ \A d \in Cell : Valid(d) => \E c \in Conn, f \in File : files[c][f] = d
  /\ \A c \in Conn, f \in File :
       files[c][f] # None => /\ datum[files[c][f]].file = f
                             /\ datum[files[c][f]].size = given[c][f]
  /\ \A b, c \in Conn, e, f \in File :
       (files[b][e] = files[c][f] /\ files[c][f] # None) => b = c /\ e = f

\* what is shared and valid is in the bins of its indexed words
InItsBins ==
  \A c \in Conn, f \in File : (files[c][f] # None /\ given[c][f] # Invalid) =>
    \A w \in Indexed(f) : files[c][f] \in bins[w]

IInv == TypeOK /\ Holding /\ InItsBins

\* NoDanglingDatum, and that the references are never more than the field
\* can tell apart: without that bound, 32 references dropped by one could
\* not be told from none.
Counted ==
  \A d \in Cell : /\ datum[d].used <=> Refs(d) # 0
                  /\ datum[d].refcount = Refs(d) % RefRange
                  /\ Refs(d) \in 0 .. RefRange

\* The inductive invariant is IInv /\ Counted: a DATUM that is marked invalid while it is
\* shared is collected, and only the count keeps its memory from being freed then.
-----------------------------------------------------------------------------
(* Lemmas on the operators *)

\* The indexed tokens are among the tokens of a file.
LEMMA IndexedTokens ==
  ASSUME NEW f \in File
  PROVE  Indexed(f) \subseteq ToSet(Tokens[f]) /\ Indexed(f) \subseteq Word
<1> DEFINE q == Tokens[f]
           m == IF Len(q) > MaxTokens THEN Len(q) - MaxTokens + 1 ELSE 1
<1>1. q \in Seq(Word) /\ MaxTokens \in Nat
  BY Setting
<1>2. Len(q) \in Nat /\ m \in Nat /\ m >= 1 /\ DOMAIN q = 1 .. Len(q)
  BY <1>1
<1>3. \A i \in DOMAIN q : q[i] \in Word
  BY <1>1
<1>4. Indexed(f) = ToSet(SubSeq(q, m, Len(q)))
  BY DEF Indexed
<1> HIDE DEF q, m
<1>5. /\ SubSeq(q, m, Len(q)) \in Seq(Word)
      /\ Len(SubSeq(q, m, Len(q))) = IF m <= Len(q) THEN Len(q) - m + 1 ELSE 0
      /\ \A i \in 1 .. Len(q) - m + 1 : SubSeq(q, m, Len(q))[i] = q[m + i - 1]
  <2>1. \A i \in m .. Len(q) : q[i] \in Word
    BY <1>2, <1>3
  <2>2. m \in Int /\ Len(q) \in Int
    BY <1>2
  <2> QED BY <2>1, <2>2, SubSeqProperties
<1>6. ASSUME NEW j \in DOMAIN SubSeq(q, m, Len(q))
      PROVE  m + j - 1 \in DOMAIN q /\ SubSeq(q, m, Len(q))[j] = q[m + j - 1]
  <2>1. DOMAIN SubSeq(q, m, Len(q)) = 1 .. (IF m <= Len(q) THEN Len(q) - m + 1 ELSE 0)
    BY <1>5
  <2>2. j \in 1 .. Len(q) - m + 1 /\ m + j - 1 \in DOMAIN q
    BY <1>2, <1>6, <2>1
  <2> QED BY <1>5, <2>2
<1>7. \A x \in Indexed(f) : \E i \in DOMAIN q : x = q[i]
  BY <1>4, <1>6 DEF ToSet
<1> QED BY <1>3, <1>7 DEF ToSet, q

\* free_datum() leaves a typed, invalid record; it is not called zero times
LEMMA FreeDatumFacts ==
  ASSUME NEW x \in Datum, NEW k \in Nat
  PROVE  /\ FreeDatum(x, k) \in Datum
         /\ k = 0 => FreeDatum(x, k) = x
         /\ k # 0 => FreeDatum(x, k).size = Invalid
<1>0. RefRange \in Nat \ {0} /\ x.refcount \in 0 .. RefRange - 1
      /\ Invalid \in 0 .. SizeRange - 1
  BY Setting DEF Datum, Invalid
<1> HIDE DEF Invalid
<1>1. (x.refcount - k) % RefRange \in 0 .. RefRange - 1
  BY <1>0
<1>2. Free \in Datum /\ Free.size = Invalid
  BY <1>0 DEF Free, Datum
<1>3. /\ [x EXCEPT !.size = Invalid, !.refcount = (@ - k) % RefRange] \in Datum
      /\ [x EXCEPT !.size = Invalid, !.refcount = (@ - k) % RefRange].size = Invalid
  BY <1>0, <1>1 DEF Datum
<1> QED BY <1>2, <1>3 DEF FreeDatum

\* No more tokens are indexed than the loop of insert_datum() lets through.
LEMMA IndexedFew ==
  ASSUME NEW f \in File
  PROVE  IsFiniteSet(Indexed(f)) /\ Cardinality(Indexed(f)) \in 0 .. MaxTokens
<1> DEFINE q == Tokens[f]
           m == IF Len(q) > MaxTokens THEN Len(q) - MaxTokens + 1 ELSE 1
           s == SubSeq(q, m, Len(q))
<1>1. q \in Seq(Word) /\ MaxTokens \in Nat
  BY Setting
<1>2. Len(q) \in Nat /\ m \in Nat /\ m >= 1 /\ DOMAIN q = 1 .. Len(q)
  BY <1>1
<1>3. \A i \in DOMAIN q : q[i] \in Word
  BY <1>1
<1>4. Indexed(f) = ToSet(s)
  BY DEF Indexed
<1>5. Len(q) - m + 1 <= MaxTokens
  BY <1>1, <1>2
<1> HIDE DEF q, m
<1>6. s \in Seq(Word) /\ Len(s) = IF m <= Len(q) THEN Len(q) - m + 1 ELSE 0
  <2>1. \A i \in m .. Len(q) : q[i] \in Word
    BY <1>2, <1>3
  <2>2. m \in Int /\ Len(q) \in Int
    BY <1>2
  <2> QED BY <2>1, <2>2, SubSeqProperties
<1> DEFINE n == Len(s)
<1> HIDE DEF s
<1>7. n \in Nat /\ n <= MaxTokens /\ DOMAIN s = 1 .. n
  BY <1>1, <1>2, <1>5, <1>6
<1>8. s \in Surjection(1 .. n, Indexed(f))
  BY <1>4, <1>6, <1>7 DEF Surjection, ToSet
<1> HIDE DEF n
<1>9. IsFiniteSet(1 .. n) /\ Cardinality(1 .. n) = n
  <2>1. 1 \in Int /\ n \in Int /\ (IF 1 > n THEN 0 ELSE n - 1 + 1) = n
    BY <1>7
  <2> QED BY <2>1, FS_Interval
<1>10. IsFiniteSet(Indexed(f)) /\ Cardinality(Indexed(f)) <= n
  BY <1>8, <1>9, FS_Surjection
<1>11. Cardinality(Indexed(f)) \in Nat
  BY <1>10, FS_CardinalityType
<1> QED BY <1>1, <1>7, <1>10, <1>11

\* Taking k of r references away leaves the count of r - k, and frees the
\* memory, with the name of the file, exactly when none is left.
LEMMA FreeDatumCounts ==
  ASSUME NEW x \in Datum, NEW r \in 0 .. RefRange, NEW k \in 0 .. r,
         x.used <=> r # 0, x.refcount = r % RefRange
  PROVE  /\ FreeDatum(x, k).used <=> r - k # 0
         /\ FreeDatum(x, k).refcount = (r - k) % RefRange
         /\ k # r => FreeDatum(x, k).file = x.file
<1>0. RefRange \in Nat /\ RefRange > 0
  BY Setting
<1> DEFINE R == RefRange
<1>1. \A a \in 0 .. R - 1 : a % R = a
  BY <1>0
<1>2. R % R = 0
  BY <1>0
<1>3. \A a \in 1 .. R - 1 : (0 - a) % R = R - a
  BY <1>0
<1>4. CASE k = 0
  BY <1>4 DEF FreeDatum
<1>5. CASE k # 0 /\ k = r
  <2>1. k >= (IF x.refcount = 0 THEN R ELSE x.refcount)
    BY <1>0, <1>1, <1>2, <1>5
  <2>2. FreeDatum(x, k) = Free
    BY <1>5, <2>1 DEF FreeDatum
  <2>3. (r - k) % R = 0
    BY <1>0, <1>1, <1>5
  <2> QED BY <1>5, <2>2, <2>3 DEF Free
<1>6. CASE k # 0 /\ k # r
  <2>1. ~(k >= (IF x.refcount = 0 THEN R ELSE x.refcount))
    BY <1>0, <1>1, <1>2, <1>6
  <2>2. FreeDatum(x, k) = [x EXCEPT !.size = Invalid, !.refcount = (@ - k) % R]
    BY <1>6, <2>1 DEF FreeDatum
  <2>3. /\ FreeDatum(x, k).used = x.used /\ FreeDatum(x, k).file = x.file
        /\ FreeDatum(x, k).refcount = (x.refcount - k) % R
    BY <2>2 DEF Datum
  <2>4. (x.refcount - k) % R = (r - k) % R
    <3>1. CASE r = R
      <4>1. x.refcount = 0 /\ k \in 1 .. R - 1
        BY <1>0, <1>2, <1>6, <3>1
      <4>2. R - k \in 0 .. R - 1
        BY <1>0, <4>1
      <4> QED BY <1>1, <1>3, <3>1, <4>1, <4>2
    <3>2. CASE r # R
      BY <1>0, <1>1, <3>2
    <3> QED BY <3>1, <3>2
  <2> QED BY <1>0, <1>6, <2>3, <2>4
<1> QED BY <1>4, <1>5, <1>6

\* The references of a DATUM, as numbers.
LEMMA RefsTyped ==
  ASSUME IInv, NEW d \in Cell
  PROVE  /\ IsFiniteSet(Users(d)) /\ Cardinality(Users(d)) \in {0, 1}
         /\ IsFiniteSet(InBins(d)) /\ Cardinality(InBins(d)) \in Nat
         /\ Refs(d) \in Nat
         /\ Refs(d) = 0 <=> Users(d) = {} /\ InBins(d) = {} /\ d \notin md5
<1>1. IsFiniteSet(InBins(d)) /\ Cardinality(InBins(d)) \in Nat
      /\ (Cardinality(InBins(d)) = 0 <=> InBins(d) = {})
  <2>1. InBins(d) \subseteq Word /\ IsFiniteSet(Word)
    BY Setting DEF InBins
  <2>2. IsFiniteSet(InBins(d))
    BY <2>1, FS_Subset
  <2> QED BY <2>2, FS_CardinalityType, FS_EmptySet
<1>2. Users(d) = {} \/ \E c \in Conn : Users(d) = {c}
  <2>1. \A c \in Conn : c \in Users(d) <=> \E f \in File : files[c][f] = d
    BY Setting DEF Users, Held
  <2>2. \A b, c \in Conn : b \in Users(d) /\ c \in Users(d) => b = c
    BY <2>1, Setting DEF IInv, Holding
  <2> QED BY <2>2 DEF Users
<1>3. IsFiniteSet(Users(d)) /\ Cardinality(Users(d)) \in {0, 1}
      /\ (Cardinality(Users(d)) = 0 <=> Users(d) = {})
  BY <1>2, FS_EmptySet, FS_Singleton
<1> QED BY <1>1, <1>3 DEF Refs

\* What is held has a reference besides those of the bins and MD5.
LEMMA HeldCounts ==
  ASSUME IInv, NEW c \in Conn, NEW f \in File, files[c][f] # None
  PROVE  /\ files[c][f] \in Cell
         /\ Refs(files[c][f]) = 1 + Cardinality(InBins(files[c][f]))
                                  + (IF files[c][f] \in md5 THEN 1 ELSE 0)
<1> DEFINE d == files[c][f]
<1>1. d \in Cell
  BY DEF IInv, TypeOK
<1>2. c \in Users(d)
  BY <1>1, Setting DEF Users, Held
<1>3. Cardinality(Users(d)) = 1
  BY <1>1, <1>2, RefsTyped, FS_EmptySet
<1> HIDE DEF d
<1>4. Refs(d) = 1 + Cardinality(InBins(d)) + (IF d \in md5 THEN 1 ELSE 0)
  BY <1>3 DEF Refs
<1> QED BY <1>1, <1>4 DEF d

\* Holding says what ValidWhileShared says.
LEMMA HoldingMeans ==
  ASSUME TypeOK, Holding
  PROVE  ValidWhileShared
<1>1. \A d \in Cell, c \in Conn : c \in Users(d) <=> \E f \in File : files[c][f] = d
  BY Setting DEF Users, Held
<1>2. \A d \in Cell : Users(d) = {} => ~Valid(d)
  BY <1>1 DEF Holding, Users
<1>3. ASSUME NEW c \in Conn, NEW f \in File, files[c][f] # None
      PROVE  Users(files[c][f]) = {c}
  <2>1. files[c][f] \in Cell
    BY <1>3 DEF TypeOK
  <2>2. \A b \in Conn : b \in Users(files[c][f]) => b = c
    BY <1>1, <1>3, <2>1 DEF Holding
  <2>3. c \in Users(files[c][f])
    BY <1>1, <2>1
  <2> QED BY <2>2, <2>3 DEF Users
<1> QED BY <1>2, <1>3 DEF ValidWhileShared, Holding

-----------------------------------------------------------------------------
(* Types, holding and bins *)

LEMMA InitIInv == Init => IInv
<1> SUFFICES ASSUME Init PROVE IInv
  OBVIOUS
<1>1. Free \in Datum /\ Free.size = Invalid
  BY Setting DEF Free, Datum, Invalid
<1>2. TypeOK
  BY <1>1, Setting DEF Init, TypeOK
<1>3. Holding
  BY <1>1, Setting DEF Init, Holding, Valid
<1>4. InItsBins
  BY DEF Init, InItsBins
<1> QED BY <1>2, <1>3, <1>4 DEF IInv

\* A new DATUM: nothing referred to its memory, so nothing else changes.
LEMMA ShareIInv ==
  ASSUME IInv, Counted, NEW c \in Conn, NEW f \in File, NEW z \in Size, Share(c, f, z)
  PROVE  IInv'
<1>0. TypeOK /\ Holding /\ InItsBins
  BY DEF IInv
<1> DEFINE new == [used |-> TRUE, file |-> f, size |-> z,
                   refcount |-> References(f) % RefRange]
<1>1. PICK d \in Cell :
        /\ files[c][f] = None /\ ~datum[d].used
        /\ datum' = [datum EXCEPT ![d] = new]
        /\ files' = [files EXCEPT ![c][f] = d]
        /\ bins' = [w \in Word |-> IF w \in Indexed(f) THEN bins[w] \cup {d} ELSE bins[w]]
        /\ md5' = IF RESUME THEN md5 \cup {d} ELSE md5
  BY DEF Share
<1>2. References(f) \in Nat
  <2>1. Indexed(f) \subseteq Word /\ IsFiniteSet(Word)
    BY IndexedTokens, Setting
  <2>2. Cardinality(Indexed(f)) \in Nat
    BY <2>1, FS_Subset, FS_CardinalityType
  <2> QED BY <2>2 DEF References
<1>3. new \in Datum /\ new.size = z /\ new.file = f
  <2>1. References(f) % RefRange \in 0 .. RefRange - 1
    BY <1>2, Setting
  <2>2. z \in 0 .. SizeRange - 1
    BY Setting
  <2> QED BY <2>1, <2>2 DEF Datum
<1> HIDE DEF new
<1>4. \A b \in Conn, e \in File : files[b][e] # d
  <2>1. Refs(d) = 0
    BY <1>1 DEF Counted
  <2>2. Users(d) = {}
    BY <2>1, RefsTyped
  <2> QED BY <2>2, Setting DEF Users, Held
<1>5. d # None
  BY Setting
<1>6. \A b \in Conn, e \in File :
        files'[b][e] = IF b = c /\ e = f THEN d ELSE files[b][e]
  BY <1>0, <1>1 DEF TypeOK
<1>7. \A x \in Cell : datum'[x] = IF x = d THEN new ELSE datum[x]
  BY <1>0, <1>1 DEF TypeOK
<1>8. given' = [given EXCEPT ![c][f] = z] /\ given' \in [Conn -> [File -> Size \cup {None}]]
      /\ \A b \in Conn, e \in File :
           given'[b][e] = IF b = c /\ e = f THEN z ELSE given[b][e]
  BY <1>0 DEF TypeOK, Share
<1>9. TypeOK'
  <2>1. files' \in [Conn -> [File -> Cell \cup {None}]]
    BY <1>0, <1>1 DEF TypeOK
  <2>2. bins' \in [Word -> SUBSET Cell] /\ md5' \subseteq Cell
    BY <1>0, <1>1 DEF TypeOK
  <2>3. datum' \in [Cell -> Datum]
    BY <1>0, <1>1, <1>3 DEF TypeOK
  <2>4. libsize' \in [Conn -> 0 .. SizeRange - 1]
    <3>1. libsize[c] \in Nat /\ z \div Kilo \in Int /\ SizeRange \in Nat \ {0}
      BY <1>0, Setting DEF TypeOK
    <3>2. (libsize[c] + z \div Kilo) % SizeRange \in 0 .. SizeRange - 1
      BY <3>1
    <3> QED BY <1>0, <3>2 DEF TypeOK, Share
  <2> QED BY <1>8, <2>1, <2>2, <2>3, <2>4 DEF TypeOK
<1>10. Holding'
  <2>1. \A x \in Cell : Valid(x)' => \E b \in Conn, e \in File : files'[b][e] = x
    <3> SUFFICES ASSUME NEW x \in Cell, Valid(x)'
                 PROVE  \E b \in Conn, e \in File : files'[b][e] = x
      OBVIOUS
    <3>1. CASE x = d
      BY <1>6, <3>1
    <3>2. CASE x # d
      <4>1. Valid(x)
        BY <1>7, <3>2 DEF Valid, Invalid
      <4>2. PICK b \in Conn, e \in File : files[b][e] = x
        BY <1>0, <4>1 DEF Holding
      <4>3. files'[b][e] = x
        BY <1>1, <1>5, <1>6, <4>2, Setting
      <4> QED BY <4>3
    <3> QED BY <3>1, <3>2
  <2>2. ASSUME NEW b \in Conn, NEW e \in File, files'[b][e] # None
        PROVE  datum'[files'[b][e]].file = e /\ datum'[files'[b][e]].size = given'[b][e]
    <3>1. CASE b = c /\ e = f
      BY <1>3, <1>6, <1>7, <1>8, <3>1
    <3>2. CASE ~(b = c /\ e = f)
      <4>1. files'[b][e] = files[b][e] /\ files[b][e] \in Cell /\ files[b][e] # d
        BY <1>0, <1>4, <1>6, <2>2, <3>2 DEF TypeOK
      <4> QED BY <1>0, <1>7, <1>8, <2>2, <3>2, <4>1 DEF Holding
    <3> QED BY <3>1, <3>2
  <2>3. \A a, b \in Conn, e, g \in File :
          (files'[a][e] = files'[b][g] /\ files'[b][g] # None) => a = b /\ e = g
    BY <1>0, <1>4, <1>6 DEF Holding
  <2> QED BY <2>1, <2>2, <2>3 DEF Holding
<1>11. InItsBins'
  <2>1. \A w \in Word : bins[w] \subseteq bins'[w] /\ (w \in Indexed(f) => d \in bins'[w])
    BY <1>1
  <2> SUFFICES ASSUME NEW b \in Conn, NEW e \in File, files'[b][e] # None,
                      given'[b][e] # Invalid, NEW w \in Indexed(e)
               PROVE  files'[b][e] \in bins'[w]
    BY DEF InItsBins, Invalid
  <2>2. w \in Word
    BY IndexedTokens
  <2> QED BY <1>0, <1>6, <1>8, <2>1, <2>2 DEF InItsBins
<1> QED BY <1>9, <1>10, <1>11 DEF IInv

\* A step that only lets go of references: the cells in D become invalid, and the tables
\* lose exactly what they held of D; what is valid afterwards is as it was, and what is
\* still held keeps its name and its size.
LetsGo(D) ==
  /\ datum' \in [Cell -> Datum]
  /\ \A d \in D : ~Valid(d)'
  /\ \A d \in Cell \ D : Valid(d)' => Valid(d)
  /\ \A c \in Conn, f \in File :
       (files[c][f] # None /\ files[c][f] \notin D) =>
         /\ datum'[files[c][f]].file = datum[files[c][f]].file
         /\ datum'[files[c][f]].size = datum[files[c][f]].size
  /\ files' \in [Conn -> [File -> Cell \cup {None}]]
  /\ given' \in [Conn -> [File -> Size \cup {None}]]
  /\ libsize' \in [Conn -> 0 .. SizeRange - 1]
  /\ \A c \in Conn, f \in File :
       /\ files'[c][f] = IF files[c][f] \in D THEN None ELSE files[c][f]
       /\ files'[c][f] # None => given'[c][f] = given[c][f]
  /\ bins' \in [Word -> SUBSET Cell] /\ md5' \subseteq Cell
  /\ \A w \in Word, d \in Cell : (d \in bins[w] /\ Valid(d)') => d \in bins'[w]

\* Such a step keeps the invariant.
LEMMA LetsGoIInv ==
  ASSUME IInv, NEW D \in SUBSET Cell, LetsGo(D)
  PROVE  IInv'
<1>0. TypeOK /\ Holding /\ InItsBins
  BY DEF IInv
<1>1. TypeOK'
  BY DEF LetsGo, TypeOK
<1>2. \A c \in Conn, f \in File :
        files'[c][f] # None =>
          /\ files'[c][f] = files[c][f] /\ files[c][f] \in Cell /\ files[c][f] \notin D
          /\ given'[c][f] = given[c][f]
  BY <1>0 DEF LetsGo, TypeOK
<1>3. \A d \in Cell : Valid(d)' => \E c \in Conn, f \in File : files'[c][f] = d
  <2> SUFFICES ASSUME NEW d \in Cell, Valid(d)'
               PROVE  \E c \in Conn, f \in File : files'[c][f] = d
    OBVIOUS
  <2>1. d \notin D /\ Valid(d)
    BY DEF LetsGo
  <2>2. PICK c \in Conn, f \in File : files[c][f] = d
    BY <1>0, <2>1 DEF Holding
  <2>3. files'[c][f] = d
    BY <2>1, <2>2 DEF LetsGo
  <2> QED BY <2>3
<1>4. \A c \in Conn, f \in File : files'[c][f] # None =>
        /\ datum'[files'[c][f]].file = f
        /\ datum'[files'[c][f]].size = given'[c][f]
  <2> SUFFICES ASSUME NEW c \in Conn, NEW f \in File, files'[c][f] # None
               PROVE  /\ datum'[files'[c][f]].file = f
                      /\ datum'[files'[c][f]].size = given'[c][f]
    OBVIOUS
  <2>1. files'[c][f] = files[c][f] /\ files[c][f] # None /\ files[c][f] \notin D
        /\ given'[c][f] = given[c][f]
    BY <1>2
  <2>2. /\ datum'[files[c][f]].file = datum[files[c][f]].file
        /\ datum'[files[c][f]].size = datum[files[c][f]].size
    BY <2>1 DEF LetsGo
  <2>3. datum[files[c][f]].file = f /\ datum[files[c][f]].size = given[c][f]
    BY <1>0, <2>1 DEF Holding
  <2> QED BY <2>1, <2>2, <2>3
<1>5. \A b, c \in Conn, e, f \in File :
        (files'[b][e] = files'[c][f] /\ files'[c][f] # None) => b = c /\ e = f
  BY <1>0, <1>2 DEF Holding
<1>6. Holding'
  BY <1>3, <1>4, <1>5 DEF Holding
<1>7. InItsBins'
  <2> SUFFICES ASSUME NEW c \in Conn, NEW f \in File, files'[c][f] # None,
                      given'[c][f] # Invalid, NEW w \in Indexed(f)
               PROVE  files'[c][f] \in bins'[w]
    BY DEF InItsBins, Invalid
  <2>1. w \in Word
    BY IndexedTokens
  <2>2. files[c][f] \in bins[w] /\ files'[c][f] = files[c][f] /\ files[c][f] \in Cell
    BY <1>0, <1>2 DEF InItsBins
  <2>3. Valid(files[c][f])'
    BY <1>4, <2>2 DEF Valid, Invalid
  <2> QED BY <2>1, <2>2, <2>3 DEF LetsGo
<1> QED BY <1>1, <1>6, <1>7 DEF IInv

LEMMA UnshareIInv ==
  ASSUME IInv, NEW c \in Conn, NEW f \in File, Unshare(c, f)
  PROVE  IInv'
<1>0. TypeOK /\ Holding
  BY DEF IInv
<1> DEFINE d == files[c][f]
<1>1. d \in Cell /\ d # None /\ datum[d] \in Datum
  BY <1>0 DEF Unshare, TypeOK
<1>2. FreeDatum(datum[d], 1) \in Datum /\ FreeDatum(datum[d], 1).size = Invalid
  BY <1>1, FreeDatumFacts
<1>3. \A b \in Conn, e \in File : files[b][e] = d => b = c /\ e = f
  BY <1>0, <1>1 DEF Holding
<1>4. /\ datum' = [datum EXCEPT ![d] = FreeDatum(datum[d], 1)]
      /\ files' = [files EXCEPT ![c][f] = None]
      /\ given' = [given EXCEPT ![c][f] = None]
      /\ libsize' = [libsize EXCEPT ![c] = (@ - datum[d].size \div Kilo) % SizeRange]
      /\ bins' = bins /\ md5' = md5
  BY DEF Unshare
<1>5. datum' \in [Cell -> Datum] /\ datum'[d].size = Invalid
      /\ \A x \in Cell \ {d} : datum'[x] = datum[x]
  BY <1>0, <1>1, <1>2, <1>4 DEF TypeOK
<1>6. /\ files' \in [Conn -> [File -> Cell \cup {None}]]
      /\ \A b \in Conn, e \in File :
           files'[b][e] = IF files[b][e] \in {d} THEN None ELSE files[b][e]
  BY <1>0, <1>3, <1>4 DEF TypeOK
<1>7. /\ given' \in [Conn -> [File -> Size \cup {None}]]
      /\ \A b \in Conn, e \in File : files'[b][e] # None => given'[b][e] = given[b][e]
  BY <1>0, <1>4 DEF TypeOK
<1>8. bins' \in [Word -> SUBSET Cell] /\ md5' \subseteq Cell /\ bins' = bins
  BY <1>0, <1>4 DEF TypeOK
<1>9. libsize' \in [Conn -> 0 .. SizeRange - 1]
  <2>1. libsize[c] \in Int /\ datum[d].size \div Kilo \in Int /\ SizeRange \in Nat \ {0}
    BY <1>0, <1>1, Setting DEF TypeOK, Datum
  <2> HIDE DEF d
  <2>2. (libsize[c] - datum[d].size \div Kilo) % SizeRange \in 0 .. SizeRange - 1
    BY <2>1
  <2> QED BY <1>0, <1>4, <2>2 DEF TypeOK
<1>10. \A b \in Conn, e \in File : files[b][e] # None => files[b][e] \in Cell
  BY <1>0 DEF TypeOK
<1> HIDE DEF d
<1>11. LetsGo({d})
  BY <1>1, <1>5, <1>6, <1>7, <1>8, <1>9, <1>10 DEF LetsGo, Valid, Invalid
<1> QED BY <1>1, <1>11, LetsGoIInv

LEMMA LeaveIInv ==
  ASSUME IInv, NEW c \in Conn, Leave(c)
  PROVE  IInv'
<1>0. TypeOK /\ Holding
  BY DEF IInv
<1> DEFINE D == Held(c)
<1>1. D \in SUBSET Cell
  BY <1>0 DEF Held, TypeOK
<1>2. \A d \in D : FreeDatum(datum[d], 1) \in Datum /\ FreeDatum(datum[d], 1).size = Invalid
  BY <1>0, <1>1, FreeDatumFacts DEF TypeOK
<1>3. /\ datum' = [d \in Cell |-> IF d \in D THEN FreeDatum(datum[d], 1) ELSE datum[d]]
      /\ files' = [files EXCEPT ![c] = [f \in File |-> None]]
      /\ given' = [given EXCEPT ![c] = [f \in File |-> None]]
      /\ libsize' = [libsize EXCEPT ![c] = 0]
      /\ bins' = bins /\ md5' = md5
  BY DEF Leave
<1>4. \A b \in Conn, e \in File : files[b][e] \in D => b = c
  BY <1>0 DEF Held, Holding
<1>5. \A e \in File : files[c][e] \in D \/ files[c][e] = None
  BY DEF Held
<1>6. /\ datum' \in [Cell -> Datum] /\ \A d \in D : datum'[d].size = Invalid
      /\ \A d \in Cell \ D : datum'[d] = datum[d]
  BY <1>0, <1>1, <1>2, <1>3 DEF TypeOK
<1>7. /\ files' \in [Conn -> [File -> Cell \cup {None}]]
      /\ \A b \in Conn, e \in File :
           files'[b][e] = IF files[b][e] \in D THEN None ELSE files[b][e]
  BY <1>0, <1>3, <1>4, <1>5 DEF TypeOK
<1>8. /\ given' \in [Conn -> [File -> Size \cup {None}]]
      /\ \A b \in Conn, e \in File : files'[b][e] # None => given'[b][e] = given[b][e]
  BY <1>0, <1>3 DEF TypeOK
<1>9. bins' \in [Word -> SUBSET Cell] /\ md5' \subseteq Cell /\ bins' = bins
  BY <1>0, <1>3 DEF TypeOK
<1>10. libsize' \in [Conn -> 0 .. SizeRange - 1]
  <2>1. 0 \in 0 .. SizeRange - 1
    BY Setting
  <2> QED BY <1>0, <1>3, <2>1 DEF TypeOK
<1>11. \A b \in Conn, e \in File : files[b][e] # None => files[b][e] \in Cell
  BY <1>0 DEF TypeOK
<1> HIDE DEF D
<1>12. LetsGo(D)
  BY <1>6, <1>7, <1>8, <1>9, <1>10, <1>11 DEF LetsGo, Valid, Invalid
<1> QED BY <1>1, <1>12, LetsGoIInv

\* A collection frees n[d] references of each DATUM, those of bins that lose garbage; the
\* reference of the user is not among them.
Collects(n) ==
  /\ \A d \in Cell : /\ n[d] \in Nat
                     /\ datum'[d] = FreeDatum(datum[d], n[d])
                     /\ n[d] # 0 => ~Valid(d)
                     /\ n[d] <= Cardinality(InBins(d)) + (IF d \in md5 THEN 1 ELSE 0)
  /\ datum' = [d \in Cell |-> datum'[d]]
  /\ UNCHANGED <<files, given, libsize>>
  /\ bins' \in [Word -> SUBSET Cell] /\ md5' \subseteq Cell
  /\ \A w \in Word, d \in Cell : (d \in bins[w] /\ Valid(d)) => d \in bins'[w]

LEMMA CollectsIInv ==
  ASSUME IInv, Counted, NEW n, Collects(n)
  PROVE  IInv'
<1>0. TypeOK /\ Holding
  BY DEF IInv
<1>1. ASSUME NEW d \in Cell
      PROVE  /\ datum'[d] \in Datum
             /\ datum'[d] = datum[d] \/ (datum'[d].size = Invalid /\ datum[d].size = Invalid)
  <2>1. datum[d] \in Datum /\ n[d] \in Nat /\ datum'[d] = FreeDatum(datum[d], n[d])
    BY <1>0 DEF TypeOK, Collects
  <2>2. n[d] # 0 => datum[d].size = Invalid
    BY DEF Collects, Valid
  <2> QED BY <2>1, <2>2, FreeDatumFacts
<1>2. datum' \in [Cell -> Datum]
  BY <1>1 DEF Collects
<1>3. ASSUME NEW c \in Conn, NEW f \in File, files[c][f] # None
      PROVE  /\ datum'[files[c][f]].file = datum[files[c][f]].file
             /\ datum'[files[c][f]].size = datum[files[c][f]].size
  <2> DEFINE d == files[c][f]
  <2>1. d \in Cell /\ Refs(d) = 1 + Cardinality(InBins(d)) + (IF d \in md5 THEN 1 ELSE 0)
    BY <1>3, HeldCounts
  <2> HIDE DEF d
  <2>2. Cardinality(InBins(d)) \in Nat
    BY <2>1, RefsTyped
  <2>3. n[d] \in Nat /\ n[d] <= Cardinality(InBins(d)) + (IF d \in md5 THEN 1 ELSE 0)
    BY <2>1 DEF Collects
  <2>4. n[d] \in 0 .. Refs(d) /\ n[d] # Refs(d)
    BY <2>1, <2>2, <2>3
  <2>5. /\ datum[d] \in Datum /\ Refs(d) \in 0 .. RefRange
        /\ datum[d].used <=> Refs(d) # 0
        /\ datum[d].refcount = Refs(d) % RefRange
    BY <1>0, <2>1 DEF Counted, TypeOK
  <2>6. FreeDatum(datum[d], n[d]).file = datum[d].file
    BY <2>4, <2>5, FreeDatumCounts
  <2>7. datum'[d].file = datum[d].file
    BY <2>1, <2>6 DEF Collects
  <2> QED BY <1>1, <2>1, <2>7 DEF d
<1>4. \A c \in Conn, f \in File :
        files'[c][f] = IF files[c][f] \in {} THEN None ELSE files[c][f]
  BY DEF Collects
<1>5. \A w \in Word, d \in Cell : (d \in bins[w] /\ Valid(d)') => d \in bins'[w]
  BY <1>1 DEF Collects, Valid, Invalid
<1>6. \A d \in Cell : Valid(d)' => Valid(d)
  BY <1>1 DEF Valid, Invalid
<1>7. LetsGo({})
  BY <1>0, <1>2, <1>3, <1>4, <1>5, <1>6 DEF LetsGo, Collects, TypeOK
<1> QED BY <1>7, LetsGoIInv

LEMMA CollectWordsIInv ==
  ASSUME IInv, Counted, CollectWords
  PROVE  IInv'
<1>0. TypeOK
  BY DEF IInv
<1> DEFINE G(d) == {w \in Word : d \in bins[w] \ Keeps(bins[w])}
           n == [d \in Cell |-> Cardinality(G(d))]
<1>1. /\ bins' = [w \in Word |-> Keeps(bins[w])]
      /\ datum' = [d \in Cell |-> FreeDatum(datum[d], Cardinality(G(d)))]
      /\ UNCHANGED <<files, given, libsize, md5>>
  BY DEF CollectWords
<1>2. ASSUME NEW d \in Cell
      PROVE  /\ Cardinality(G(d)) \in Nat
             /\ Cardinality(G(d)) # 0 => ~Valid(d)
             /\ Cardinality(G(d)) <= Cardinality(InBins(d)) + (IF d \in md5 THEN 1 ELSE 0)
  <2>1. G(d) \subseteq InBins(d)
    BY DEF InBins
  <2>2. IsFiniteSet(InBins(d)) /\ Cardinality(InBins(d)) \in Nat
    BY RefsTyped
  <2>3. IsFiniteSet(G(d)) /\ Cardinality(G(d)) <= Cardinality(InBins(d))
    BY <2>1, <2>2, FS_Subset
  <2>4. Cardinality(G(d)) \in Nat
    BY <2>3, FS_CardinalityType
  <2>5. Cardinality(G(d)) # 0 => G(d) # {}
    BY FS_EmptySet
  <2>6. G(d) # {} => ~Valid(d)
    BY DEF Keeps
  <2> HIDE DEF G
  <2> QED BY <2>2, <2>3, <2>4, <2>5, <2>6
<1>3. bins' \in [Word -> SUBSET Cell] /\ md5' \subseteq Cell
  BY <1>0, <1>1 DEF TypeOK, Keeps
<1>4. \A w \in Word, d \in Cell : (d \in bins[w] /\ Valid(d)) => d \in bins'[w]
  BY <1>1 DEF Keeps
<1> HIDE DEF G
<1>5. Collects(n)
  BY <1>1, <1>2, <1>3, <1>4 DEF Collects
<1> QED BY <1>5, CollectsIInv

LEMMA CollectMD5IInv ==
  ASSUME IInv, Counted, CollectMD5
  PROVE  IInv'
<1>0. TypeOK
  BY DEF IInv
<1> DEFINE k(d) == IF d \in md5 \ Keeps(md5) THEN 1 ELSE 0
           n == [d \in Cell |-> k(d)]
<1>1. /\ md5' = Keeps(md5)
      /\ datum' = [d \in Cell |-> FreeDatum(datum[d], k(d))]
      /\ UNCHANGED <<files, given, libsize, bins>>
  BY DEF CollectMD5
<1>2. ASSUME NEW d \in Cell
      PROVE  /\ k(d) \in Nat
             /\ k(d) # 0 => ~Valid(d)
             /\ k(d) <= Cardinality(InBins(d)) + (IF d \in md5 THEN 1 ELSE 0)
  <2>1. Cardinality(InBins(d)) \in Nat
    BY RefsTyped
  <2>2. k(d) # 0 => ~Valid(d)
    BY DEF Keeps
  <2>3. k(d) \in Nat /\ k(d) <= (IF d \in md5 THEN 1 ELSE 0)
    OBVIOUS
  <2> HIDE DEF k
  <2> QED BY <2>1, <2>2, <2>3
<1>3. bins' \in [Word -> SUBSET Cell] /\ md5' \subseteq Cell
  BY <1>0, <1>1 DEF TypeOK, Keeps
<1>4. \A w \in Word, d \in Cell : (d \in bins[w] /\ Valid(d)) => d \in bins'[w]
  BY <1>1
<1> HIDE DEF k
<1>5. Collects(n)
  BY <1>1, <1>2, <1>3, <1>4 DEF Collects
<1> QED BY <1>5, CollectsIInv

LEMMA NextIInv == IInv /\ Counted /\ [Next]_vars => IInv'
<1> SUFFICES ASSUME IInv, Counted, [Next]_vars PROVE IInv'
  OBVIOUS
<1>1. ASSUME NEW c \in Conn, NEW f \in File, NEW z \in Size, Share(c, f, z) PROVE IInv'
  BY <1>1, ShareIInv
<1>2. ASSUME NEW c \in Conn, NEW f \in File, Unshare(c, f) PROVE IInv'
  BY <1>2, UnshareIInv
<1>3. ASSUME NEW c \in Conn, Leave(c) PROVE IInv'
  BY <1>3, LeaveIInv
<1>4. CASE CollectWords
  BY <1>4, CollectWordsIInv
<1>5. CASE CollectMD5
  BY <1>5, CollectMD5IInv
<1>6. CASE UNCHANGED vars
  BY <1>6 DEF vars, IInv, TypeOK, Holding, Valid, InItsBins
<1> QED BY <1>1, <1>2, <1>3, <1>4, <1>5, <1>6 DEF Next

-----------------------------------------------------------------------------
(* The count of references *)

LEMMA InitCounted == Init => Counted
<1> SUFFICES ASSUME Init, NEW d \in Cell
             PROVE  Refs(d) = 0 /\ datum[d] = Free
  <2>1. 0 % RefRange = 0 /\ RefRange \in Nat
    BY Setting
  <2> QED BY <2>1 DEF Counted, Free
<1>1. IInv
  BY InitIInv
<1>2. Users(d) = {} /\ InBins(d) = {} /\ d \notin md5
  BY Setting DEF Init, Users, Held, InBins
<1> QED BY <1>1, <1>2, RefsTyped DEF Init

\* A new DATUM has one reference for its user, one for each indexed word and
\* one for MD5; the others have what they had.
LEMMA ShareCounted ==
  ASSUME IInv, Counted, IInv', NEW c \in Conn, NEW f \in File, NEW z \in Size,
         Share(c, f, z)
  PROVE  Counted'
<1>0. TypeOK /\ Holding
  BY DEF IInv
<1>1. PICK d \in Cell :
        /\ files[c][f] = None /\ ~datum[d].used
        /\ datum' = [datum EXCEPT ![d] =
                       [used |-> TRUE, file |-> f, size |-> z,
                        refcount |-> References(f) % RefRange]]
        /\ files' = [files EXCEPT ![c][f] = d]
        /\ bins' = [w \in Word |-> IF w \in Indexed(f) THEN bins[w] \cup {d} ELSE bins[w]]
        /\ md5' = IF RESUME THEN md5 \cup {d} ELSE md5
  BY DEF Share
<1>2. Users(d) = {} /\ InBins(d) = {} /\ d \notin md5
  BY <1>1, RefsTyped DEF Counted
<1>3. \A b \in Conn, e \in File :
        files'[b][e] = IF b = c /\ e = f THEN d ELSE files[b][e]
  BY <1>0, <1>1 DEF TypeOK
<1>4. \A x \in Cell, b \in Conn : b \in Users(x) <=> \E e \in File : files[b][e] = x
  BY Setting DEF Users, Held
<1>5. \A x \in Cell, b \in Conn : b \in Users(x)' <=> \E e \in File : files'[b][e] = x
  BY Setting DEF Users, Held
<1>6. ASSUME NEW x \in Cell, x # d
      PROVE  Refs(x)' = Refs(x) /\ datum'[x] = datum[x]
  <2>1. Users(x)' = Users(x)
    <3>1. \A b \in Conn : b \in Users(x)' <=> b \in Users(x)
      BY <1>1, <1>3, <1>4, <1>5, <1>6, Setting
    <3> QED BY <3>1 DEF Users
  <2>2. InBins(x)' = InBins(x) /\ (x \in md5' <=> x \in md5)
    BY <1>1, <1>6 DEF InBins
  <2>3. datum'[x] = datum[x]
    BY <1>0, <1>1, <1>6 DEF TypeOK
  <2> QED BY <2>1, <2>2, <2>3 DEF Refs
<1>7. Refs(d)' = References(f)
  <2>1. Users(d)' = {c}
    <3>1. \A b \in Conn : b \in Users(d)' <=> b = c
      BY <1>2, <1>3, <1>4, <1>5
    <3> QED BY <3>1 DEF Users
  <2>2. InBins(d)' = Indexed(f)
    <3>1. \A w \in Word : w \in InBins(d)' <=> w \in Indexed(f)
      BY <1>1, <1>2 DEF InBins
    <3> QED BY <3>1, IndexedTokens DEF InBins
  <2>3. d \in md5' <=> RESUME
    BY <1>1, <1>2
  <2> QED BY <2>1, <2>2, <2>3, FS_Singleton DEF Refs, References
<1>8. References(f) \in 1 .. RefRange
  BY IndexedFew, CountFits, Setting DEF References
<1>9. datum'[d].used /\ datum'[d].refcount = References(f) % RefRange
  BY <1>0, <1>1 DEF TypeOK
<1>10. ASSUME NEW x \in Cell
       PROVE  (/\ datum[x].used <=> Refs(x) # 0
               /\ datum[x].refcount = Refs(x) % RefRange
               /\ Refs(x) \in 0 .. RefRange)'
  <2>1. CASE x = d
    BY <1>7, <1>8, <1>9, <2>1
  <2>2. CASE x # d
    BY <1>6, <2>2 DEF Counted
  <2> QED BY <2>1, <2>2
<1> QED BY <1>10 DEF Counted

\* k[d] references of each DATUM are dropped, and free_datum() called as often.
Drops(k) ==
  \A d \in Cell : /\ k[d] \in 0 .. Refs(d)
                  /\ datum'[d] = FreeDatum(datum[d], k[d])
                  /\ Refs(d)' = Refs(d) - k[d]

LEMMA DropsCounted ==
  ASSUME IInv, Counted, NEW k, Drops(k)
  PROVE  Counted'
<1> SUFFICES ASSUME NEW d \in Cell
             PROVE  (/\ datum[d].used <=> Refs(d) # 0
                     /\ datum[d].refcount = Refs(d) % RefRange
                     /\ Refs(d) \in 0 .. RefRange)'
  BY DEF Counted
<1> DEFINE r == Refs(d)
           n == k[d]
           x == datum[d]
<1>1. x \in Datum /\ r \in 0 .. RefRange /\ (x.used <=> r # 0) /\ x.refcount = r % RefRange
  BY DEF IInv, TypeOK, Counted
<1>2. n \in 0 .. r /\ datum'[d] = FreeDatum(x, n) /\ Refs(d)' = r - n
  BY DEF Drops
<1>3. RefRange \in Nat
  BY Setting
<1> HIDE DEF r, n, x
<1>4. FreeDatum(x, n).used <=> r - n # 0
  BY <1>1, <1>2, FreeDatumCounts
<1>5. FreeDatum(x, n).refcount = (r - n) % RefRange
  BY <1>1, <1>2, FreeDatumCounts
<1>6. r - n \in 0 .. RefRange
  BY <1>1, <1>2, <1>3
<1> QED BY <1>2, <1>4, <1>5, <1>6

\* The tables let go of what is in D, of each DATUM the one reference.
LEMMA ReleaseDrops ==
  ASSUME IInv, NEW D \in SUBSET Cell, UNCHANGED <<bins, md5>>,
         \A d \in D : \E c \in Conn, f \in File : files[c][f] = d,
         \A c \in Conn, f \in File :
           files'[c][f] = IF files[c][f] \in D THEN None ELSE files[c][f],
         \A d \in Cell :
           datum'[d] = IF d \in D THEN FreeDatum(datum[d], 1) ELSE datum[d]
  PROVE  Drops([d \in Cell |-> IF d \in D THEN 1 ELSE 0])
<1> SUFFICES ASSUME NEW d \in Cell
             PROVE  LET n == IF d \in D THEN 1 ELSE 0
                    IN  /\ n \in 0 .. Refs(d)
                        /\ datum'[d] = FreeDatum(datum[d], n)
                        /\ Refs(d)' = Refs(d) - n
  BY DEF Drops
<1>1. \A b \in Conn : b \in Users(d) <=> \E e \in File : files[b][e] = d
  BY Setting DEF Users, Held
<1>2. \A b \in Conn : b \in Users(d)' <=> \E e \in File : files'[b][e] = d
  BY Setting DEF Users, Held
<1>3. InBins(d)' = InBins(d) /\ md5' = md5
  BY DEF InBins
<1>4. datum[d] = FreeDatum(datum[d], 0)
  BY DEF FreeDatum
<1>5. CASE d \in D
  <2>1. Users(d)' = {}
    <3>0. \A b \in Conn, e \in File : files'[b][e] # d
      BY <1>5, Setting
    <3>1. \A b \in Conn : b \notin Users(d)'
      BY <1>2, <3>0
    <3> QED BY <3>1 DEF Users
  <2>2. Users(d) # {}
    BY <1>1, <1>5
  <2>3. Cardinality(Users(d)) = 1 /\ Cardinality(Users(d)') = 0
    BY <2>1, <2>2, RefsTyped, FS_EmptySet
  <2>4. Refs(d)' = Refs(d) - 1 /\ Refs(d) \in Nat /\ Refs(d) # 0
    BY <1>3, <2>2, <2>3, RefsTyped DEF Refs
  <2> QED BY <1>5, <2>4
<1>6. CASE d \notin D
  <2>1. Users(d)' = Users(d)
    <3>0. \A b \in Conn, e \in File : files'[b][e] = d <=> files[b][e] = d
      BY <1>6, Setting
    <3>1. \A b \in Conn : b \in Users(d)' <=> b \in Users(d)
      BY <1>1, <1>2, <3>0
    <3> QED BY <3>1 DEF Users
  <2>2. Refs(d)' = Refs(d)
    BY <1>3, <2>1 DEF Refs
  <2> QED BY <1>4, <1>6, <2>2, RefsTyped
<1> QED BY <1>5, <1>6

LEMMA UnshareCounted ==
  ASSUME IInv, Counted, NEW c \in Conn, NEW f \in File, Unshare(c, f)
  PROVE  Counted'
<1>0. TypeOK /\ Holding
  BY DEF IInv
<1> DEFINE d == files[c][f]
<1>1. d \in Cell /\ d # None
  BY <1>0 DEF Unshare, TypeOK
<1>2. \A b \in Conn, e \in File : files[b][e] = d => b = c /\ e = f
  BY <1>0, <1>1 DEF Holding
<1>3. \A b \in Conn, e \in File :
        files'[b][e] = IF files[b][e] \in {d} THEN None ELSE files[b][e]
  BY <1>0, <1>2 DEF Unshare, TypeOK
<1>4. \A x \in Cell : datum'[x] = IF x \in {d} THEN FreeDatum(datum[x], 1) ELSE datum[x]
  BY <1>0, <1>1 DEF Unshare, TypeOK
<1>5. UNCHANGED <<bins, md5>> /\ \A x \in {d} : \E b \in Conn, e \in File : files[b][e] = x
  BY DEF Unshare
<1> HIDE DEF d
<1>6. Drops([x \in Cell |-> IF x \in {d} THEN 1 ELSE 0])
  BY <1>1, <1>3, <1>4, <1>5, ReleaseDrops
<1> QED BY <1>6, DropsCounted

LEMMA LeaveCounted ==
  ASSUME IInv, Counted, NEW c \in Conn, Leave(c)
  PROVE  Counted'
<1>0. TypeOK /\ Holding
  BY DEF IInv
<1> DEFINE D == Held(c)
<1>1. D \in SUBSET Cell /\ \A x \in D : \E b \in Conn, e \in File : files[b][e] = x
  BY <1>0 DEF Held, TypeOK
<1>2. \A b \in Conn, e \in File : files[b][e] \in D => b = c
  BY <1>0 DEF Held, Holding
<1>3. \A e \in File : files[c][e] \in D \/ files[c][e] = None
  BY DEF Held
<1>4. /\ datum' = [d \in Cell |-> IF d \in D THEN FreeDatum(datum[d], 1) ELSE datum[d]]
      /\ files' = [files EXCEPT ![c] = [f \in File |-> None]]
      /\ UNCHANGED <<bins, md5>>
  BY DEF Leave
<1> HIDE DEF D
<1>5. \A b \in Conn, e \in File :
        files'[b][e] = IF files[b][e] \in D THEN None ELSE files[b][e]
  BY <1>0, <1>2, <1>3, <1>4 DEF TypeOK
<1>6. Drops([d \in Cell |-> IF d \in D THEN 1 ELSE 0])
  BY <1>1, <1>4, <1>5, ReleaseDrops
<1> QED BY <1>6, DropsCounted

LEMMA CollectWordsCounted ==
  ASSUME IInv, Counted, CollectWords
  PROVE  Counted'
<1> DEFINE G(d) == {w \in Word : d \in bins[w] \ Keeps(bins[w])}
           k == [d \in Cell |-> Cardinality(G(d))]
<1>1. /\ bins' = [w \in Word |-> Keeps(bins[w])]
      /\ datum' = [d \in Cell |-> FreeDatum(datum[d], Cardinality(G(d)))]
      /\ files' = files /\ md5' = md5
  BY DEF CollectWords
<1>2. ASSUME NEW d \in Cell
      PROVE  /\ k[d] \in 0 .. Refs(d)
             /\ datum'[d] = FreeDatum(datum[d], k[d])
             /\ Refs(d)' = Refs(d) - k[d]
  <2>1. G(d) \subseteq InBins(d) /\ InBins(d)' = InBins(d) \ G(d)
    BY <1>1 DEF InBins, Keeps
  <2>2. k[d] = Cardinality(G(d)) /\ datum'[d] = FreeDatum(datum[d], k[d])
    BY <1>1
  <2>3. Users(d)' = Users(d) /\ md5' = md5
    BY <1>1 DEF Users, Held
  <2> HIDE DEF G, k
  <2>4. /\ IsFiniteSet(InBins(d)) /\ Cardinality(InBins(d)) \in Nat
        /\ Cardinality(Users(d)) \in {0, 1}
    BY RefsTyped
  <2>5. IsFiniteSet(G(d)) /\ Cardinality(G(d)) <= Cardinality(InBins(d))
    BY <2>1, <2>4, FS_Subset
  <2>6. Cardinality(G(d)) \in Nat
    BY <2>5, FS_CardinalityType
  <2>7. InBins(d) \cap G(d) = G(d)
    BY <2>1
  <2>8. Cardinality(InBins(d)') = Cardinality(InBins(d)) - Cardinality(G(d))
    BY <2>1, <2>4, <2>7, FS_Difference
  <2> DEFINE g == Cardinality(G(d))
             b == Cardinality(InBins(d))
             u == Cardinality(Users(d))
  <2>9. Refs(d) = u + b + (IF d \in md5 THEN 1 ELSE 0)
    BY DEF Refs
  <2>10. Refs(d)' = u + (b - g) + (IF d \in md5 THEN 1 ELSE 0)
    BY <2>3, <2>8 DEF Refs
  <2> HIDE DEF g, b, u
  <2>11. k[d] = g /\ g \in Nat /\ b \in Nat /\ g <= b /\ u \in {0, 1}
    BY <2>2, <2>4, <2>5, <2>6 DEF g, b, u
  <2>12. k[d] \in 0 .. Refs(d) /\ Refs(d)' = Refs(d) - k[d]
    BY <2>9, <2>10, <2>11
  <2> QED BY <2>2, <2>12
<1> HIDE DEF k
<1>3. Drops(k)
  BY <1>2 DEF Drops
<1> QED BY <1>3, DropsCounted

LEMMA CollectMD5Counted ==
  ASSUME IInv, Counted, CollectMD5
  PROVE  Counted'
<1> DEFINE k == [d \in Cell |-> IF d \in md5 \ Keeps(md5) THEN 1 ELSE 0]
<1>1. ASSUME NEW d \in Cell
      PROVE  /\ k[d] \in 0 .. Refs(d)
             /\ datum'[d] = FreeDatum(datum[d], k[d])
             /\ Refs(d)' = Refs(d) - k[d]
  <2>1. datum'[d] = FreeDatum(datum[d], k[d])
    BY DEF CollectMD5
  <2>2. Users(d)' = Users(d) /\ InBins(d)' = InBins(d)
    BY DEF CollectMD5, Users, Held, InBins
  <2>3. d \in md5' <=> d \in md5 /\ d \in Keeps(md5)
    BY DEF CollectMD5, Keeps
  <2>4. k[d] = IF d \in md5 /\ d \notin md5' THEN 1 ELSE 0
    BY <2>3
  <2>5. d \in md5' => d \in md5
    BY <2>3
  <2> HIDE DEF k
  <2>6. Cardinality(InBins(d)) \in Nat /\ Cardinality(Users(d)) \in {0, 1}
    BY RefsTyped
  <2>7. Refs(d)' = Refs(d) - k[d] /\ k[d] \in 0 .. Refs(d)
    BY <2>2, <2>4, <2>5, <2>6 DEF Refs
  <2> QED BY <2>1, <2>7
<1> HIDE DEF k
<1>2. Drops(k)
  BY <1>1 DEF Drops
<1> QED BY <1>2, DropsCounted

LEMMA NextCounted == IInv /\ Counted /\ IInv' /\ [Next]_vars => Counted'
<1> SUFFICES ASSUME IInv, Counted, IInv', [Next]_vars PROVE Counted'
  OBVIOUS
<1>1. ASSUME NEW c \in Conn, NEW f \in File, NEW z \in Size, Share(c, f, z)
      PROVE  Counted'
  BY <1>1, ShareCounted
<1>2. ASSUME NEW c \in Conn, NEW f \in File, Unshare(c, f) PROVE Counted'
  BY <1>2, UnshareCounted
<1>3. ASSUME NEW c \in Conn, Leave(c) PROVE Counted'
  BY <1>3, LeaveCounted
<1>4. CASE CollectWords
  BY <1>4, CollectWordsCounted
<1>5. CASE CollectMD5
  BY <1>5, CollectMD5Counted
<1>6. CASE UNCHANGED vars
  BY <1>6 DEF vars, Counted, Refs, Users, Held, InBins
<1> QED BY <1>1, <1>2, <1>3, <1>4, <1>5, <1>6 DEF Next

LEMMA Inductive == Spec => [](IInv /\ Counted)
<1>1. Init => IInv /\ Counted
  BY InitIInv, InitCounted
<1>2. IInv /\ Counted /\ [Next]_vars => (IInv /\ Counted)'
  BY NextIInv, NextCounted
<1> QED BY <1>1, <1>2, PTL DEF Spec

-----------------------------------------------------------------------------
(* What is promised *)

\* A search reads the bin of one of its words: what is shared under all of
\* them is in that bin, and what it keeps is valid, hence shared.
LEMMA SearchFromIInv == IInv => SearchSound
<1> SUFFICES ASSUME IInv, NEW T \in Query, NEW w \in Smallest(T)
             PROVE  /\ \A c \in Conn, f \in File :
                         (files[c][f] # None /\ T \subseteq Indexed(f)
                            /\ given[c][f] # Invalid /\ Empty \notin T)
                           => files[c][f] \in Found(w, T)
                    /\ \A d \in Found(w, T) : \E c \in Conn : d \in Held(c)
  BY DEF SearchSound
<1>0. TypeOK /\ Holding /\ InItsBins
  BY DEF IInv
<1>1. w \in T /\ T \subseteq Word
  BY Setting DEF Smallest
<1>2. ASSUME NEW c \in Conn, NEW f \in File, files[c][f] # None,
             T \subseteq Indexed(f), given[c][f] # Invalid, Empty \notin T
      PROVE  files[c][f] \in Found(w, T)
  <2>1. files[c][f] \in bins[w] /\ files[c][f] \in Cell
    BY <1>0, <1>1, <1>2 DEF InItsBins, TypeOK
  <2>2. Valid(files[c][f]) /\ datum[files[c][f]].file = f
    BY <1>0, <1>2, <2>1 DEF Holding, Valid
  <2>3. T \subseteq Occurring[f]
    <3>1. T \subseteq ToSet(Tokens[f]) /\ ToSet(Tokens[f]) \subseteq Occurring[f] \cup {Empty}
      BY <1>2, IndexedTokens, Setting
    <3> QED BY <1>2, <3>1
  <2> QED BY <2>1, <2>2, <2>3 DEF Found, Hit, Matches
<1>3. ASSUME NEW d \in Found(w, T)
      PROVE  \E c \in Conn : d \in Held(c)
  <2>1. d \in Cell /\ Valid(d)
    BY <1>0, <1>1 DEF Found, Hit, TypeOK
  <2> QED BY <1>0, <2>1, Setting DEF Holding, Held
<1> QED BY <1>2, <1>3

\* Every variable of the file index keeps its type: no reference leads
\* outside the memory, and the count stays in its field.
THEOREM TypeCorrect == Spec => []TypeOK
<1>1. IInv => TypeOK
  BY DEF IInv
<1> QED BY Inductive, <1>1, PTL

\* free_datum() marks what a user unshares before the bins let go, whatever size a client
\* gives and in whatever order the tables are collected; and what is shared, a file of the
\* size that is the mark included, keeps its name and its size until its user unshares it.
THEOREM SharedIsValid == Spec => []ValidWhileShared
<1>1. IInv => ValidWhileShared
  BY HoldingMeans DEF IInv
<1> QED BY Inductive, <1>1, PTL

\* fdb_search() finds what is shared under all the words, whichever smallest bin it reads,
\* if its size is not the mark and none of the words is the empty token; and nothing that is
\* unshared, between any two collections.
THEOREM SearchIsSound == Spec => []SearchSound
<1> QED BY Inductive, SearchFromIInv, PTL

\* The memory of a DATUM is freed with its last reference and never before,
\* although free_datum() counts in five bits and the count of a file with 30
\* words, its user and MD5 wraps to 0.
THEOREM FreedWithLast == Spec => []NoDanglingDatum
<1>1. Counted => NoDanglingDatum
  BY DEF Counted, NoDanglingDatum
<1> QED BY Inductive, <1>1, PTL
=============================================================================
