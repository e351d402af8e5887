----------------------------- MODULE FileIndex -----------------------------
(***************************************************************************)
(* The files of the local users of one server.  A DATUM is referenced by   *)
(* the file table of its user's connection, by the bin of each of its      *)
(* words in File_Table and by its bin in MD5, and counts its references in *)
(* a field of five bits.  When a file is unshared or its user leaves, only *)
(* the user's table lets go of the DATUM; the bins keep it, marked invalid,*)
(* until a timer collects the garbage of their table.  The mark is the     *)
(* size (unsigned) -1, and sizes come from clients: a file of that size is *)
(* marked while it is shared.                                              *)
(***************************************************************************)
EXTENDS Integers, FiniteSets, Sequences, SequencesExt

CONSTANTS
  Conn,      \* connections of local users
  File,      \* names of files
  Word,      \* searchable words
  Empty,     \* the token that tokenize() makes of separators at the end
  Tokens,    \* Tokens[f]: the words of f in order, each once (tokenize())
  Occurring, \* Occurring[f]: the words that occur in f as substrings
  MaxTokens, \* number of tokens indexed: 30
  RefRange,  \* number of values of the field refcount: 32
  Query,     \* the sets of words that are searched for
  Size,      \* the sizes that clients give, in bytes
  SizeRange, \* number of values of an unsigned int
  Kilo,      \* bytes in a kB: 1024
  RESUME,    \* TRUE if the server is built with the MD5 table
  Cell,      \* memory for DATUMs
  None       \* no DATUM

ASSUME Setting ==
  /\ Tokens \in [File -> Seq(Word)] /\ Occurring \in [File -> SUBSET Word]
  /\ \A f \in File : /\ IsInjective(Tokens[f])
                     /\ ToSet(Tokens[f]) \subseteq Occurring[f] \cup {Empty}
                     /\ Empty \notin Occurring[f]
  /\ Query \subseteq (SUBSET Word) \ {{}}
  /\ MaxTokens \in Nat /\ RESUME \in BOOLEAN
  /\ {RefRange, SizeRange, Kilo} \subseteq Nat \ {0} /\ Size \subseteq 0 .. SizeRange - 1
  /\ None \notin Cell \cup Nat /\ IsFiniteSet(Cell) /\ IsFiniteSet(Word)

\* the field refcount counts up to 32, its full range stored as 0: the user,
\* the indexed words, and MD5 when it is built (insert_datum())
ASSUME CountFits == MaxTokens + (IF RESUME THEN 2 ELSE 1) <= RefRange

VARIABLES
  files,   \* files[c][f]: con->uopt->files
  libsize, \* libsize[c]: the size of what the user of c shares, in kB
  bins,    \* bins[w]: the DATUMs in the bin of w of File_Table
  md5,     \* the DATUMs in the bins of MD5
  datum,   \* datum[d]: the memory of a DATUM
  given    \* given[c][f]: history, the size that the client gave for what it shares

vars == <<files, libsize, bins, md5, datum, given>>

-----------------------------------------------------------------------------
(* Data *)

\* (unsigned) -1, the size that marks a DATUM as invalid
Invalid == SizeRange - 1
Datum == [used : BOOLEAN, file : File \cup {None}, size : 0 .. SizeRange - 1,
          refcount : 0 .. RefRange - 1]
Free  == [used |-> FALSE, file |-> None, size |-> Invalid, refcount |-> 0]

\* the tokens that insert_datum() indexes: excess ones are dropped from the
\* front of the list
Indexed(f) ==
  LET n == Len(Tokens[f])
  IN  ToSet(SubSeq(Tokens[f], IF n > MaxTokens THEN n - MaxTokens + 1 ELSE 1, n))

\* the references a new DATUM for f gets
References(f) == 1 + Cardinality(Indexed(f)) + (IF RESUME THEN 1 ELSE 0)

\* free_datum(), k times
FreeEarly(x, k) ==
  IF k = 0 THEN x
  ELSE IF x.refcount <= k + 1 THEN Free
       ELSE [x EXCEPT !.size = Invalid, !.refcount = @ - k]
FreeUnmarked(x, k) ==
  IF k = 0 THEN x
  ELSE IF k = x.refcount THEN Free ELSE [x EXCEPT !.refcount = (@ - k) % RefRange]
FreeDatum(x, k) ==
  IF k = 0 THEN x
  ELSE IF k >= (IF x.refcount = 0 THEN RefRange ELSE x.refcount) THEN Free
       ELSE [x EXCEPT !.size = Invalid, !.refcount = (@ - k) % RefRange]

Held(c) == {files[c][f] : f \in File} \ {None}

-----------------------------------------------------------------------------
Init == /\ files = [c \in Conn |-> [f \in File |-> None]]
        /\ given = [c \in Conn |-> [f \in File |-> None]]
        /\ libsize = [c \in Conn |-> 0]
        /\ bins = [w \in Word |-> {}]
        /\ md5 = {}
        /\ datum = [d \in Cell |-> Free]

\* what the handlers let a client add: add_file() and share_file() look whether libsize,
\* in kB, overflows by the bytes; add_directory() takes what a positive int can hold
Accepted(c, size) ==
  \/ (libsize[c] + size) % SizeRange >= libsize[c]
  \/ size \in 1 .. SizeRange \div 2 - 1

\* new_datum() and insert_datum() with fdb_add(); a duplicate is refused
Share(c, f, size) ==
  /\ files[c][f] = None /\ Accepted(c, size)
  /\ \E d \in Cell :
       /\ ~datum[d].used
       /\ datum' = [datum EXCEPT ![d] = [used |-> TRUE, file |-> f, size |-> size,
                                         refcount |-> References(f) % RefRange]]
       /\ files' = [files EXCEPT ![c][f] = d]
       /\ bins' = [w \in Word |-> IF w \in Indexed(f) THEN bins[w] \cup {d} ELSE bins[w]]
       /\ md5' = IF RESUME THEN md5 \cup {d} ELSE md5
  /\ libsize' = [libsize EXCEPT ![c] = (@ + size \div Kilo) % SizeRange]
  /\ given' = [given EXCEPT ![c][f] = size]

\* remove_file(): hash_remove() frees the user's reference
Unshare(c, f) ==
  /\ files[c][f] # None
  /\ libsize' = [libsize EXCEPT ![c] = (@ - datum[files[c][f]].size \div Kilo) % SizeRange]
  /\ datum' = [datum EXCEPT ![files[c][f]] = FreeDatum(@, 1)]
  /\ files' = [files EXCEPT ![c][f] = None]
  /\ given' = [given EXCEPT ![c][f] = None]
  /\ UNCHANGED <<bins, md5>>

\* remove_user(): free_hash() frees the reference of every file
Leave(c) ==
  /\ Held(c) # {}
  /\ datum' = [d \in Cell |-> IF d \in Held(c) THEN FreeDatum(datum[d], 1) ELSE datum[d]]
  /\ files' = [files EXCEPT ![c] = [f \in File |-> None]]
  /\ given' = [given EXCEPT ![c] = [f \in File |-> None]]
  /\ libsize' = [libsize EXCEPT ![c] = 0]
  /\ UNCHANGED <<bins, md5>>

\* collect_garbage() keeps what is valid
KeepsAll(S) == S
Valid(d) == datum[d].size # Invalid
Keeps(S) == {d \in S : Valid(d)}

\* fdb_garbage_collect() of File_Table: each bin lets go of its garbage
CollectWords ==
  /\ bins' = [w \in Word |-> Keeps(bins[w])]
  /\ datum' = [d \in Cell |->
       FreeDatum(datum[d], Cardinality({w \in Word : d \in bins[w] \ Keeps(bins[w])}))]
  /\ UNCHANGED <<files, libsize, given, md5>>

\* fdb_garbage_collect() of MD5
CollectMD5 ==
  /\ RESUME
  /\ md5' = Keeps(md5)
  /\ datum' = [d \in Cell |-> FreeDatum(datum[d], IF d \in md5 \ Keeps(md5) THEN 1 ELSE 0)]
  /\ UNCHANGED <<files, libsize, given, bins>>

Next == \/ \E c \in Conn : \/ \E f \in File :
                                Unshare(c, f) \/ \E size \in Size : Share(c, f, size)
                           \/ Leave(c)
        \/ CollectWords \/ CollectMD5

Spec == Init /\ [][Next]_vars

\* The two timers go off again and again.
FairSpec == Spec /\ WF_vars(CollectWords) /\ WF_vars(CollectMD5)

-----------------------------------------------------------------------------
(* Searching *)

\* fdb_search() for the words T without a limit: it reads a smallest bin of
\* the words (no bin, no hits) and keeps what is valid and matches all of them
Smallest(T) == {w \in T : \A v \in T : Cardinality(bins[w]) <= Cardinality(bins[v])}

\* match(): the empty token is looked for with strpbrk(), which finds none of no characters
Matches(d, T) == T \subseteq Occurring[datum[d].file]
HitAny(d, T) == Matches(d, T)
Hit(d, T) == Valid(d) /\ Matches(d, T)
Found(w, T) == {d \in bins[w] : Hit(d, T)}

-----------------------------------------------------------------------------
(* Properties *)

Users(d)  == {c \in Conn : d \in Held(c)}
InBins(d) == {w \in Word : d \in bins[w]}
Refs(d)   == Cardinality(Users(d)) + Cardinality(InBins(d)) + (IF d \in md5 THEN 1 ELSE 0)

\* Every variable has its type.
TypeOK ==
  /\ files \in [Conn -> [File -> Cell \cup {None}]]
  /\ given \in [Conn -> [File -> Size \cup {None}]]
  /\ libsize \in [Conn -> 0 .. SizeRange - 1]
  /\ bins \in [Word -> SUBSET Cell] /\ md5 \subseteq Cell
  /\ datum \in [Cell -> Datum]

\* The memory of a DATUM is in use exactly as long as something refers to it,
\* though the count of 32 references (30 words, the user and MD5) is stored as 0.
NoDanglingDatum ==
  \A d \in Cell : /\ datum[d].used <=> Refs(d) # 0
                  /\ datum[d].refcount = Refs(d) % RefRange

\* A DATUM that nobody shares is marked invalid, whatever still refers to it.  One that is
\* shared is that file of that user alone and has the size that was given for it, whatever
\* else was unshared or collected meanwhile: it is valid, but for a file of size (unsigned) -1.
ValidWhileShared ==
  /\ \A d \in Cell : Users(d) = {} => ~Valid(d)
  /\ \A c \in Conn, f \in File :
       files[c][f] # None => /\ Users(files[c][f]) = {c}
                             /\ datum[files[c][f]].file = f
                             /\ datum[files[c][f]].size = given[c][f]

\* A search finds every file shared now that is indexed under all the words, whichever
\* smallest bin it reads, unless it has the size that marks garbage or the empty token is
\* among the words; and it finds nothing that is not shared.
SearchSound ==
  \A T \in Query : \A w \in Smallest(T) :
    /\ \A c \in Conn, f \in File :
         (files[c][f] # None /\ T \subseteq Indexed(f) /\ given[c][f] # Invalid /\ Empty \notin T)
           => files[c][f] \in Found(w, T)
    /\ \A d \in Found(w, T) : \E c \in Conn : d \in Held(c)

\* What is unshared is freed in the end.
Reclaimed ==
  \A d \in Cell : (datum[d].used /\ Users(d) = {}) ~> ~datum[d].used

-----------------------------------------------------------------------------
(* What the code does not keep *)

\* "find the list of files which contain all search tokens": every file shared now that is
\* indexed under all the words.
IndexedIsFound ==
  \A T \in Query : \A w \in Smallest(T) : \A c \in Conn, f \in File :
    (files[c][f] # None /\ T \subseteq Indexed(f)) => files[c][f] \in Found(w, T)

\* free_datum() asserts refcount > 0 whenever a reference is dropped.
CountPositive == \A d \in Cell : Refs(d) # 0 => datum[d].refcount > 0
=============================================================================
