---------------------------- MODULE MCFileIndex ----------------------------
(* Instances of FileIndex for TLC: short names, one with separators at the  *)
(* end, and one of 31 words.  0 is the empty token.                         *)
EXTENDS FileIndex

\* "1 2", "2 3!!" and "1 2 ... 31"; a search for 4 also matches "2 34"
MCTokens == [f \in File |-> CASE f = "short" -> <<1, 2>>
                              [] f = "other" -> <<2, 3, Empty>>
                              [] f = "long"  -> [i \in 1 .. 31 |-> i]]
MCOccurring == [f \in File |-> CASE f = "short" -> {1, 2}
                                [] f = "other" -> {2, 3, 4}
                                [] f = "long"  -> 1 .. 31]
MCQuery == {{1}, {2}, {3}, {1, 2}, {2, 3}, {2, 4}, {1, 31}, {30, 31}, {3, Empty}}
=============================================================================
