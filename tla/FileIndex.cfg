SPECIFICATION FairSpec
CONSTANTS
  None = None
  Conn = {c1, c2}
  File = {"short", "other", "long"}
  Empty = 0
  Word = {0, 1, 2, 3, 4, 5, 6, 7, 8, 9, 10, 11, 12, 13, 14, 15, 16, 17, 18, 19, 20,
          21, 22, 23, 24, 25, 26, 27, 28, 29, 30, 31}
  Tokens <- MCTokens
  Occurring <- MCOccurring
  Query <- MCQuery
  MaxTokens = 30
  RefRange = 32
  Size = {3, 15}
  SizeRange = 16
  Kilo = 2
  RESUME = TRUE
  Cell = {1, 2, 3}
INVARIANTS NoDanglingDatum ValidWhileShared SearchSound
PROPERTIES Reclaimed
