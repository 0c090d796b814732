CONSTANTS
  Member = {1, 2, 3}
  Score = {0, 1}
  ZSKIPLIST_MAXLEVEL = 3
  Width = 3
  Other = Other
SPECIFICATION Spec
INVARIANTS
  SpansExact
  SlabAccounted
  ReadsExact
PROPERTY ImplementsSortedSet
