\* Six names with two scores: every tree of up to six members, every
\* rotation, and the removal of nodes with no, one and two children.
CONSTANTS
  Name = {1, 2, 3, 4, 5, 6}
  Score = {1, 2}
  Query <- Queries
  NULL = NULL
SPECIFICATION HSpec
INVARIANTS TypeOK IndexesAgree LinksAgree Balanced CountsExact OffsetIsLogarithmic
PROPERTIES QueryIsExact
