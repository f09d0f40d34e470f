\* Any call may fail, other processes may remove whatever is empty, and one of
\* the two directories may be moved once.
CONSTANTS
  Nodes <- AllNodes
  Root = "root"
  Top = "top"
  ParentOf <- Parents
  NameOf <- Names
  KindOf <- TheKinds
  Removable = {"root", "sub", "deep", "link", "file1", "file2"}
  Movable = {"sub", "deep"}
  MaxMoves = 1
SPECIFICATION FairSpec
INVARIANTS
  NamesMeetTheirDirectory
  EachVisitedOnce
PROPERTIES
  WalkEnds
