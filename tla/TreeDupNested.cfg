SPECIFICATION Spec
CONSTANTS
  w1 = w1  w2 = w2
  Top = "/"
  File <- NestedFile  Dir <- MCDir  DirOf <- NestedDirOf  Parent <- MCParent
  Subtree <- MCSubtree  PathLen <- MCPathLen  Class <- NestedClass  Groups <- NestedGroups
  MaxDirs = 2  MaxDepth = 3
  Flaky <- MCFlaky  Seeds <- MCSeeds  Worker <- MCWorker
INVARIANTS EitherSideMayGo
CHECK_DEADLOCK FALSE
