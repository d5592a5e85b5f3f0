SPECIFICATION FairSpec
CONSTANTS
  w1 = w1  w2 = w2
  Top = "/"
  File <- MCFile  Dir <- MCDir  DirOf <- MCDirOf  Parent <- MCParent
  Subtree <- MCSubtree  PathLen <- MCPathLen  Class <- MCClass  Groups <- MCGroups
  MaxDirs = 2  MaxDepth = 3
  Flaky <- MCFlaky  Seeds <- MCSeeds  Worker <- MCWorker
INVARIANTS TypeOK ConfirmedAreTwins BatchIsFlat NothingFoundIsLost
PROPERTIES TurnedDownForCause AddGroupsReturns
CHECK_DEADLOCK FALSE
