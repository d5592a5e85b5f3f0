SPECIFICATION RSpec
CONSTANTS
  NoDir = NoDir  Path <- MCPath  Cadence <- MCCadence
  File <- MCFile  Scanned <- MCScanned  Dir <- MCDir  DirOf <- MCDirOf
  Subtree <- MCSubtree  Class <- MCClass  Queue <- MixedQueue
  GlobMatch <- MCGlobMatch  Stubborn <- MCStubborn  Flaky <- MCFlaky  Configs <- All
INVARIANTS LossNeedsBrokenPair OnlyOnRequest PrunedDirsAreEmptyTrees PreviewMatchesRun
CHECK_DEADLOCK FALSE
