SPECIFICATION RSpec
CONSTANTS
  NoDir = NoDir  Path <- MCPath  Cadence <- MCCadence
  File <- MCFile  Scanned <- MCScanned  Dir <- MCDir  DirOf <- MCDirOf
  Subtree <- MCSubtree  Class <- MCClass  Queue <- RootOrderQueue
  GlobMatch <- MCGlobMatch  Stubborn = {}  Flaky = {}  Configs <- HeadlessNoGlob
INVARIANTS LastCopy
CHECK_DEADLOCK FALSE
