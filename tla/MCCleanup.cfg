SPECIFICATION FairSpec
CONSTANTS
  x1 = x1  x2 = x2  y1 = y1  y2 = y2  y3 = y3  z1 = z1  z2 = z2  z3 = z3
  v1 = v1  v2 = v2  v3 = v3
  r1 = r1  r2 = r2  r3 = r3  t1 = t1  t2 = t2  t3 = t3
  NoDir = NoDir
  File <- MCFile  Scanned <- MCFile  Dir <- MCDir  DirOf <- MCDirOf
  Subtree <- MCSubtree  Class <- MCClass  Queue <- MCQueue
  GlobMatch <- MCGlobMatch  Stubborn <- MCStubborn  Flaky <- MCFlaky  Configs <- MCConfigs
INVARIANTS
  TypeOK SurvivorInv LastCopyOutsideTrees MapMatchesDisk HeadlessKeepsFirst GlobSparesUnmatched
PROPERTIES
  KeepsOne Termination
CHECK_DEADLOCK FALSE
