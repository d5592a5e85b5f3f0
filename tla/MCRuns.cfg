SPECIFICATION MCSpec
CONSTANTS
  r1 = r1  r2 = r2  r3 = r3  f1 = f1  f2 = f2  s0 = s0  s1 = s1  s2 = s2
  kept = kept  scratch1 = scratch1  scratch2 = scratch2 scratch3 = scratch3
  NoPath = NoPath  NoRun = NoRun  NoFile = NoFile
  Run <- MCRun  Pid <- MCPid  File <- MCFile  Path <- MCPath  Scratch <- MCScratch
  Slot <- MCSlot  Names <- MCNames  Options <- MCOptions
SYMMETRY RunsAlike
INVARIANTS TypeOK StoreStaysPut ServesFinished LastCopyStays TrashIsRecoverable
CHECK_DEADLOCK FALSE
