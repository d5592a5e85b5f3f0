SPECIFICATION Spec
CONSTANTS
  f = f  r1 = r1  r2 = r2
  Path <- MCPath  History <- MCHistory  Run <- MCRun  Options <- MCOptions
  MaxTime = 2
SYMMETRY Runs
INVARIANTS TypeOK HashNotOlderThanScan ReusedHashesAreYoung
CHECK_DEADLOCK FALSE
