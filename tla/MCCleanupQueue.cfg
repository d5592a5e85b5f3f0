SPECIFICATION Spec
CONSTANTS
  Path <- MCPath  Cadence <- MCCadence
  Column <- MCColumn  NoColumn = NoColumn  ColOf <- MCColOf  Order <- MCOrder  Inputs <- MCInputs
INVARIANTS QueueIsComplete ColumnsAreTrue KeepSlotIsSafest
CHECK_DEADLOCK FALSE
