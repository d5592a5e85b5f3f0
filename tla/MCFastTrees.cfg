SPECIFICATION Spec
CONSTANTS
  any = any  AnyDepth = any
  Dir <- MCDir  File <- MCFile  Top <- MCTop  PathTo <- MCPathTo  Order <- MCOrder
  Inode <- MCInode  Link <- MCLink  Size <- MCSize  MTime <- MCMTime  Content <- MCContent  Device <- MCDevice
  Special <- MCSpecial  Sidecar <- MCSidecar  Unreadable <- MCUnreadable
  Fresh <- MCFresh  Fleeting <- MCFleeting
  Defaults <- MCDefaults  Options <- MCOptions
  HashOf <- MCHashOf  Flaky <- MCFlaky  HashMod = 64  MinFiles = 2  MaxDirs = 3
INVARIANTS InventoryIsExact WholeTrees LostToALargerPair
CHECK_DEADLOCK FALSE
