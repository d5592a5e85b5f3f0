SPECIFICATION FairSpec
CONSTANTS
  a = a  b = b  c = c  d = d  e = e  k = k  l = l  x = x  y = y  z = z
  w1 = w1  w2 = w2
  File <- MCFile  Size <- MCSize  Mtime <- MCMtime  Source <- MCSource
  Content <- MCContent  Unreadable <- MCUnreadable  Worker <- MCWorker
  Modes <- AllModes
INVARIANTS FindsAllDuplicates LargestGroupsFirst ReportIsHonest
PROPERTIES Ends
CHECK_DEADLOCK FALSE
