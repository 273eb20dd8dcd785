CONSTANTS
  Addrs = {a1, a2}
  Kinds = {rd, wr}
  NumBps = 2
  NumWps = 2
  Off = Off
  Word = {0, 1, 2, 3, 4, 5, 6, 7, 8, 9}
  Written = {0}
  UserMode = {5}
  ReportedVfp <- Swapped
  NumGpr = 2
  NumD = 1
  Placeholder <- Pair
  MaxWrites = 1
SPECIFICATION MCSpec
INVARIANTS
  BreakTableIsHardware
  HitIsKnown
  DetachedIsDisarmed
  SingleReadIsSlice
  WriteReadsBack
PROPERTY WritesAreLocal
CHECK_DEADLOCK FALSE
