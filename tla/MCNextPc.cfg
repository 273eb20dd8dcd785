CONSTANTS
  W = 5
  Unreadable = Unreadable
  Memory <- Bytes
  Insns <- AllInsns
  Values = {0, 1, 4, 6, 17}
  Addrs = {4, 6, 28, 30}
  BitAnd <- WordAnd
  BitOr <- WordOr
  BitXor <- WordXor
SPECIFICATION Spec
INVARIANTS
  StepsToNext
  PanicsOnShiftedOnly
CHECK_DEADLOCK FALSE
