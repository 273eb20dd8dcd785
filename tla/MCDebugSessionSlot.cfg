CONSTANTS
  p1 = p1
  NoPid = NoPid
  Pids = {p1}
  Threads = {t1}
  Owner <- InFirst
  RingCap = 2
  MaxConns = 2
  MaxKills = 1
SPECIFICATION Spec
INVARIANTS
  NoLostWake
  DetachedRuns
CHECK_DEADLOCK FALSE
