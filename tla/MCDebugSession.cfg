CONSTANTS
  p1 = p1
  NoPid = NoPid
  Pids = {p1}
  Threads = {t1, t2}
  Owner <- InFirst
  RingCap = 2
  MaxConns = 1
  MaxKills = 0
SPECIFICATION Spec
SYMMETRY Symmetry
INVARIANTS
  TypeOK
  NoSilentStop
CHECK_DEADLOCK FALSE
