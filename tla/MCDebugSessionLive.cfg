CONSTANTS
  p1 = p1
  NoPid = NoPid
  Pids = {p1}
  Threads = {t1}
  Owner <- InFirst
  RingCap = 2
  MaxConns = 1
  MaxKills = 1
SPECIFICATION FairSpec
PROPERTIES
  StopIsReported
  ExitIsReported
CHECK_DEADLOCK FALSE
