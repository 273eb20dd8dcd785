CONSTANTS
  NoPid = NoPid
  Pids = {p1, p2, p3}
SPECIFICATION Spec
INVARIANT StartIsHeard
