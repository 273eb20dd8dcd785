CONSTANTS
  NoPid = NoPid
  Pids = {p1, p2, p3}
SPECIFICATION FairSpec
INVARIANTS
  LateStartIsHeard
  NoFalseExit
PROPERTY RunAnswers
