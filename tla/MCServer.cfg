CONSTANTS
  Fds = {f1, f2, f3}
  NoFd = NoFd
  Workers = {w1, w2}
  ConnSlots = {c1, c2}
  SessionSlots = {s1, s2}
  Pids = {p1}
  NoPid = NoPid
  None = None
  MaxFailures = 1
SPECIFICATION FairSpec
INVARIANTS
  HandlesAreOpen
  SocketsAreHeld
  SlotsAreHeld
  FlagOutlivesUsers
  ForeignRecvOnlyInClose
PROPERTY EndingEnds
