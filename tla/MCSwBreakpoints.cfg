CONSTANTS
  None = None
  Addrs = {a1, a2, a3}
  Shared = {}
  Code = {c1, c2}
  NumSlots = 2
  Threads = {t1}
SPECIFICATION Spec
SYMMETRY Symmetry
INVARIANTS
  OneSlotPerAddress
  TextIsProgram
  DetachedIsClean
