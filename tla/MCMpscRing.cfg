CONSTANTS
  Value = {v1, v2}
  Producers = {h1, h2}
  CAP = 3
  Uninit = Uninit
  UsizeMod = 16
SPECIFICATION Spec
SYMMETRY Symmetry
INVARIANT TypeOK
PROPERTIES
  QueueSpec
  HasExcpIsRight
