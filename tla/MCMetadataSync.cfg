SPECIFICATION Spec
CONSTANTS
  Renames = {r1, r2}
  Default = d
  Conns = {c1, c2}
  None = none
  MaxOutput = 1
  MaxResize = 1
INVARIANTS
  NameSticks
  FinalFlush
  GoneKept
PROPERTIES
  ActivityForward
SYMMETRY Symmetry
