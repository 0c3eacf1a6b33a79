SPECIFICATION Spec
CONSTANTS
  Sessions = {a, b}
  Nobody = Nobody
  Slots = {k1, k2, k3, k4}
  MaxAttempts = 2
SYMMETRY Symmetry
INVARIANTS
  NeverStuck
  SingleSocket
PROPERTIES
  OpensOnlyCurrent
