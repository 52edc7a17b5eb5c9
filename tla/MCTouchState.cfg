SPECIFICATION Spec
CONSTANTS
  Keys = {k1, k2, k3}
  Positions = {p1, p2}
  Capacity = 2
  FrameIds = {0, 1}
  MaxDowns = 4
SYMMETRY KeySymmetry
INVARIANTS
  SnapshotFits
  OneLiveContactPerKey
PROPERTIES
  TerminalIsFinal
  ImplementsContract
