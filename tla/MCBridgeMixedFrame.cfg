SPECIFICATION Spec
CONSTANTS
  Ids = {i1}
  Sources = {1, 2}
  Keys <- MCKeys
  Positions = {p1}
  Capacity = 1
  MaxDowns = 1
  Contested = {"supported"}
  Unwritable = {}
  Called = {"count", "touch"}
INVARIANTS
  OneSourcePerFrame
