SPECIFICATION LiveSpec
CONSTANTS
  Ids = {i1}
  Sources = {1}
  Keys <- MCKeys
  Positions = {p1}
  Capacity = 1
  MaxDowns = 1
  Contested = {"touch"}
  Unwritable = {"count"}
  Called = {"count", "supported"}
INVARIANTS
  ShownTouchesAreSupported
PROPERTIES
  TapBegins
  EndedContactsDrain
  DisabledForGood
