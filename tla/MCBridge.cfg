SPECIFICATION Spec
CONSTANTS
  Ids = {i1}
  Sources = {1, 2}
  Keys <- MCKeys
  Positions = {p1}
  Capacity = 2
  MaxDowns = 2
  Contested = {"count"}
  Unwritable = {"count"}
  Called = {"count", "touch"}
INVARIANTS
  OneEventStream
  LiveKeysAreActive
  EchoWindow
  AtMostOneLateContact
PROPERTIES
  OneAnswerPerFrame
