SPECIFICATION Spec
CONSTANTS
  Commands <- MCCommands
  Images <- MCImages
  Rules <- MCRules
  Word = 8
  Headers = 1
  ImageSize = 6
  FileSize = 6
  MaxView = 3
  Limit = 2
  MinimumFixed = 2
INVARIANTS
  RelaunchKeepsTheCommand
  ViewsAreBacked
  FindIsExact
CHECK_DEADLOCK FALSE
