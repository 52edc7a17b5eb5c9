SPECIFICATION LiveSpec
CONSTANTS
  MaxAttempts = 3
  MaxDisturbances = 3
  Providers = {p1, p2}
  Layouts = {0, 1, 2}
  NoProvider = NoProvider
  MaxFaults = 2
  MaxGame = 3
INVARIANTS
  OneDisturbanceIsHarmless
  RivalsStayCalled
  ReadyMeansAllHooked
  ConflictReleasesAll
PROPERTIES
  RestoresTheGamesValue
  ChangedProvidersAreGivenBack
  MobileWhileEnabled
  RegistrationIsTakenBack
CHECK_DEADLOCK FALSE
