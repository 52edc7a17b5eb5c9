SPECIFICATION Spec
CONSTANTS
  Commands = {c1, c2}
  Kinds = {"GI", "WW", "ZZZ"}
  Nobody = Nobody
  MaxKills = 1
SYMMETRY CommandSymmetry
INVARIANTS
  OneLaunchedGame
  ExitCodeIsTheGamesFate
  LoaderPathStays
  LoggingAsAsked
