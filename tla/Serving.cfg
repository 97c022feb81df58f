SPECIFICATION Spec
CONSTANTS
  Clients = {"player", "speaker", "caller"}
  KindsOf <- MCKinds
  SessionLimit = 2
  Modes = {"exclusive", "concurrent"}
  MinSentence = 2
  MaxBuffer = 4
  MinChars = 2
  TargetChars = 3
  MaxChars = 4
  MaxInput = 4
INVARIANTS UsersAreCounted TextSpokenOnce
PROPERTIES PoolSpec RequestEnds
CHECK_DEADLOCK FALSE
