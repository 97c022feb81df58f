SPECIFICATION Spec
CONSTANTS
  Subjects = {"machine", "talk", "llm"}
  Turns = {1, 2}
  MaxInputs = 2
  ModeNames = {"chat", "interpreter", "monologue", "transcribe"}
  RoundCalls = 2
  MaxIterations = 2
  Budget = 5
  EchoWindow = 2
  MaxTurns = 3
  RetryOnTransient = 1
  FailuresToDown = 2
  Unknowns = 2
  MaxRequests = 1
  MaxFlips = 2
INVARIANTS RequestsValid
PROPERTIES ThinkingWatched GateReopens
CHECK_DEADLOCK FALSE
