SPECIFICATION Spec
CONSTANTS
  Subjects = {"stream", "v2v", "profiles"}
  Players = {p1, p2}
  LegacyPlayers = {p2}
  Sentences = 3
  LegacySentences = 2
  MaxChunks = 1
  DefaultWorkers = 2
  BackendWorkers = 2
  MaxText = 2
  Catalog <- mcCatalog
  Shells <- mcShells
  Critical = {"LANGUAGE_MODE"}
  Prefixed <- mcPrefixed
  Managers = {"asr", "tts"}
  MaxApplies = 3
INVARIANTS WireOrder SettingsHold
PROPERTIES StreamEnds FlushAnswered ClosedFreesSlot
CHECK_DEADLOCK FALSE
