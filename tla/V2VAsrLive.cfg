SPECIFICATION FairSpec
CONSTANTS
  Tasks = {"dispatcher", "out", "handler"}
  MayCall <- V2VCalls
  Retries = 0
  MaxGen = 1
  MaxStreams = 2
  Configs <- PlainMulti
CHECK_DEADLOCK FALSE
PROPERTIES TurnEnds DisconnectCloses
