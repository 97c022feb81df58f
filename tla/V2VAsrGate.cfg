SPECIFICATION Spec
CONSTANTS
  Tasks = {"dispatcher", "out", "handler"}
  MayCall <- V2VCalls
  Retries = 1
  MaxGen = 2
  MaxStreams = 3
  Configs <- VadMulti
CHECK_DEADLOCK FALSE
PROPERTY EndpointFinalizesItsOwn
