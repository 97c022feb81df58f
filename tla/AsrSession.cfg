SPECIFICATION MFairSpec
CONSTANTS
  Tasks = {"dispatcher", "out"}
  MayCall <- V2VCalls
  Retries = 3
  MaxGen = 3
  MaxStreams = 5
INVARIANTS StreamsAccounted
PROPERTIES CallsReturn
