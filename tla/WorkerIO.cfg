SPECIFICATION FairSpec
CONSTANTS
  Requests = {r1, a1}
  Async = {a1}
  Large = {r1}
  Streaming = {r1, a1}
  Concurrency = 2
  MaxChunks = 1
INVARIANTS SlotsAccounted WaiterHasNews
PROPERTIES InFlightEnds
CHECK_DEADLOCK FALSE
