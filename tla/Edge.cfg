SPECIFICATION Spec
CONSTANTS
  Reqs = {r1, r2}
  Oneshot = {r2}
  Concurrency = 1
  Segments = 2
  MaxSpawn = 3
  Streams = {s1, s2}
  Accumulate = {s2}
  MaxStart = 2
  Engines <- mcEngines
  Bundled <- mcBundle
  ModelFiles <- mcFiles
INVARIANTS IoMatchesWorker ArtifactsFit
PROPERTIES EdgeCallsEnd
CHECK_DEADLOCK FALSE
