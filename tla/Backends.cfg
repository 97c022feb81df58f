SPECIFICATION Spec
CONSTANTS
  Synths = {c1, c2}
  PoolSize = 1
  Arena = 2
  MaxSlots = 2
  ChunkUnits = 2
  LeftUnits = 3
  RollingUnits = 6
  SpeechUnits = 3
  SilenceUnits = 3
  PieceUnits = {2, 3}
  MaxUnits = 14
  ChunkFrames = 2
  Preroll = 1
  Lookahead = 3
  CapFrames = 8
  MaxFrames = 12
  Streams = {s1, s2}
  MaxAudio = 2
  MossReqs = {r1, r2}
  MaxProcs = 2
  MaxPackets = 4
  LongPackets = 2
  MaxSegments = 3
  MaxSeg = 18
  MinSeg = 2
  MinFrag = 4
  Tails = {6, 8}
  Boundary = 24
  MinRun = 1
  Lengths = {18, 25, 32}
  MaxSilent = 3
  FailThreshold = 3
  RecoverThreshold = 5
  Lookups = {t1}
  PresetIds = {0, 1}
  EnvIds = {1}
  FirstAuto = 2
  MaxId = 2
  MaxRegs = 2
  Chats = {h1, h2}
  MaxTokens = 2
  MaxReloads = 1
CHECK_DEADLOCK FALSE
INVARIANTS SlotsClean SpeechKept FramesOnce SentinelComes OneMossWorker TextWhole SegmentsCover SpeakersKept AnswerIsWhole
PROPERTY StatusFollowsProbes
