SPECIFICATION FairSpec
CONSTANTS
  Kinds = {"tts"}
  Requests = {r1, r2}
  Sockets = {s1, s2}
  Profiles = {pA, pB}
  StartProfile = pA
  MaxBackends = 6
  MaxReloads = 2
INVARIANTS ReadyServesLive
PROPERTIES ServiceSpec ReloadTerminates
