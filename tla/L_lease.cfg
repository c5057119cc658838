SPECIFICATION FairSpec
CONSTANTS
  p1 = p1
  p2 = p2
  w1 = w1
  w2 = w2
  w3 = w3
  Procs = {p1, p2}
  Workers = {w1, w2, w3}
  ProcOf <- Placed
  NoFile = NoFile
  None = None
  BeatEvery = 1
  StaleAfter = 3
  Mishaps = 1
INVARIANTS TypeOK OneWorkerPerProcess HolderReadsLive
PROPERTIES FileFollowsHolder
