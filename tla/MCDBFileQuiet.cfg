SPECIFICATION Spec
CONSTANTS
  v1 = v1
  v2 = v2
  w1 = w1
  w2 = w2
  f1 = f1
  f2 = f2
  f3 = f3
  Name = {v1, v2}
  Worker = {w1, w2}
  Inode = {f1, f2, f3}
  NoWorker = noworker
  NoFile = nofile
  NoName = noname
  FrameList <- MCFrameList
  BS = 2
  MAX_STOPS = 0
SYMMETRY Symmetry
INVARIANTS
  QuietMeansSaved
