SPECIFICATION FairSpec
CONSTANTS
  n1 = n1
  n2 = n2
  r1 = r1
  r2 = r2
  r3 = r3
  r4 = r4
  D12 = D12
  D20 = D20
  D0 = D0
  DX = DX
  D00 = D00
  Dir = {D12, D20, D0, DX, D00}
  NoDir = nodir
  Files <- MCFiles
  Name = {n1, n2}
  NoName = noname
  Run = {r1, r2, r3, r4}
  NoRun = norun
  Worker = {w1, w2}
  Frame = {0, 1, 2}
  FrameList <- MCFrameList
  Score <- MCScore
  SLOT_SPAN = 1
  LONG = 2
  Jobs <- MCJobs
CHECK_DEADLOCK FALSE
INVARIANTS
  TypeOK
  SureStored
  FoundAfterAdd
  StoredAsFound
  CropInside
PROPERTIES
  EveryRunEnds
