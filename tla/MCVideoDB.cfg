SPECIFICATION Spec
CONSTANTS
  v1 = v1
  v2 = v2
  w1 = w1
  w2 = w2
  Name = {v1, v2}
  Worker = {w1, w2}
  IoThread = io
  NoThread = nothread
  NoName = noname
  Frame <- MCFrame
  FrameList <- MCFrameList
  SLOT_SPAN = 2
  LONG = 2
  Score <- MCScore
SYMMETRY Symmetry
INVARIANTS
  TypeOK
  IndexExact
  RefExact
  AddReplyTrue
  SelfFirst
  InfoForward
PROPERTIES
  ImplementsMatchStore
