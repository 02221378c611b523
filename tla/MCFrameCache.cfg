SPECIFICATION Spec
CONSTANTS
  v1 = v1
  v2 = v2
  v3 = v3
  v4 = v4
  Key = {v1, v2, v3, v4}
  Stored <- MCStored
  LIMIT = 3
  NIL = nil
INVARIANTS
  TypeOK
  ListOK
  AlwaysAnswered
PROPERTIES
  ImplementsLruCache
