SPECIFICATION CollectionSpec
CONSTANTS
  Objects = {o1, o2, o3, o4}
  None = None
  MaxObjects = 3
  MaxExternal = 1
  MaxComponents = 3
  MaxMade = 3
  MaxCalls = 5
SYMMETRY Symmetry
INVARIANTS CollectionTypeOK CalledInOrder NobodyMissed OnceUnlessPersisted
