SPECIFICATION Spec
CONSTANTS
  Scenes = {s1, s2, s3}
  Objects = {o1, o2, o3}
  None = None
  MaxScenes = 3
  MaxObjects = 2
  MaxExternal = 2
  MaxPersistent = 2
  Duration = 2
  MaxDt = 1
  ChangeTypes = {}
  PersistPoints = {"idle", "update", "initialize", "activate"}
  Removable = {s1, s2, s3}
SYMMETRY Symmetry
INVARIANTS UniqueOwner NoDanglingExternal ParticipatesOnce
PROPERTIES DiesOnlyCondemned RequestIsApplied
