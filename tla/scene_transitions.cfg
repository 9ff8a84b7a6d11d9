SPECIFICATION FairSpec
CONSTANTS
  Scenes = {s1, s2, s3}
  Objects = {}
  None = None
  MaxScenes = 3
  MaxObjects = 0
  MaxExternal = 0
  MaxPersistent = 0
  Duration = 4
  MaxDt = 2
  ChangeTypes = {"IMMEDIATE", "FADE_OUT_IN", "SLIDE"}
  PersistPoints = {}
  Removable = {}
INVARIANTS TransitionKeepsTime OneActiveScene
PROPERTIES TransitionCompletes
