SPECIFICATION Spec
CONSTANTS
  MaxAssets = 3
  Capacity = 18
  AssetAlign = 4
  GroupAlign = 2
  AssetSizes = {3, 4}
  LookSizes = {1, 4}
  HitBytes = 2
  Sprites = {s1, s2, s3}
  Groups = {g1, g2}
SYMMETRY Symmetry
INVARIANTS BlocksApart ViewsHold NothingLost
