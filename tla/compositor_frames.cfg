SPECIFICATION Spec
CONSTANTS
  LayerCount = 2
  Tiles = {t1, t2}
  Pixels <- Inks
  Black = "black"
  Transparent = "transparent"
  Remaps <- Tints
  Identity <- Plain
  Idioms = {}
  MaxCalls = 4
SYMMETRY Symmetry
INVARIANTS DisplayCurrent SettlesToZero
