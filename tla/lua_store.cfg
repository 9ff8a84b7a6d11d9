SPECIFICATION StoreSpec
CONSTANTS
  Hosts = {"blob", "desktop"}
  Owners = {o1, o2}
  NoScope = NoScope
  Keys = {k1, k2, k3}
  Values = {2}
  ReadBack <- SixDigits
  Partial = Partial
  Garbled = Garbled
  Unreadable = {}
  Size <- Text1Or2
  BufferMax = 4
  MaxKeys = 2
  Faults = {"refused", "cut"}
SYMMETRY Symmetry
INVARIANTS OwnersApart
PROPERTIES NothingForgotten
