SPECIFICATION Spec
CONSTANTS
  Capacity = 3
  MaxGeneration = 2
  Types = {t1}
  Values = {0, 1}
  Default = 0
  MaxMade = 5
INVARIANTS StaleDetected SlotsAccounted
PROPERTIES ImplementsRegistry
