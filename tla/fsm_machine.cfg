SPECIFICATION FairSpec
CONSTANTS
  Names = {a, b}
  Empty = Empty
  TooLong = TooLong
  NoName = NoName
  MaxStates = 2
  HookSets <- MCHookSets
  Refs = {1, 2, 3}
  Main = Main
  Coroutines = {t}
  NoThread = NoThread
  Idioms = {}
INVARIANTS RefsMatch HeldWhileLive CallsEnteredState
PROPERTIES DefersTransitions RequestsAreTaken
