SPECIFICATION Spec
CONSTANTS
  Threads = {t1, t2, t3}
  None = None
  CoroutinePool = 2
  TweenPool = 2
  SpringPool = 2
  Fields = {f1, f2}
  MaxWait = 2
  MaxDuration = 2
  MaxTweenId = 3
  Idioms = {"cancel_awaited"}
SYMMETRY Symmetry
INVARIANTS OneSlotEach RunningHasItsSlot AwaitedIsActive
PROPERTIES EndsAlone WokenByAwaited
