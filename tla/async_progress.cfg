SPECIFICATION FairSpec
CONSTANTS
  Threads = {t1, t2}
  None = None
  CoroutinePool = 2
  TweenPool = 1
  SpringPool = 1
  Fields = {f1}
  MaxWait = 2
  MaxDuration = 2
  MaxTweenId = 2
  Idioms = {}
PROPERTIES EveryCoroutineRuns EveryTweenEnds
