SPECIFICATION FairSpec
CONSTANTS
  f1 = f1
  f2 = f2
  NoFunction = NoFunction
  Function = {f1, f2}
  Builder = {b1, b2}
  Saver = {s1}
  MaxRetries = 2
  Settings <- MCSettings
INVARIANTS ReadyHasImage FailureIsReal RowFollows
PROPERTIES EveryFunctionEnds
