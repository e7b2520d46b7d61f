SPECIFICATION Spec
CONSTANTS
  Keywords = {"k1"}
  MaxLine = 2
  MaxFrames = 6
  MaxSteps = 4
  MaxRepeat = 2
  MaxRuns = 1
  KeepVariables = FALSE
  DebuggerAttached = TRUE
  PauseFromLine = 2
INVARIANT StepsOverKeywords
