SPECIFICATION Spec
CONSTANTS
  Keywords = {"k1"}
  MaxLine = 1
  MaxFrames = 4
  MaxSteps = 3
  MaxRepeat = 1
  MaxRuns = 1
  KeepVariables = FALSE
  DebuggerAttached = FALSE
  PauseFromLine = 0
INVARIANT TeardownInAnyCase
