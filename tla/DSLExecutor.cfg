SPECIFICATION Spec
CONSTANTS
  Keywords = {"k1", "k2"}
  MaxLine = 1
  MaxFrames = 7
  MaxSteps = 4
  MaxRepeat = 2
  MaxRuns = 1
  KeepVariables = FALSE
  DebuggerAttached = TRUE
  PauseFromLine = 0
INVARIANTS StacksFollowPath TrackerAgrees RecursionGuard DebuggerStepsOver
PROPERTIES TeardownCompletes ImplementsLifecycle
