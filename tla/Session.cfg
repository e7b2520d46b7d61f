SPECIFICATION MCSpec
CONSTANTS
  Keywords = {"k1"}
  MaxLine = 1
  MaxFrames = 5
  MaxSteps = 3
  MaxRepeat = 1
  MaxRuns = 2
  KeepVariables = FALSE
  DebuggerAttached = FALSE
  PauseFromLine = 0
  p1 = p1
  p2 = p2
  login = login
  logout = logout
  order = order
  tests = tests
  api = api
  shop = shop
  Processes = {p1, p2}
  Cases = {login, logout, order}
  Directories = {tests, api, shop}
  ChainOf <- Chains
  SetupIn = {tests, api}
  TeardownIn = {tests, api}
  NoCase = NoCase
  MaxBuffer = 2
  MaxRender = 1
  MaxLines = 3
  MaxResets = 1
  src1 = src1
  src2 = src2
  src3 = src3
  line1 = line1
  line2 = line2
  SourceFiles = {src1, src2, src3}
  SourceLines = {line1, line2}
  MaxWindows = 3
  Nothing = Nothing
  MaxDefinitionWindows = 2
INVARIANTS TestsLeaveNoVariables HooksEncloseCases ConsoleTellsTruth DefinitionsAreShown
