SPECIFICATION MCSpec
CONSTANTS
  c1 = c1
  c2 = c2
  Calls = {c1, c2}
  Ids = {"i"}
  IdOf <- SameId
  NoCall = NoCall
  MaxOutput = 3
  MaxStops = 2
  d = d
  b = b
  f1 = f1
  f2 = f2
  Tasks = {d, b}
  ModeOf <- Modes
  Files = {f1, f2}
  First = f1
  NoTab = NoTab
  NoTask = NoTask
  MaxSteps = 2
  MaxInbox = 1
  MaxBuilds = 3
  MaxHistory = 2
  NoBuild = NoBuild
INVARIANTS TaskKeepsToItself LinesReassembled WindowFollowsTask ConsoleIsOwn ReportTellsTruth
PROPERTIES KeepsPromise StopEnds StopReleasesWindow
CHECK_DEADLOCK FALSE
