SPECIFICATION MCSpec
CONSTANTS
  root = root
  a = a
  all = all
  r1 = r1
  a1 = a1
  a2 = a2
  c1 = c1
  Suites = {root, a, all}
  CaseFiles = {r1, a1, a2, c1}
  Movable = {a2, c1}
  AllId = all
  k1 = k1
  k2 = k2
  KeywordProjects = {k1, k2}
  MaxAsks = 2
  MaxSaves = 1
  MaxSwitches = 1
  b = b
  lib = lib
  Paths = {a, b}
  Existing = {a, b}
  Sources = {lib}
  None = None
  MaxVersion = 2
  MaxCalls = 1
  MaxTabs = 3
  Below <- MCBelow
  SuiteOf <- MCSuiteOf
INVARIANTS BoxesTellTruth KeywordsAreCurrent TabsTellTruth
PROPERTIES SelectionIsRun TextIsKept
CHECK_DEADLOCK FALSE
