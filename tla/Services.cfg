SPECIFICATION MCSpec
CONSTANTS
  home = home
  away = away
  conf1 = conf1
  conf2 = conf2
  t1 = t1
  t2 = t2
  Projects = {home, away}
  NoProject = NoProject
  Configs = {conf1, conf2}
  Ticks = {t1, t2}
  MaxActs = 3
  f = f
  g = g
  h = h
  TreePaths = {f, g, h}
  TreeOrder <- Tree
  x = x
  y = y
  Queries = {x, y}
  Roots = {home, away}
  FirstRoot = home
  Nothing = Nothing
  BatchSize = 2
  MaxMatches = 2
  MaxHits = 1
  MaxSearches = 2
  MaxWork = 3
INVARIANTS ManifestAgrees EntryIsSafe MonitorTellsTruth SearchTellsTruth
PROPERTIES PublishedOnce KeepsPromise StopEnds FinishedCompletes MonitorCatchesUp WritesWhatWasShown SearchSettles
CHECK_DEADLOCK FALSE
