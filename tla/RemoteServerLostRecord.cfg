SPECIFICATION Spec
CONSTANTS
  t1 = t1
  t2 = t2
  t3 = t3
  Threads = {t1, t2}
  Keywords = {"python", "dsl"}
  CustomKeywords = {"dsl"}
  MaxConcurrency = 2
  CaptureLevel = 20
  HostLevel = 30
  NoLevel = NoLevel
  MaxRecords = 1
  MaxDepth = 1
INVARIANT OwnRecordsCaptured
