SPECIFICATION Spec
CONSTANTS
  s1 = s1  s2 = s2  c1 = c1  c2 = c2  c3 = c3
  o1 = o1  o2 = o2  m1 = m1  m2 = m2
  Calls = {c1, c2, c3}
  Sources = {s1, s2}
  NoSource = NoSource
  NoContent = NoContent
  NoVerdict = NoVerdict
  Legacy <- MCLegacy
  Contents <- MCContents
  Worlds <- MCWorlds
  MaxExtraction = 3
  MaxMedia = 2
  MaxVision = 2
  MaxAudio = 3
  Limit = 2
  MaxQueries = 2
  Copilot = {m2}
  MaxFaults = 1
INVARIANTS
  StorageIsBound
  ReportCatchesUp
  OutcomesAreEarned
  
CHECK_DEADLOCK FALSE
