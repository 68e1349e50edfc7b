SPECIFICATION FairSpec
CONSTANTS
    s1 = s1  s2 = s2  t1 = t1  t2 = t2  f1 = f1
    query = query  scan = scan  disk = disk
    ANY = ANY  None = None
    StepIds = {s1, s2}
    TurnIds = {t1}
    FindingIds = {f1}
    Tools = {query}
    EvidenceIds = {disk}
    Destinations <- MCDestinations
    Briefs <- MCOneBrief
    Plan <- MCOneTool
    Outcomes <- MCOutcomes
    MaxReviews = 0
    Service <- MCService
    Uses <- MCNoUses
    Inventory = {s1}
    MaxCalls = 1
    MaxFaults = 2
CHECK_DEADLOCK FALSE
INVARIANTS AnswerIsSaved
PROPERTIES RunEnds
