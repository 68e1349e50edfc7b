SPECIFICATION Spec
CONSTANTS
    s1 = s1  s2 = s2  t1 = t1  t2 = t2  f1 = f1
    query = query  scan = scan  disk = disk
    ANY = ANY  None = None
    StepIds = {s1}
    TurnIds = {t1}
    FindingIds = {}
    Tools = {query, scan}
    EvidenceIds = {disk}
    Destinations <- MCDestinations
    Briefs <- MCBriefs
    Plan <- MCTwoTools
    Outcomes <- MCOutcomes
    MaxReviews = 0
    Service <- MCService
    Uses <- MCUses
    Inventory = {s1}
    MaxCalls = 2
    MaxFaults = 1
CHECK_DEADLOCK FALSE
INVARIANTS ToolRunsOnRecord
PROPERTIES PermittedCallIsClosed ImplementsLedger
