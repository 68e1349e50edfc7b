SPECIFICATION Spec
CONSTANTS
    s1 = s1  t1 = t1  query = query  disk = disk  p1 = p1  p2 = p2
    ANY = ANY  None = None
    StepIds = {s1}
    TurnIds = {t1}
    FindingIds = {}
    Tools = {query}
    EvidenceIds = {disk}
    Destinations = {}
    Briefs <- MCBriefs
    Plan <- MCPlan
    Outcomes <- MCOutcomes
    MaxReviews = 0
    Stores = {p1, p2}
    MaxRevision = 7
SYMMETRY MCSymmetry
INVARIANTS FilesMatchDatabase
