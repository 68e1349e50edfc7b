SPECIFICATION Spec
CONSTANTS
    s1 = s1  s2 = s2  s3 = s3
    t1 = t1  t2 = t2  f1 = f1
    scan = scan  query = query  disk = disk  photo = photo
    ANY = ANY  None = None
    StepIds = {s1, s2, s3}
    TurnIds = {t1, t2}
    FindingIds = {}
    Tools = {query}
    EvidenceIds = {disk, photo}
    Destinations <- MCDestinations
    Briefs <- MCBriefs
    Plan <- MCLifecyclePlan
    Outcomes <- MCOutcomes
    MaxReviews = 0
INVARIANTS Authority
PROPERTIES RetiredForGood ScopeFrozen
