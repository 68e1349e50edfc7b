SPECIFICATION Spec
CONSTANTS
    s1 = s1  s2 = s2  s3 = s3
    t1 = t1  t2 = t2  f1 = f1
    scan = scan  query = query  disk = disk  photo = photo
    ANY = ANY  None = None
    StepIds = {s1, s2}
    TurnIds = {t1}
    FindingIds = {f1}
    Tools = {query, scan}
    EvidenceIds = {disk, photo}
    Destinations = {}
    Briefs <- MCOneBrief
    Plan <- MCCallsPlan
    Outcomes <- MCCallOutcomes
    MaxReviews = 1
INVARIANTS TypeOK PlanIsKept FindingsGrounded
PROPERTIES OutcomesImmutable
