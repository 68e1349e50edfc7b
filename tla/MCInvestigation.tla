--------------------------- MODULE MCInvestigation ---------------------------
(* Values of Investigation's constants for TLC.  Two plans: Lifecycle has     *)
(* three competing proposals and one-call budgets, Calls one step with two    *)
(* dependent tools whose calls end in findings.                               *)
EXTENDS Investigation

CONSTANTS s1, s2, s3, t1, t2, f1, scan, query, disk, photo

Dest(service, model, auth) ==
    [service |-> service, model |-> model, auth |-> auth, account |-> ANY]

\* A destination that a brief lists, for any account, and one that none does.
MCListed == Dest("openai", "small", "api")
MCDestinations == {MCListed, Dest("openai", "small", "oauth")}

Brief(objective, evidence, destinations, external) ==
    [objective |-> objective, evidence |-> evidence, destinations |-> destinations,
     external |-> external]

\* Three briefs to change between; the second allows more than the others.
MCBriefs == {Brief(TRUE, {disk}, {}, FALSE),
             Brief(TRUE, {disk, photo}, {MCListed}, TRUE),
             Brief(FALSE, {disk}, {}, FALSE)}
MCOneBrief == {Brief(TRUE, {disk, photo}, {}, FALSE)}

Proposal(evidence, tools, calls, retries, needs, recommended, external) ==
    [evidence |-> evidence, tools |-> tools, calls |-> calls, retries |-> retries,
     needs |-> needs, selectors |-> {query} \cap tools, recommended |-> recommended,
     external |-> external]

NoNeeds == [tool \in {} |-> {}]

\* s3 names an external tool and evidence that only the second brief selects.
MCLifecyclePlan ==
    [id \in {s1, s2, s3} |->
        Proposal(IF id = s3 THEN {photo} ELSE {disk}, {query}, 1, 0, NoNeeds,
                 id # s2, id = s3)]

\* scan needs a usable query; s2 is malformed, since its tool needs itself.
MCCallsPlan ==
    [id \in {s1, s2} |->
        IF id = s1 THEN Proposal({disk}, {query, scan}, 3, 1, [tool \in {scan} |-> {query}], TRUE, FALSE)
                   ELSE Proposal({disk}, {scan}, 1, 0, [tool \in {scan} |-> {scan}], TRUE, FALSE)]


Outcome(status, error, complete, truncated) ==
    [status |-> status, error |-> error, complete |-> complete, truncated |-> truncated]
MCOutcomes ==
    {Outcome("Success", FALSE, FALSE, FALSE), Outcome("Failed", TRUE, FALSE, FALSE)}
MCCallOutcomes ==
    {Outcome("Success", FALSE, FALSE, FALSE), Outcome("Partial", FALSE, FALSE, TRUE),
     Outcome("Failed", TRUE, FALSE, FALSE)}
=============================================================================
