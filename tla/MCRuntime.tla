------------------------------ MODULE MCRuntime ------------------------------
(* Values of Runtime's constants for TLC: two steps with one tool or two, a   *)
(* reasoning service that the brief allows, and a tool's own service.         *)
EXTENDS Runtime

CONSTANTS s1, s2, t1, t2, f1, query, scan, disk

Dest(service) == [service |-> service, model |-> "m", auth |-> "api", account |-> ANY]
MCService == Dest("reasoning")
MCDestinations == {MCService, Dest("vision")}
MCUses == [tool \in {query, scan} |-> IF tool = scan THEN Dest("vision") ELSE None]

Brief(destinations) ==
    [objective |-> TRUE, evidence |-> {disk}, destinations |-> destinations,
     external |-> FALSE]
MCBriefs == {Brief(MCDestinations), Brief({MCService}), Brief({})}
MCOneBrief == {Brief(MCDestinations)}

Proposal(tools, calls) ==
    [evidence |-> {disk}, tools |-> tools, calls |-> calls, retries |-> 0,
     needs |-> [tool \in {} |-> {}], selectors |-> {query} \cap tools,
     recommended |-> TRUE, external |-> FALSE]
MCTwoTools == [id \in {s1} |-> Proposal({query, scan}, 2)]
MCNoUses == [tool \in {query} |-> None]
MCOneTool == [id \in {s1, s2} |-> Proposal({query}, 1)]

MCOutcomes ==
    {[status |-> "Success", error |-> FALSE, complete |-> TRUE, truncated |-> FALSE],
     [status |-> "Unknown", error |-> TRUE, complete |-> FALSE, truncated |-> FALSE]}
=============================================================================
