------------------------- MODULE MCInvestigationStore -------------------------
(* Values of InvestigationStore's constants for TLC: one step with one tool.  *)
EXTENDS InvestigationStore, TLC

CONSTANTS s1, t1, query, disk, p1, p2

MCBriefs ==
    {[objective |-> TRUE, evidence |-> {disk}, destinations |-> {}, external |-> FALSE]}
MCPlan ==
    [id \in {s1} |->
        [evidence |-> {disk}, tools |-> {query}, calls |-> 1, retries |-> 0,
         needs |-> [tool \in {} |-> {}], selectors |-> {query},
         recommended |-> TRUE, external |-> FALSE]]
MCOutcomes == {[status |-> "Success", error |-> FALSE, complete |-> TRUE, truncated |-> FALSE]}
MCSymmetry == Permutations(Stores)
=============================================================================
