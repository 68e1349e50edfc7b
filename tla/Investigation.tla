---------------------------- MODULE Investigation ----------------------------
(***************************************************************************)
(* The investigation ledger of one session: the row that InvestigationStore *)
(* (src/src/investigation.rs) keeps in the table agent_investigations, and  *)
(* every operation of the store on it, each taken in one step.              *)
(*                                                                          *)
(* An operation is a relation on snapshots, Op(s, t, ...): s is the snapshot *)
(* the operation loads and t the one it records.  Those that require the    *)
(* exported files to be up to date (ensure_exported) also take ready, which *)
(* says so of the revision they loaded.  InvestigationStore runs the same   *)
(* relations from several stores at once and refines this module.           *)
(***************************************************************************)
EXTENDS Integers, FiniteSets, Sequences

CONSTANTS
    StepIds,        \* identifiers a proposal may carry
    TurnIds,        \* identifiers of conversation turns
    FindingIds,     \* identifiers a finding may carry
    Tools,          \* tool names
    EvidenceIds,    \* evidence sources
    Destinations,   \* processing destinations, see Covers
    Briefs,         \* case briefs an investigator may save
    Plan,           \* the proposal that each step identifier carries
    Outcomes,       \* tool outcomes a host may report
    MaxReviews,     \* bound: reviews of findings recorded by one ledger
    ANY,            \* an unrestricted field of a destination
    None            \* Option::None, and an identifier not in use

StepStates == {"PendingApproval", "Approved", "Running", "Checkpoint",
               "Rejected", "Interrupted"}
HumanDecision == {"Approve", "Reject"}
ToolStatus == {"Success", "Partial", "Failed", "Unknown"}
FindingKind == {"Observation", "Interpretation", "Contradiction",
                "NegativeResult", "Limitation"}
ReviewStatus == {"Provisional", "Accepted", "Rejected", "NeedsCorroboration"}

\* The text fields of a brief reduce to whether the objective is nonblank.
CaseBrief == [objective : BOOLEAN, evidence : SUBSET EvidenceIds,
              destinations : SUBSET Destinations, external : BOOLEAN]

\* needs is a partial function: tool_dependencies has a key only for a tool
\* that declares prerequisites.  selectors is the set of tools with source
\* selectors, external whether the capability gap names an external tool.
StepProposal == [evidence : SUBSET EvidenceIds, tools : SUBSET Tools,
                 calls : Nat, retries : Nat,
                 needs : UNION {[D -> SUBSET Tools] : D \in SUBSET Tools},
                 selectors : SUBSET Tools,
                 recommended : BOOLEAN, external : BOOLEAN]

ToolOutcome == [status : ToolStatus, error : BOOLEAN, complete : BOOLEAN,
                truncated : BOOLEAN]

ASSUME IdentifiersAssumption ==
    /\ StepIds \cap FindingIds = {}
    /\ None \notin TurnIds
    /\ IsFiniteSet(StepIds)
ASSUME InputsAssumption ==
    /\ Briefs \subseteq CaseBrief
    /\ None \notin Briefs
    /\ Plan \in [StepIds -> StepProposal]
    /\ Outcomes \subseteq ToolOutcome
ASSUME SentinelAssumption ==
    /\ None \notin ToolOutcome
    /\ None \notin Destinations
    /\ MaxReviews \in Nat

VARIABLES
    ledger,     \* state_json of the row
    exported    \* exported_revision = revision

vars == <<ledger, exported>>

(***************************************************************************)
(* Snapshots.                                                               *)
(***************************************************************************)
StepRecord == [state : StepStates \cup {"Absent"}, turn : TurnIds \cup {None}]
ExecutionRecord == [step : StepIds, turn : TurnIds, tool : Tools,
                    evidence : SUBSET EvidenceIds,
                    destination : Destinations \cup {None},
                    outcome : ToolOutcome \cup {None}]
DecisionRecord == [target : StepIds \cup FindingIds,
                   decision : HumanDecision \cup ReviewStatus]
ProviderRecord == [turn : TurnIds, destination : Destinations]
FindingRecord == [step : StepIds, kind : FindingKind, cites : SUBSET Nat,
                  limited : BOOLEAN, review : ReviewStatus]

\* steps and findings map identifiers to records, since identifiers are never
\* reused; an execution's identifier ends in its position in executions.
Snapshot == [brief : CaseBrief \cup {None}, confirmed : BOOLEAN,
             steps : [StepIds -> StepRecord],
             executions : Seq(ExecutionRecord),
             providers : SUBSET ProviderRecord,
             findings : [FindingIds -> FindingRecord \cup {None}],
             decisions : Seq(DecisionRecord)]

StepsIn(s, states) == {id \in StepIds : s.steps[id].state \in states}
RunningSteps(s) == StepsIn(s, {"Running"})

\* The calls of a step, and those of one of its tools, by position.
Prior(s, id) == {i \in DOMAIN s.executions : s.executions[i].step = id}
Calls(s, id, tool) == {i \in Prior(s, id) : s.executions[i].tool = tool}

Usable(outcome) == outcome # None /\ outcome.status \in {"Success", "Partial"}
Spent(outcome) == outcome # None /\ outcome.status \in {"Failed", "Unknown"}
Failures(s, id, tool) == {i \in Calls(s, id, tool) : Spent(s.executions[i].outcome)}
InFlight(s, id, tool) == {i \in Calls(s, id, tool) : s.executions[i].outcome = None}

\* ToolOutcome::validate.
ValidOutcome(o) ==
    /\ o.status = "Success" => ~o.error
    /\ o.complete => ~o.truncated /\ o.status = "Success"

\* A variant that takes the step's state for a tool status.
LostInterrupted == [status |-> "Interrupted", error |-> FALSE, complete |-> FALSE,
                    truncated |-> FALSE]
Lost == [status |-> "Unknown", error |-> FALSE, complete |-> FALSE, truncated |-> FALSE]

\* ensure_destination: a is an allowed destination of the brief, d a requested
\* one.  An empty model or authentication mode and an absent account allow all.
Covers(a, d) == /\ a.service = d.service
                /\ a.model \in {ANY, d.model}
                /\ a.auth \in {ANY, d.auth}
                /\ a.account \in {ANY, d.account}
Allowed(brief, d) == \E a \in brief.destinations : Covers(a, d)

(***************************************************************************)
(* The changes that operations share.                                       *)
(***************************************************************************)
Move(s, ids, state) ==
    [s EXCEPT !.steps = [id \in StepIds |->
        IF id \in ids THEN [s.steps[id] EXCEPT !.state = state] ELSE s.steps[id]]]

\* Unselected proposals and unused approvals become history.  A variant forgets
\* the approvals.
RetirePending(s) == Move(s, StepsIn(s, {"PendingApproval"}), "Interrupted")
Retire(s) == Move(s, StepsIn(s, {"PendingApproval", "Approved"}), "Interrupted")

\* stop_running_steps.
Stop(s) == Move(s, RunningSteps(s), "Interrupted")

\* Every unfinished call among those chosen is closed as unknown.  A variant
\* closes the finished ones too.
CloseFinishedCalls(s, calls) ==
    [s EXCEPT !.executions = [i \in DOMAIN s.executions |->
        IF i \in calls THEN [s.executions[i] EXCEPT !.outcome = Lost] ELSE s.executions[i]]]
CloseCalls(s, calls) ==
    [s EXCEPT !.executions = [i \in DOMAIN s.executions |->
        IF i \in calls /\ s.executions[i].outcome = None
        THEN [s.executions[i] EXCEPT !.outcome = Lost] ELSE s.executions[i]]]

(***************************************************************************)
(* Investigator decisions and proposals.                                    *)
(***************************************************************************)
SetCaseBrief(s, t, brief) ==
    /\ brief.evidence # {}
    /\ RunningSteps(s) = {}
    /\ t = [Retire(s) EXCEPT !.brief = brief, !.confirmed = FALSE]

WellFormed(p, brief) ==
    /\ p.evidence # {} /\ p.evidence \subseteq brief.evidence
    /\ p.tools # {} /\ p.calls > 0
    /\ DOMAIN p.needs \subseteq p.tools
    /\ \A tool \in DOMAIN p.needs : p.needs[tool] \subseteq p.tools \ {tool}

ProposeSteps(s, t, ids) ==
    /\ Cardinality(ids) \in 1..3
    /\ Cardinality({id \in ids : Plan[id].recommended}) = 1
    /\ s.brief # None
    /\ RunningSteps(s) = {}
    /\ \A id \in ids : /\ s.steps[id].state = "Absent"
                       /\ WellFormed(Plan[id], s.brief)
    /\ t = Move(Retire(s), ids, "PendingApproval")

Decide(s, id, decision, state) ==
    [Move(s, {id}, state) EXCEPT
        !.decisions = Append(@, [target |-> id, decision |-> decision])]

Approve(s, id) == [Decide(Retire(s), id, "Approve", "Approved") EXCEPT !.confirmed = TRUE]
Reject(s, id) == Decide(s, id, "Reject", "Rejected")

DecideStep(s, t, id, decision) ==
    /\ s.brief # None /\ s.brief.objective
    /\ RunningSteps(s) = {}
    /\ s.steps[id].state = "PendingApproval"
    /\ \/ /\ decision = "Approve"
          /\ Plan[id].external => s.brief.external
          /\ t = Approve(s, id)
       \/ /\ decision = "Reject"
          /\ t = Reject(s, id)

(***************************************************************************)
(* Execution of an approved step.                                           *)
(***************************************************************************)
\* A turn is used by one step, ever; a variant looks at the running step only.
TurnNotRunning(s, turn) == \A id \in RunningSteps(s) : s.steps[id].turn # turn
TurnIsNew(s, turn) == \A id \in StepIds : s.steps[id].turn # turn

\* A variant lets an interrupted step resume on its earlier approval.
MayResume(s, id) == s.steps[id].state \in {"Approved", "Interrupted"}
MayBegin(s, id) == s.steps[id].state = "Approved"

BeginStep(s, t, ready, id, turn) ==
    /\ ready
    /\ s.confirmed
    /\ RunningSteps(s) = {}
    /\ TurnIsNew(s, turn)
    /\ MayBegin(s, id)
    /\ t = [s EXCEPT !.steps[id] = [state |-> "Running", turn |-> turn]]

Active(s, id, turn) == s.steps[id].state = "Running" /\ s.steps[id].turn = turn

\* A call is the request [tool, evidence, selected, destination]: selected says
\* whether its arguments have the values that the step's selectors allow.
InScope(p, call) ==
    /\ call.tool \in p.selectors => call.selected
    /\ call.evidence # {} /\ call.evidence \subseteq p.evidence

Needs(id, tool) == IF tool \in DOMAIN Plan[id].needs THEN Plan[id].needs[tool] ELSE {}

\* The latest call of every prerequisite tool returned a usable result.  A
\* variant takes any call of it.
NeedsMetOnce(s, id, tool) ==
    \A need \in Needs(id, tool) :
        \E i \in Calls(s, id, need) : Usable(s.executions[i].outcome)
NeedsMet(s, id, tool) ==
    \A need \in Needs(id, tool) :
        \E i \in Calls(s, id, need) :
            /\ Usable(s.executions[i].outcome)
            /\ \A j \in Calls(s, id, need) : j <= i

WithinLimits(s, id, tool) ==
    /\ Cardinality(Prior(s, id)) < Plan[id].calls
    /\ Cardinality(Failures(s, id, tool)) <= Plan[id].retries
    /\ InFlight(s, id, tool) = {}

Reserve(s, id, turn, call) ==
    [s EXCEPT !.executions = Append(@,
        [step |-> id, turn |-> turn, tool |-> call.tool, evidence |-> call.evidence,
         destination |-> call.destination, outcome |-> None])]

\* The caller gets a permit for execution Len(t.executions) when it grew.  A
\* refusal that records nothing, such as an elapsed duration, is no step.
AuthorizeTool(s, t, ready, turn, call) ==
    /\ ready
    /\ \E id \in StepIds :
        /\ Active(s, id, turn)
        /\ call.tool \in Plan[id].tools
        /\ \/ /\ ~InScope(Plan[id], call)
              /\ t = Stop(s)
           \/ /\ InScope(Plan[id], call)
              /\ WithinLimits(s, id, call.tool)
              /\ NeedsMet(s, id, call.tool)
              /\ s.brief # None
              /\ IF call.destination = None \/ Allowed(s.brief, call.destination)
                 THEN t = Reserve(s, id, turn, call)
                 ELSE t = Stop(s)

\* record_provider and its variants; auth and account are what was observed.
RecordProvider(s, t, ready, turn, d, auth, account) ==
    /\ ready
    /\ \E id \in StepIds : Active(s, id, turn)
    /\ s.brief # None
    /\ IF /\ Allowed(s.brief, d)
          /\ d.auth \in {ANY, auth}
          /\ d.account \in {ANY, account}
       THEN t = [s EXCEPT !.providers = @ \cup
                            {[turn |-> turn, destination |-> d]}]
       ELSE t = Stop(s)

\* check_destination records only a violation.
CheckDestination(s, t, ready, d) ==
    /\ ready
    /\ s.brief # None /\ s.confirmed
    /\ ~Allowed(s.brief, d)
    /\ t = Stop(s)

\* big: the output is longer than the step's max_output_bytes.
CompleteTool(s, t, i, outcome, big) ==
    /\ ValidOutcome(outcome)
    /\ i \in DOMAIN s.executions
    /\ s.executions[i].outcome = None
    /\ LET done == [s EXCEPT !.executions[i].outcome = outcome]
       IN  t = IF big THEN Move(done, {s.executions[i].step}, "Checkpoint")
                              ELSE done

\* finish_step with state "Checkpoint", interrupt_step with "Interrupted".
EndStep(s, t, turn, state) ==
    \E id \in StepIds :
        /\ s.steps[id].turn = turn
        /\ s.steps[id].state \in {"Running", "Checkpoint"}
        /\ t = CloseCalls(Move(s, {id}, state),
                   {i \in DOMAIN s.executions : s.executions[i].turn = turn})

(***************************************************************************)
(* Findings.                                                                *)
(***************************************************************************)
\* Location, excerpt and digest of a source must occur in a cited execution of
\* its evidence; the texts themselves are left out.
Observed(s, id, cites, source) ==
    \E i \in cites : /\ i \in Prior(s, id)
                     /\ source \in s.executions[i].evidence

Citable(kind, outcome, limited) ==
    /\ outcome # None
    /\ kind \in {"Observation", "Interpretation", "NegativeResult"} => Usable(outcome)
    /\ kind = "NegativeResult" /\ ~(outcome.complete /\ ~outcome.truncated) => limited

RecordFinding(s, t, f, id, kind, cites, sources, limited) ==
    /\ s.findings[f] = None
    /\ s.steps[id].state # "Absent"
    /\ cites # {} /\ sources # {} /\ sources \subseteq Plan[id].evidence
    /\ \A source \in sources : Observed(s, id, cites, source)
    /\ \A i \in cites : /\ i \in Prior(s, id)
                        /\ Citable(kind, s.executions[i].outcome, limited)
    /\ t = [s EXCEPT !.findings[f] =
            [step |-> id, kind |-> kind, cites |-> cites, limited |-> limited,
             review |-> "Provisional"]]

ReviewFinding(s, t, f, review) ==
    /\ review # "Provisional"
    /\ s.findings[f] # None
    /\ t = [s EXCEPT !.findings[f].review = review,
            !.decisions = Append(@, [target |-> f, decision |-> review])]

(***************************************************************************)
(* Opening a store again, and repairing the exported files.                 *)
(***************************************************************************)
Live(s) == StepsIn(s, {"Approved", "Running"})

\* open closes every unfinished call in the snapshot it loaded, but records
\* that only when it interrupts a step.  With no step to interrupt it writes
\* at most the files, see InvestigationStore for what they then say.
Reopen(s, t) ==
    /\ Live(s) # {}
    /\ t = CloseCalls(Move(s, Live(s), "Interrupted"), DOMAIN s.executions)

\* repair_exports, and open when the files are behind: only exported changes.
RepairExports(s, t) == t = s

(***************************************************************************)
(* The specification.                                                       *)
(***************************************************************************)
\* The row that the first open inserts.
Empty ==
    [brief |-> None, confirmed |-> FALSE,
     steps |-> [id \in StepIds |-> [state |-> "Absent", turn |-> None]],
     executions |-> <<>>, providers |-> {},
     findings |-> [f \in FindingIds |-> None],
     decisions |-> <<>>]

ToolCall == [tool : Tools, evidence : SUBSET EvidenceIds, selected : BOOLEAN,
             destination : Destinations \cup {None}]

Reviews(s) == {i \in DOMAIN s.decisions : s.decisions[i].target \in FindingIds}

InvestigatorStep(s, t) ==
    \/ \E brief \in Briefs : SetCaseBrief(s, t, brief)
    \/ \E ids \in SUBSET StepIds : ProposeSteps(s, t, ids)
    \/ \E id \in StepIds, d \in HumanDecision : DecideStep(s, t, id, d)
    \/ /\ Cardinality(Reviews(s)) < MaxReviews
       /\ \E f \in FindingIds, review \in ReviewStatus : ReviewFinding(s, t, f, review)

ExecutionStep(s, t, ready) ==
    \/ \E id \in StepIds, turn \in TurnIds : BeginStep(s, t, ready, id, turn)
    \/ \E turn \in TurnIds, call \in ToolCall : AuthorizeTool(s, t, ready, turn, call)
    \/ \E turn \in TurnIds, d \in Destinations :
           \E auth \in {d.auth, ANY}, account \in {d.account, ANY} :
               RecordProvider(s, t, ready, turn, d, auth, account)
    \/ \E d \in Destinations : CheckDestination(s, t, ready, d)
    \/ \E i \in DOMAIN s.executions, o \in Outcomes, big \in BOOLEAN :
           CompleteTool(s, t, i, o, big)
    \/ \E turn \in TurnIds, state \in {"Checkpoint", "Interrupted"} :
           EndStep(s, t, turn, state)

FindingStep(s, t) ==
    \E f \in FindingIds, id \in StepIds, kind \in FindingKind, limited \in BOOLEAN :
        \E cites \in SUBSET Prior(s, id), sources \in SUBSET Plan[id].evidence :
            RecordFinding(s, t, f, id, kind, cites, sources, limited)

RecoveryStep(s, t) ==
    \/ Reopen(s, t)
    \/ RepairExports(s, t)

Transition(s, t, ready) ==
    \/ InvestigatorStep(s, t)
    \/ ExecutionStep(s, t, ready)
    \/ FindingStep(s, t)
    \/ RecoveryStep(s, t)

\* The export that ends every operation may fail.
Init == ledger = Empty /\ exported \in BOOLEAN
Next == Transition(ledger, ledger', exported) /\ exported' \in BOOLEAN
Spec == Init /\ [][Next]_vars

-----------------------------------------------------------------------------
(***************************************************************************)
(* Invariants.                                                              *)
(***************************************************************************)
\* The ledger always is a well-typed snapshot.
TypeOK == ledger \in Snapshot /\ exported \in BOOLEAN

\* The investigator's authority is never split: at most one step is approved
\* or running, and while there is one, its brief is confirmed and no other
\* proposal waits that a second decision could approve beside it
\* (propose_steps, decide_step, set_case_brief and begin_step together).
OneLiveStep ==
    \A id \in Live(ledger) :
        /\ Live(ledger) = {id}
        /\ ledger.brief # None /\ ledger.confirmed
        /\ StepsIn(ledger, {"PendingApproval"}) = {}

Decided(s, id, decision) ==
    \E i \in DOMAIN s.decisions : s.decisions[i] = [target |-> id, decision |-> decision]

\* Nothing runs, and nothing has ever run, on the model's authority: a step
\* with a turn or an approval has its Approve in the decision log, and only a
\* step that was refused is Rejected.
HumanGranted ==
    \A id \in StepIds :
        /\ \/ ledger.steps[id].turn # None
           \/ ledger.steps[id].state \in {"Approved", "Running", "Checkpoint"}
           => Decided(ledger, id, "Approve")
        /\ ledger.steps[id].state = "Rejected" => Decided(ledger, id, "Reject")

\* "Only a pending step can receive a decision": a proposal is decided at most
\* once, whatever is proposed, interrupted or reopened in between, and a
\* decided one never waits for another decision.
DecidedOnce ==
    /\ \A i, j \in DOMAIN ledger.decisions :
        /\ ledger.decisions[i].target = ledger.decisions[j].target
        /\ ledger.decisions[i].target \in StepIds
        => i = j
    /\ \A i \in DOMAIN ledger.decisions :
        ledger.decisions[i].target \notin StepsIn(ledger, {"Absent", "PendingApproval"})

\* "An approved step can begin once, on one turn ID": no two steps share a
\* turn, a step that has begun keeps one, and every execution record belongs to
\* the turn its step began on, even when it completes after the step stopped.
TurnBinding ==
    /\ \A id, other \in StepIds :
        ledger.steps[id].turn = ledger.steps[other].turn /\ id # other
        => ledger.steps[id].turn = None
    /\ \A id \in StepIds :
        /\ ledger.steps[id].state \in {"Running", "Checkpoint"} => ledger.steps[id].turn # None
        /\ ledger.steps[id].state \in {"Absent", "PendingApproval", "Approved", "Rejected"}
           => ledger.steps[id].turn = None
    /\ \A i \in DOMAIN ledger.executions :
        /\ ledger.executions[i].turn # None
        /\ ledger.steps[ledger.executions[i].step].turn = ledger.executions[i].turn

\* The approved bounds hold over the whole life of a step, across stops,
\* late completions and reopening: its calls, the failures of each tool, and
\* one unfinished call per tool (authorize_tool).
WithinBudget ==
    \A id \in StepIds :
        /\ Cardinality(Prior(ledger, id)) <= Plan[id].calls
        /\ \A tool \in Tools :
            /\ Cardinality(Failures(ledger, id, tool)) <= Plan[id].retries + 1
            /\ \A i, j \in InFlight(ledger, id, tool) : i = j

\* Every execution is one the approved proposal permits, and its prerequisites
\* were met by the latest earlier call of each tool it needs; a later failure
\* of that tool does not rewrite the record it relied on.
DependenciesObserved ==
    \A k \in DOMAIN ledger.executions :
        LET e == ledger.executions[k]
            p == Plan[e.step]
        IN  /\ e.tool \in p.tools
            /\ e.evidence # {} /\ e.evidence \subseteq p.evidence
            /\ \A need \in Needs(e.step, e.tool) :
                \E i \in Calls(ledger, e.step, need) :
                    /\ i < k /\ Usable(ledger.executions[i].outcome)
                    /\ \A j \in Calls(ledger, e.step, need) : j < k => j <= i

\* What runs is what the approved proposal allows: its bounds and its order.
PlanIsKept == WithinBudget /\ DependenciesObserved

\* A recorded finding stays grounded: each execution it cites belongs to its
\* own step, is finished, and still supports a finding of its kind.  A finding
\* is other than provisional only by a recorded investigator review.
FindingsGrounded ==
    \A f \in FindingIds : ledger.findings[f] # None =>
        LET finding == ledger.findings[f]
        IN  /\ finding.cites # {}
            /\ \A i \in finding.cites :
                /\ i \in Prior(ledger, finding.step)
                /\ Citable(finding.kind, ledger.executions[i].outcome, finding.limited)
            /\ finding.review # "Provisional" => Decided(ledger, f, finding.review)

\* The four invariants about authority, inductive together with TypeOK.
Authority == OneLiveStep /\ HumanGranted /\ DecidedOnce /\ TurnBinding

-----------------------------------------------------------------------------
(***************************************************************************)
(* Action properties.                                                       *)
(***************************************************************************)
\* "Execution outcome is immutable": records are only appended, and a recorded
\* outcome, Unknown included, is never replaced by a late completion.
OutcomesImmutable ==
    [][/\ Len(ledger.executions) <= Len(ledger'.executions)
       /\ \A i \in DOMAIN ledger.executions :
            ledger.executions[i].outcome # None
            => ledger'.executions[i] = ledger.executions[i]]_vars

\* "Prior approval cannot silently resume execution": a step that was stopped,
\* rejected or ended is never pending, approved or running again.
RetiredForGood ==
    [][\A id \in StepIds :
        ledger.steps[id].state \in {"Checkpoint", "Rejected", "Interrupted"}
        => ledger'.steps[id].state \in {"Checkpoint", "Rejected", "Interrupted"}]_vars

\* The case brief under which a step was approved stays in force, confirmed,
\* until that step ends: no sequence of saves, proposals and reopenings leaves
\* an approval standing under another brief.
ScopeFrozen ==
    [][\A id \in StepIds :
        id \in Live(ledger) /\ id \in Live(ledger')
        => ledger'.brief = ledger.brief /\ ledger'.confirmed]_vars
=============================================================================
