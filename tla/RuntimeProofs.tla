---------------------------- MODULE RuntimeProofs ----------------------------
(***************************************************************************)
(* Theorems about Runtime, for any plan, tools, service, number of faults   *)
(* and of actions in a response: the runtime takes only steps of the ledger, *)
(* a tool runs only on record, an answer is saved, and a call that was       *)
(* permitted is closed when its turn ends.                                  *)
(*                                                                          *)
(* The argument: the step and the turn of a run stay bound to each other    *)
(* from begin_step on (Holds), whoever else acts; the last permitted call   *)
(* is theirs, and it is closed or its step still runs (PermitOf); between   *)
(* the permit and the call nothing moves (OnRecord).                        *)
(***************************************************************************)
EXTENDS Runtime, SequenceTheorems, TLAPS

Proven == INSTANCE InvestigationProofs

(***************************************************************************)
(* The ledger of the model and the one the lemmas are about are the same.   *)
(***************************************************************************)
\* The constants satisfy what the lemmas of InvestigationProofs assume.
LEMMA ProvenAssumptions ==
  /\ StepIds \cap FindingIds = {} /\ None \notin TurnIds /\ Proven!IsFiniteSet(StepIds)
  /\ Briefs \subseteq Proven!CaseBrief /\ None \notin Briefs
  /\ Plan \in [StepIds -> Proven!StepProposal]
  /\ Outcomes \subseteq Proven!ToolOutcome
  /\ None \notin Proven!ToolOutcome /\ None \notin Destinations /\ MaxReviews \in Nat
  BY LedgerAssumption
     DEF IsFiniteSet, Proven!IsFiniteSet, Ledger!CaseBrief, Proven!CaseBrief,
         Ledger!StepProposal, Proven!StepProposal, Ledger!ToolOutcome, Proven!ToolOutcome,
         Ledger!ToolStatus, Proven!ToolStatus

\* Types, operations and invariants of the two instances expand to the same.
LEMMA SameLedger ==
  /\ Ledger!Snapshot = Proven!Snapshot
  /\ \A s, t, ready : Ledger!Transition(s, t, ready) <=> Proven!Transition(s, t, ready)
  /\ \A s, calls : Ledger!CloseCalls(s, calls) = Proven!CloseCalls(s, calls)
  /\ \A s, ids, state : Ledger!Move(s, ids, state) = Proven!Move(s, ids, state)
  /\ \A s, t, ids : Ledger!ProposeSteps(s, t, ids) <=> Proven!ProposeSteps(s, t, ids)
  /\ Ledger!Init <=> Proven!Init
  BY DEF
    Ledger!StepStates, Proven!StepStates, Ledger!HumanDecision,
    Proven!HumanDecision, Ledger!ToolStatus, Proven!ToolStatus, Ledger!FindingKind,
    Proven!FindingKind, Ledger!ReviewStatus, Proven!ReviewStatus, Ledger!CaseBrief,
    Proven!CaseBrief, Ledger!StepProposal, Proven!StepProposal, Ledger!ToolOutcome,
    Proven!ToolOutcome, Ledger!StepRecord, Proven!StepRecord,
    Ledger!ExecutionRecord, Proven!ExecutionRecord, Ledger!DecisionRecord,
    Proven!DecisionRecord, Ledger!ProviderRecord, Proven!ProviderRecord,
    Ledger!FindingRecord, Proven!FindingRecord, Ledger!Snapshot, Proven!Snapshot,
    Ledger!StepsIn, Proven!StepsIn, Ledger!RunningSteps, Proven!RunningSteps,
    Ledger!Prior, Proven!Prior, Ledger!Calls, Proven!Calls, Ledger!Usable,
    Proven!Usable, Ledger!Spent, Proven!Spent, Ledger!Failures, Proven!Failures,
    Ledger!InFlight, Proven!InFlight, Ledger!ValidOutcome, Proven!ValidOutcome,
    Ledger!Lost, Proven!Lost, Ledger!Covers, Proven!Covers, Ledger!Allowed,
    Proven!Allowed, Ledger!Move, Proven!Move, Ledger!Retire, Proven!Retire,
    Ledger!Stop, Proven!Stop, Ledger!CloseCalls, Proven!CloseCalls,
    Ledger!SetCaseBrief, Proven!SetCaseBrief, Ledger!WellFormed, Proven!WellFormed,
    Ledger!ProposeSteps, Proven!ProposeSteps, Ledger!Decide, Proven!Decide,
    Ledger!Approve, Proven!Approve, Ledger!Reject, Proven!Reject, Ledger!DecideStep,
    Proven!DecideStep, Ledger!TurnIsNew, Proven!TurnIsNew, Ledger!MayBegin,
    Proven!MayBegin, Ledger!BeginStep, Proven!BeginStep, Ledger!Active,
    Proven!Active, Ledger!InScope, Proven!InScope, Ledger!Needs, Proven!Needs,
    Ledger!NeedsMet, Proven!NeedsMet, Ledger!WithinLimits, Proven!WithinLimits,
    Ledger!Reserve, Proven!Reserve, Ledger!AuthorizeTool, Proven!AuthorizeTool,
    Ledger!RecordProvider, Proven!RecordProvider, Ledger!CheckDestination,
    Proven!CheckDestination, Ledger!CompleteTool, Proven!CompleteTool,
    Ledger!EndStep, Proven!EndStep, Ledger!Observed, Proven!Observed,
    Ledger!Citable, Proven!Citable, Ledger!RecordFinding, Proven!RecordFinding,
    Ledger!ReviewFinding, Proven!ReviewFinding, Ledger!Live, Proven!Live,
    Ledger!Reopen, Proven!Reopen, Ledger!RepairExports, Proven!RepairExports,
    Ledger!Empty, Proven!Empty, Ledger!ToolCall, Proven!ToolCall, Ledger!Reviews,
    Proven!Reviews, Ledger!InvestigatorStep, Proven!InvestigatorStep,
    Ledger!ExecutionStep, Proven!ExecutionStep, Ledger!FindingStep,
    Proven!FindingStep, Ledger!RecoveryStep, Proven!RecoveryStep, Ledger!Transition,
    Proven!Transition, Ledger!Init, Proven!Init, Ledger!Next, Proven!Next,
    Ledger!vars, Proven!vars, Ledger!Cardinality, Proven!Cardinality,
    Ledger!IsFiniteSet, Proven!IsFiniteSet

\* The invariants of the two instances, before and after a step.
LEMMA SameInvariants ==
  /\ Ledger!Authority <=> Proven!Authority
  /\ Ledger!Authority' <=> Proven!Authority'
  BY DEF Ledger!Authority, Proven!Authority, Ledger!OneLiveStep, Proven!OneLiveStep,
         Ledger!HumanGranted, Proven!HumanGranted, Ledger!DecidedOnce, Proven!DecidedOnce,
         Ledger!TurnBinding, Proven!TurnBinding, Ledger!Decided, Proven!Decided,
         Ledger!Live, Proven!Live, Ledger!StepsIn, Proven!StepsIn

(***************************************************************************)
(* What the proofs below need of the ledger.                                *)
(***************************************************************************)
\* The first row is a well-typed ledger.
LEMMA EmptyRow ==
  ASSUME ledger = Ledger!Empty, exported = TRUE
  PROVE  Ledger!TypeOK /\ Ledger!Authority
<1>1. Ledger!Init
  BY DEF Ledger!Init
<1>2. Proven!TypeOK /\ Proven!Authority
  BY <1>1, SameLedger, ProvenAssumptions, Proven!InitAuthority
<1>3. QED
  BY <1>2, SameLedger, SameInvariants DEF Proven!TypeOK, Ledger!TypeOK

\* Execution i of a snapshot is there in a later one, and is closed for good.
CallStays(s, t, i) ==
  /\ i \in DOMAIN t.executions
  /\ t.executions[i].step = s.executions[i].step
  /\ t.executions[i].turn = s.executions[i].turn
  /\ s.executions[i].outcome # None => t.executions[i].outcome # None

Onwards(s, t) ==
  /\ \A i \in DOMAIN s.executions : CallStays(s, t, i)
  /\ \A id \in StepIds : s.steps[id].turn # None => t.steps[id].turn = s.steps[id].turn

\* Whatever the ledger does, it stays well typed and keeps its authority, its
\* executions and the turns of its steps.
LEMMA LedgerStep ==
  ASSUME Ledger!TypeOK, Ledger!Authority,
         Ledger!Transition(ledger, ledger', exported), exported' \in BOOLEAN
  PROVE  Ledger!TypeOK' /\ Ledger!Authority' /\ Onwards(ledger, ledger')
<1>1. Proven!TypeOK /\ Proven!Authority /\ Proven!Transition(ledger, ledger', exported)
  BY SameLedger, SameInvariants DEF Proven!TypeOK, Ledger!TypeOK
<1>2. Proven!TypeOK' /\ Proven!Authority'
  <2>1. [Proven!Next]_(Proven!vars)
    BY <1>1 DEF Proven!Next
  <2>2. QED
    BY <1>1, <2>1, ProvenAssumptions, Proven!NextAuthority
<1>3. Ledger!TypeOK' /\ Ledger!Authority'
  <2>1. (ledger \in Proven!Snapshot)'
    BY <1>2 DEF Proven!TypeOK
  <2>2. (Ledger!Snapshot)' = (Proven!Snapshot)'
    BY SameLedger
  <2>3. QED
    BY <1>2, <2>1, <2>2, SameInvariants DEF Ledger!TypeOK
<1>4. ASSUME NEW i \in DOMAIN ledger.executions PROVE CallStays(ledger, ledger', i)
  <2>1. /\ ledger.executions \in Seq(Proven!ExecutionRecord)
        /\ ledger'.executions \in Seq(Proven!ExecutionRecord)'
    BY <1>1, <1>2 DEF Proven!TypeOK, Proven!Snapshot
  <2>2. Proven!Extended(ledger, ledger')
    BY <1>1, ProvenAssumptions, Proven!StepExtends DEF Proven!TypeOK
  <2>3. /\ Proven!Continued(ledger.executions[i], ledger'.executions[i])
        /\ Len(ledger.executions) <= Len(ledger'.executions)
    BY <2>2 DEF Proven!Extended
  <2>4. i \in DOMAIN ledger'.executions
    BY <2>1, <2>3
  <2>5. QED
    BY <2>3, <2>4 DEF CallStays, Proven!Continued
<1>5. ASSUME NEW id \in StepIds, ledger.steps[id].turn # None
      PROVE  ledger'.steps[id].turn = ledger.steps[id].turn
  <2>1. Proven!Bound(ledger)
    BY <1>1, ProvenAssumptions, Proven!AuthorityBound
  <2>2. ledger.steps[id].state # "Approved"
    BY <1>5 DEF Ledger!Authority, Ledger!TurnBinding
  <2>3. QED
    BY <1>1, <1>5, <2>1, <2>2, ProvenAssumptions, Proven!TurnsStay DEF Proven!TypeOK
<1>6. QED
  BY <1>3, <1>4, <1>5 DEF Onwards

\* Nothing done is also a step of that kind.
LEMMA StillStep ==
  ASSUME Ledger!TypeOK, Ledger!Authority, UNCHANGED ledger, exported' \in BOOLEAN
  PROVE  Ledger!TypeOK' /\ Ledger!Authority' /\ Onwards(ledger, ledger')
<1>1. Ledger!Transition(ledger, ledger', exported)
  BY DEF Ledger!Transition, Ledger!RecoveryStep, Ledger!RepairExports
<1>2. QED
  BY <1>1, LedgerStep

\* Two steps never have the same turn.
LEMMA TurnIsUnique ==
  ASSUME Ledger!Authority, NEW id \in StepIds, NEW other \in StepIds,
         ledger.steps[id].turn = ledger.steps[other].turn, ledger.steps[id].turn # None
  PROVE  id = other
  BY DEF Ledger!Authority, Ledger!TurnBinding

\* An unknown outcome is one.
LEMMA LostIsAnOutcome == Ledger!Lost # None
<1>1. Ledger!Lost \in Ledger!ToolOutcome
  BY DEF Ledger!Lost, Ledger!ToolOutcome, Ledger!ToolStatus
<1>2. QED
  BY <1>1, LedgerAssumption

\* What moving steps and closing calls leave, and what they change.
LEMMA MovedAndClosed ==
  ASSUME NEW s \in Ledger!Snapshot, NEW ids, NEW calls,
         NEW state \in {"Checkpoint", "Interrupted"}
  PROVE  LET t == Ledger!CloseCalls(Ledger!Move(s, ids, state), calls)
         IN  /\ t.steps = Ledger!Move(s, ids, state).steps
             /\ DOMAIN t.executions = DOMAIN s.executions
             /\ \A i \in DOMAIN s.executions \cap calls : t.executions[i].outcome # None
             /\ \A id \in ids \cap StepIds : t.steps[id].state = state
<1> DEFINE m == Proven!Move(s, ids, state)
           c == Proven!CloseCalls(m, calls)
<1>1. state \in Proven!StepStates
  BY DEF Proven!StepStates
<1>2. m \in Proven!Snapshot /\ m.executions = s.executions
  BY <1>1, SameLedger, ProvenAssumptions, Proven!MoveFrame
<1>3. \A id \in StepIds \cap ids : m.steps[id].state = state
  BY <1>1, SameLedger, ProvenAssumptions, Proven!MoveSteps
<1>4. /\ Ledger!Move(s, ids, state) = m
      /\ Ledger!CloseCalls(Ledger!Move(s, ids, state), calls) = c
  BY SameLedger
<1> HIDE DEF m
<1>5. /\ c.steps = m.steps /\ DOMAIN c.executions = DOMAIN m.executions
      /\ \A i \in DOMAIN m.executions : c.executions[i] =
            IF i \in calls /\ m.executions[i].outcome = None
            THEN [m.executions[i] EXCEPT !.outcome = Proven!Lost] ELSE m.executions[i]
  BY <1>2, ProvenAssumptions, Proven!CloseCallsEffect
<1>6. Proven!Lost # None
  BY LostIsAnOutcome DEF Ledger!Lost, Proven!Lost
<1>7. \A i \in DOMAIN m.executions : m.executions[i] \in Proven!ExecutionRecord
  BY <1>2, ProvenAssumptions, Proven!ExecutionsType
<1> HIDE DEF c
<1>8. ASSUME NEW i \in DOMAIN s.executions \cap calls
      PROVE  c.executions[i].outcome # None
  BY <1>2, <1>5, <1>6, <1>7 DEF Proven!ExecutionRecord
<1>9. QED
  BY <1>2, <1>3, <1>4, <1>5, <1>8

\* finish_step and interrupt_step end the step of the turn and close its calls.
LEMMA EndStepEffect ==
  ASSUME Ledger!TypeOK, Ledger!Authority, NEW turn \in TurnIds, NEW step \in StepIds,
         ledger.steps[step].turn = turn, NEW state \in {"Checkpoint", "Interrupted"},
         Ledger!EndStep(ledger, ledger', turn, state)
  PROVE  /\ ledger'.steps[step].state = state
         /\ \A i \in DOMAIN ledger.executions :
              ledger.executions[i].turn = turn => ledger'.executions[i].outcome # None
<1> DEFINE calls == {i \in DOMAIN ledger.executions : ledger.executions[i].turn = turn}
<1>1. PICK id \in StepIds :
        /\ ledger.steps[id].turn = turn
        /\ ledger' = Ledger!CloseCalls(Ledger!Move(ledger, {id}, state), calls)
  BY DEF Ledger!EndStep
<1>2. id = step
  BY <1>1, TurnIsUnique, LedgerAssumption
<1> HIDE DEF calls
<1>3. /\ \A i \in DOMAIN ledger.executions \cap calls : ledger'.executions[i].outcome # None
      /\ ledger'.steps[step].state = state
  BY <1>1, <1>2, MovedAndClosed DEF Ledger!TypeOK
<1>4. QED
  BY <1>3 DEF calls

\* open closes every call.
LEMMA ReopenEffect ==
  ASSUME Ledger!TypeOK, Ledger!Reopen(ledger, ledger')
  PROVE  \A i \in DOMAIN ledger.executions : ledger'.executions[i].outcome # None
  BY MovedAndClosed DEF Ledger!Reopen, Ledger!TypeOK

(***************************************************************************)
(* The invariant.                                                           *)
(***************************************************************************)
InTurn(r) == r.at \notin {"idle", "objective"}

\* The turn holds the step it began, whatever has become of that step since.
Holds ==
  InTurn(run) => /\ run.step \in StepIds /\ run.turn \in TurnIds
                 /\ ledger.steps[run.step].turn = run.turn

\* An action of the response is being worked on.
Counted ==
  run.at \in {"permitted", "calling", "finish", "propose", "amend"} => run.actions > 0

\* Where the last permitted call may still be open.
Open == {"permitted", "calling", "failed", "dropped"}

\* The last permitted call is one of this turn; it is closed, or the step runs.
PermitOf ==
  run.permit # 0 =>
    /\ InTurn(run) /\ run.permit \in DOMAIN ledger.executions
    /\ ledger.executions[run.permit].step = run.step
    /\ ledger.executions[run.permit].turn = run.turn
    /\ \/ ledger.executions[run.permit].outcome # None
       \/ Running /\ run.at \in Open

\* The call about to run is the last record, in the files, and one whose service
\* the brief allows; while it runs, that service is recorded.
OnRecord ==
  run.at \in {"permitted", "calling"} =>
    /\ exported /\ Running /\ run.permit # 0
    /\ run.permit = Len(ledger.executions)
    /\ LET call == ledger.executions[run.permit]
       IN  /\ call.outcome = None
           /\ call.tool \in Tools /\ call.destination = Uses[call.tool]
           /\ call.destination # None =>
                /\ ledger.brief # None /\ Ledger!Allowed(ledger.brief, call.destination)
                /\ run.at = "calling" =>
                     [turn |-> run.turn, destination |-> call.destination]
                       \in ledger.providers

\* What is about to be answered is saved.
Answering ==
  run.at \in {"propose", "answered"} =>
    exported /\ ledger.steps[run.step].state = "Checkpoint"

RunInv ==
  /\ TypeOK /\ Ledger!Authority
  /\ Holds /\ Counted /\ PermitOf /\ OnRecord /\ Answering

(***************************************************************************)
(* Steps of the ledger.                                                     *)
(***************************************************************************)
\* What an operation leaves of exported and of the bound on faults.
LEMMA StoredType ==
  ASSUME TypeOK, Saved \/ Unsaved \/ Unchanged \/ Fault
  PROVE  exported' \in BOOLEAN /\ faults' \in 0..MaxFaults
<1>1. exported \in BOOLEAN /\ faults \in 0..MaxFaults /\ MaxFaults \in Nat
  BY RuntimeAssumption DEF TypeOK
<1>2. CASE Saved
  BY <1>1, <1>2 DEF Saved
<1>3. CASE Unsaved
  <2>1. faults' = faults + 1 /\ faults < MaxFaults /\ exported' = FALSE
    BY <1>3 DEF Unsaved
  <2>2. faults' \in 0..MaxFaults
    BY <1>1, <2>1, SMT
  <2>3. exported' \in BOOLEAN
    BY <2>1
  <2>4. QED
    BY <2>2, <2>3
<1>4. CASE Unchanged
  BY <1>1, <1>4 DEF Unchanged
<1>5. CASE Fault
  BY <1>1, <1>5 DEF Fault
<1>6. QED
  BY <1>2, <1>3, <1>4, <1>5

LEMMA StillTransition ==
  ASSUME UNCHANGED ledger
  PROVE  Ledger!Transition(ledger, ledger', exported)
  BY DEF Ledger!Transition, Ledger!RecoveryStep, Ledger!RepairExports

LEMMA RecordUseTransition ==
  ASSUME NEW d \in Destinations, run.turn \in TurnIds, RecordUse(d)
  PROVE  Ledger!Transition(ledger, ledger', exported)
  BY DEF RecordUse, Ledger!Transition, Ledger!ExecutionStep

LEMMA EndStepTransition ==
  ASSUME run.turn \in TurnIds, NEW state \in {"Checkpoint", "Interrupted"},
         Ledger!EndStep(ledger, ledger', run.turn, state)
  PROVE  Ledger!Transition(ledger, ledger', exported)
  BY DEF Ledger!Transition, Ledger!ExecutionStep

LEMMA ProposeTransition ==
  ASSUME NEW ids \in SUBSET StepIds, Ledger!ProposeSteps(ledger, ledger', ids)
  PROVE  Ledger!Transition(ledger, ledger', exported)
  BY DEF Ledger!Transition, Ledger!InvestigatorStep

LEMMA AuthorizeTransition ==
  ASSUME run.turn \in TurnIds, NEW tool \in Tools, NEW selected \in BOOLEAN,
         Ledger!AuthorizeTool(ledger, ledger', exported, run.turn, Request(tool, selected))
  PROVE  Ledger!Transition(ledger, ledger', exported)
<1>1. Request(tool, selected) \in Ledger!ToolCall
  BY RuntimeAssumption DEF Request, Ledger!ToolCall
<1>2. QED
  BY <1>1 DEF Ledger!Transition, Ledger!ExecutionStep

LEMMA FindingTransition ==
  ASSUME run.step \in StepIds, NEW f \in FindingIds, NEW kind \in Ledger!FindingKind,
         NEW limited \in BOOLEAN, NEW cites \in SUBSET Ledger!Prior(ledger, run.step),
         Ledger!RecordFinding(ledger, ledger', f, run.step, kind, cites, EvidenceIds, limited)
  PROVE  Ledger!Transition(ledger, ledger', exported)
<1>1. EvidenceIds \in SUBSET Plan[run.step].evidence
  BY DEF Ledger!RecordFinding
<1>2. QED
  BY <1>1 DEF Ledger!Transition, Ledger!FindingStep

(***************************************************************************)
(* Steps of the run.                                                        *)
(***************************************************************************)
SameTurn == run'.step = run.step /\ run'.turn = run.turn /\ run'.permit = run.permit

LEMMA GotoEffect ==
  ASSUME TypeOK, NEW point \in Points, Goto(point)
  PROVE  run' \in Run /\ run'.at = point /\ SameTurn /\ run'.actions = run.actions
  BY DEF TypeOK, Run, Goto, SameTurn

LEMMA SkipEffect ==
  ASSUME TypeOK, run.actions > 0, run' = Skip(run) \/ Invalid
  PROVE  run' \in Run /\ run'.at = "actions" /\ SameTurn
<1>1. run.actions - 1 \in 0..MaxCalls
  BY RuntimeAssumption DEF TypeOK, Run
<1>2. run \in Run
  BY DEF TypeOK
<1>3. QED
  BY <1>1, <1>2 DEF Run, Skip, Invalid, SameTurn, Points

LEMMA NoProgressEffect ==
  ASSUME TypeOK, run' = NoProgress(run)
  PROVE  run' \in Run /\ run'.at \in {"failed", "round"} /\ SameTurn
<1>1. run \in Run /\ run.stale + 1 \in Nat
  BY DEF TypeOK, Run
<1>2. QED
  BY <1>1 DEF Run, NoProgress, SameTurn, Points

LEMMA IdleType == Idle \in Run
  BY RuntimeAssumption DEF Idle, Run, Points

(***************************************************************************)
(* What every step has to show.                                             *)
(***************************************************************************)
\* The ledger took a step of its own, and the counters stay in their bounds.
Stepped ==
  /\ Ledger!Transition(ledger, ledger', exported)
  /\ exported' \in BOOLEAN /\ faults' \in 0..MaxFaults

\* When a turn ends, its last permitted call is closed or its step still runs.
Settled ==
  \/ ledger'.executions[run.permit].outcome # None
  \/ RunsIn(ledger')

StepHolds ==
  /\ Stepped /\ RunInv'
  /\ run.at # "idle" /\ run'.at = "idle" /\ run.permit # 0 => Settled

\* A step of the ledger keeps what the ledger guarantees.
LEMMA SteppedType ==
  ASSUME RunInv, Stepped, run' \in Run
  PROVE  TypeOK' /\ Ledger!Authority' /\ Onwards(ledger, ledger')
<1>1. Ledger!TypeOK /\ Ledger!Authority
  BY DEF RunInv, TypeOK, Ledger!TypeOK
<1>2. Ledger!TypeOK' /\ Ledger!Authority' /\ Onwards(ledger, ledger')
  BY <1>1, LedgerStep DEF Stepped
<1>3. QED
  BY <1>2 DEF TypeOK, Ledger!TypeOK, Stepped

\* What remains to be said of a turn that goes on: how its last call stands, and
\* what its new point requires.
LEMMA TurnGoesOn ==
  ASSUME RunInv, Stepped, run' \in Run, SameTurn, InTurn(run), InTurn(run'),
         run.permit # 0 => \/ run.at \notin Open
                           \/ ledger'.executions[run.permit].outcome # None
                           \/ Running' /\ run'.at \in Open,
         Counted', OnRecord', Answering'
  PROVE  StepHolds
<1>1. TypeOK' /\ Ledger!Authority' /\ Onwards(ledger, ledger')
  BY SteppedType
<1>2. /\ run.step \in StepIds /\ run.turn \in TurnIds
      /\ ledger.steps[run.step].turn = run.turn /\ run.turn # None
  BY LedgerAssumption DEF RunInv, Holds
<1>3. Holds'
  BY <1>1, <1>2 DEF Holds, Onwards, SameTurn
<1>4. PermitOf'
  <2>1. SUFFICES ASSUME run'.permit # 0 PROVE PermitOf'
    BY DEF PermitOf
  <2>2. /\ run.permit \in DOMAIN ledger.executions
        /\ ledger.executions[run.permit].step = run.step
        /\ ledger.executions[run.permit].turn = run.turn
        /\ run.at \notin Open => ledger.executions[run.permit].outcome # None
    BY <2>1 DEF RunInv, PermitOf, SameTurn
  <2>3. CallStays(ledger, ledger', run.permit)
    BY <1>1, <2>2 DEF Onwards
  <2>4. QED
    BY <2>1, <2>2, <2>3 DEF PermitOf, CallStays, SameTurn
<1>5. run'.at # "idle"
  BY DEF InTurn
<1>6. QED
  BY <1>1, <1>3, <1>4, <1>5 DEF RunInv, StepHolds

\* With the calls of the turn closed, an ordinary point requires nothing more.
LEMMA OrdinaryStep ==
  ASSUME RunInv, Stepped, run' \in Run, SameTurn, InTurn(run), run.at \notin Open,
         run'.at \in {"round", "waiting", "actions", "failed"}
  PROVE  StepHolds
<1>1. Counted' /\ OnRecord' /\ Answering' /\ InTurn(run')
  BY DEF Counted, OnRecord, Answering, InTurn
<1>2. QED
  BY <1>1, TurnGoesOn

\* An error, or a turn that is dropped, leaves the ledger as it is.
LEMMA FailingStep ==
  ASSUME RunInv, Stepped, UNCHANGED ledger, run' \in Run, SameTurn, InTurn(run),
         run'.at \in {"failed", "dropped"}
  PROVE  StepHolds
<1>1. Counted' /\ OnRecord' /\ Answering' /\ InTurn(run') /\ run'.at \in Open
  BY DEF Counted, OnRecord, Answering, InTurn, Open
<1>2. Running' <=> Running
  BY DEF Running, RunsIn, SameTurn
<1>3. run.permit # 0 => \/ run.at \notin Open
                        \/ ledger'.executions[run.permit].outcome # None
                        \/ Running' /\ run'.at \in Open
  BY <1>1, <1>2 DEF RunInv, PermitOf
<1>4. QED
  BY <1>1, <1>3, TurnGoesOn

\* A call that may still be open is one of a step that runs.
LEMMA StandingCall ==
  ASSUME RunInv, run.permit # 0, UNCHANGED ledger
  PROVE  Settled
  BY DEF RunInv, PermitOf, Running, RunsIn, Settled

\* Without a turn there is nothing to hold.
LEMMA NoTurnStep ==
  ASSUME RunInv, Stepped, run' \in Run, ~InTurn(run'), run'.permit = 0,
         run.permit # 0 => Settled
  PROVE  StepHolds
<1>1. TypeOK' /\ Ledger!Authority'
  BY SteppedType
<1>2. Holds' /\ Counted' /\ PermitOf' /\ OnRecord' /\ Answering'
  BY DEF Holds, Counted, PermitOf, OnRecord, Answering, InTurn
<1>3. QED
  BY <1>1, <1>2 DEF RunInv, StepHolds

LEMMA IdleStep ==
  ASSUME RunInv, Stepped, run' = Idle, run.permit # 0 => Settled
  PROVE  StepHolds
<1>1. run' \in Run /\ ~InTurn(run') /\ run'.permit = 0
  BY IdleType DEF Idle, InTurn
<1>2. QED
  BY <1>1, NoTurnStep

\* The turn is bound while it lasts.
LEMMA TurnTypes ==
  ASSUME RunInv, InTurn(run)
  PROVE  /\ run.step \in StepIds /\ run.turn \in TurnIds /\ run.turn # None
         /\ ledger.steps[run.step].turn = run.turn
         /\ TypeOK /\ run \in Run
  BY LedgerAssumption DEF RunInv, Holds, TypeOK

(***************************************************************************)
(* Steps between turns.                                                     *)
(***************************************************************************)
LEMMA SaveObjectiveKeeps ==
  ASSUME RunInv, SaveObjective
  PROVE  StepHolds
<1>1. Stepped
  <2>1. Ledger!Transition(ledger, ledger', exported)
    BY DEF SaveObjective, Ledger!Transition, Ledger!InvestigatorStep
  <2>2. QED
    BY <2>1, StoredType DEF SaveObjective, Stepped, RunInv
<1>2. TypeOK /\ run \in Run /\ run.at = "idle" /\ run.permit = 0
  BY DEF SaveObjective, RunInv, PermitOf, InTurn, TypeOK
<1>3. run' \in Run /\ ~InTurn(run') /\ run'.permit = 0
  <2>1. CASE UNCHANGED run
    BY <1>2, <2>1 DEF InTurn
  <2>2. CASE Goto("objective")
    BY <1>2, <2>2, GotoEffect DEF InTurn, Points, SameTurn
  <2>3. QED
    BY <2>1, <2>2 DEF SaveObjective
<1>4. QED
  BY <1>1, <1>2, <1>3, NoTurnStep

LEMMA ProposeInventoryKeeps ==
  ASSUME RunInv, ProposeInventory
  PROVE  StepHolds
<1>1. Ledger!Transition(ledger, ledger', exported)
  <2>1. CASE Unchanged
    BY <2>1, StillTransition DEF Unchanged
  <2>2. CASE \E id \in Inventory : Ledger!ProposeSteps(ledger, ledger', {id})
    <3>1. PICK id \in Inventory : Ledger!ProposeSteps(ledger, ledger', {id})
      BY <2>2
    <3>2. {id} \in SUBSET StepIds
      BY RuntimeAssumption
    <3>3. QED
      BY <3>1, <3>2, ProposeTransition
  <2>3. QED
    BY <2>1, <2>2 DEF ProposeInventory
<1>2. Stepped
  BY <1>1, StoredType DEF ProposeInventory, Stepped, RunInv
<1>3. run.permit = 0
  BY DEF ProposeInventory, RunInv, PermitOf, InTurn
<1>4. QED
  BY <1>2, <1>3, IdleStep DEF ProposeInventory

LEMMA BeginKeeps ==
  ASSUME RunInv, NEW turn \in TurnIds, Begin(turn)
  PROVE  StepHolds
<1>1. PICK id \in StepIds :
        /\ Ledger!BeginStep(ledger, ledger', exported, id, turn)
        /\ \/ Saved /\ run' = [Idle EXCEPT !.at = "round", !.turn = turn, !.step = id]
           \/ Unsaved /\ run' = [Idle EXCEPT !.at = "dropped", !.turn = turn, !.step = id]
  BY DEF Begin, Approved, Ledger!StepsIn
<1>2. Stepped
  <2>1. Ledger!Transition(ledger, ledger', exported)
    BY <1>1 DEF Ledger!Transition, Ledger!ExecutionStep
  <2>2. QED
    BY <1>1, <2>1, StoredType DEF Stepped, RunInv
<1>3. /\ run' \in Run /\ run'.at \in {"round", "dropped"}
      /\ run'.step = id /\ run'.turn = turn /\ run'.permit = 0
  <2>1. PICK point \in {"round", "dropped"} :
          run' = [Idle EXCEPT !.at = point, !.turn = turn, !.step = id]
    BY <1>1
  <2>2. Idle.permit = 0 /\ point \in Points
    BY DEF Idle, Points
  <2>3. QED
    BY <2>1, <2>2, IdleType DEF Run
<1>4. TypeOK' /\ Ledger!Authority'
  BY <1>2, <1>3, SteppedType
<1>5. ledger'.steps[id].turn = turn
  <2>1. /\ ledger \in Ledger!Snapshot /\ ledger.steps \in [StepIds -> Ledger!StepRecord]
        /\ ledger' = [ledger EXCEPT !.steps[id] = [state |-> "Running", turn |-> turn]]
    BY <1>1 DEF Ledger!BeginStep, RunInv, TypeOK, Ledger!Snapshot
  <2>2. ledger'.steps = [ledger.steps EXCEPT ![id] = [state |-> "Running", turn |-> turn]]
    BY <2>1 DEF Ledger!Snapshot
  <2>3. QED
    BY <2>1, <2>2
<1>6. Holds' /\ Counted' /\ PermitOf' /\ OnRecord' /\ Answering'
  BY <1>3, <1>5 DEF Holds, Counted, PermitOf, OnRecord, Answering, InTurn
<1>7. QED
  BY <1>2, <1>3, <1>4, <1>6 DEF RunInv, StepHolds

LEMMA CommandKeeps ==
  ASSUME RunInv, Command
  PROVE  StepHolds
<1>1. Stepped
  <2>1. CASE Ledger!InvestigatorStep(ledger, ledger') /\ (Saved \/ Unsaved)
    BY <2>1, StoredType DEF Ledger!Transition, Stepped, RunInv
  <2>2. CASE exported' = TRUE /\ UNCHANGED <<ledger, faults>>
    BY <2>2, StillTransition DEF Stepped, RunInv, TypeOK
  <2>3. QED
    BY <2>1, <2>2 DEF Command
<1>2. run' \in Run /\ ~InTurn(run') /\ run'.permit = 0 /\ run.permit = 0
  BY DEF Command, RunInv, PermitOf, InTurn, TypeOK
<1>3. QED
  BY <1>1, <1>2, NoTurnStep

LEMMA RestartKeeps ==
  ASSUME RunInv, Restart
  PROVE  StepHolds
<1>1. Ledger!Transition(ledger, ledger', exported)
  BY StillTransition DEF Restart, Ledger!Transition, Ledger!RecoveryStep
<1>2. Stepped
  BY <1>1, StoredType DEF Restart, Stepped, RunInv
<1>3. ASSUME run.permit # 0 PROVE Settled
  <2>1. run.permit \in DOMAIN ledger.executions /\ run.step \in StepIds
    BY <1>3, TurnTypes DEF RunInv, PermitOf
  <2>2. CASE Ledger!Reopen(ledger, ledger')
    BY <2>1, <2>2, ReopenEffect DEF RunInv, TypeOK, Ledger!TypeOK, Settled
  <2>3. CASE UNCHANGED ledger
    BY <1>3, <2>3, StandingCall
  <2>4. QED
    BY <2>2, <2>3 DEF Restart
<1>4. QED
  BY <1>2, <1>3, IdleStep DEF Restart

(***************************************************************************)
(* Steps of the provider's rounds.                                          *)
(***************************************************************************)
LEMMA UnchangedStepped ==
  ASSUME RunInv, Unchanged \/ Fault
  PROVE  Stepped /\ UNCHANGED ledger
  BY StillTransition, StoredType DEF Stepped, RunInv, Unchanged, Fault

LEMMA RecordUseStepped ==
  ASSUME RunInv, InTurn(run), NEW d \in Destinations, RecordUse(d), Saved \/ Unsaved
  PROVE  Stepped
  BY RecordUseTransition, StoredType, TurnTypes DEF Stepped

LEMMA ExhaustedKeeps ==
  ASSUME RunInv, Exhausted
  PROVE  StepHolds
<1>1. TypeOK /\ InTurn(run) /\ Stepped /\ UNCHANGED ledger
  BY UnchangedStepped DEF Exhausted, InTurn, RunInv
<1>2. run' \in Run /\ run'.at = "failed" /\ SameTurn
  BY <1>1, GotoEffect DEF Exhausted, Points
<1>3. QED
  BY <1>1, <1>2, FailingStep

LEMMA BreakKeeps ==
  ASSUME RunInv, Break
  PROVE  StepHolds
<1>1. TypeOK /\ InTurn(run) /\ Stepped /\ UNCHANGED ledger
  BY UnchangedStepped DEF Break, InTurn, RunInv
<1>2. run' \in Run /\ run'.at = "failed" /\ SameTurn
  BY <1>1, GotoEffect DEF Break, Points
<1>3. QED
  BY <1>1, <1>2, FailingStep

LEMMA DropKeeps ==
  ASSUME RunInv, Drop
  PROVE  StepHolds
<1>1. TypeOK /\ InTurn(run) /\ Stepped /\ UNCHANGED ledger
  BY UnchangedStepped DEF Drop, InTurn, RunInv
<1>2. run' \in Run /\ run'.at = "dropped" /\ SameTurn
  BY <1>1, GotoEffect DEF Drop, Points
<1>3. QED
  BY <1>1, <1>2, FailingStep

LEMMA AskKeeps ==
  ASSUME RunInv, Ask
  PROVE  StepHolds
<1>1. TypeOK /\ InTurn(run) /\ run.at \notin Open /\ run \in Run
  BY DEF Ask, InTurn, Open, RunInv, TypeOK
<1>2. Stepped
  BY <1>1, RecordUseStepped, RuntimeAssumption DEF Ask
<1>3. run' \in Run /\ run'.at \in {"waiting", "failed"} /\ SameTurn
  <2>1. CASE Goto("failed")
    BY <1>1, <2>1, GotoEffect DEF Points
  <2>2. CASE run' = [run EXCEPT !.round = @ + 1,
                                !.at = IF RunsIn(ledger') THEN "waiting" ELSE "failed"]
    <3>1. run.round + 1 \in Nat
      BY <1>1 DEF Run
    <3>2. QED
      BY <1>1, <2>2, <3>1 DEF Run, SameTurn, Points
  <2>3. QED
    BY <2>1, <2>2 DEF Ask
<1>4. QED
  BY <1>1, <1>2, <1>3, OrdinaryStep

LEMMA RespondKeeps ==
  ASSUME RunInv, Respond
  PROVE  StepHolds
<1>1. TypeOK /\ InTurn(run) /\ run.at \notin Open /\ run \in Run
  BY DEF Respond, InTurn, Open, RunInv, TypeOK
<1>2. Stepped
  BY <1>1, UnchangedStepped, RecordUseStepped, RuntimeAssumption DEF Respond
<1>3. run' \in Run /\ run'.at \in {"round", "actions", "failed"} /\ SameTurn
  <2>1. CASE Goto("failed")
    BY <1>1, <2>1, GotoEffect DEF Points
  <2>2. CASE run' = NoProgress(run)
    BY <1>1, <2>2, NoProgressEffect
  <2>3. CASE \E n \in 1..MaxCalls :
               run' = [run EXCEPT !.at = "actions", !.actions = n, !.progress = FALSE,
                                  !.invalid = FALSE]
    <3>1. 1..MaxCalls \subseteq 0..MaxCalls
      BY RuntimeAssumption
    <3>2. PICK n \in 0..MaxCalls :
               run' = [run EXCEPT !.at = "actions", !.actions = n, !.progress = FALSE,
                                  !.invalid = FALSE]
      BY <2>3, <3>1
    <3>3. QED
      BY <1>1, <3>2 DEF Run, SameTurn, Points
  <2>4. QED
    BY <2>1, <2>2, <2>3 DEF Respond
<1>4. QED
  BY <1>1, <1>2, <1>3, OrdinaryStep

LEMMA EndRoundKeeps ==
  ASSUME RunInv, EndRound
  PROVE  StepHolds
<1>1. TypeOK /\ InTurn(run) /\ run.at \notin Open /\ run \in Run /\ Stepped
  BY UnchangedStepped DEF EndRound, InTurn, Open, RunInv, TypeOK
<1>2. run' \in Run /\ run'.at \in {"round", "failed"} /\ SameTurn
  <2>1. CASE run' = NoProgress(run)
    BY <1>1, <2>1, NoProgressEffect
  <2>2. CASE run' = [run EXCEPT !.at = "round"]
    BY <1>1, <2>2 DEF Run, SameTurn, Points
  <2>3. QED
    BY <2>1, <2>2 DEF EndRound
<1>3. QED
  BY <1>1, <1>2, OrdinaryStep

(***************************************************************************)
(* Steps of the actions of a response.                                      *)
(***************************************************************************)
LEMMA ActingTypes ==
  ASSUME RunInv, Acting
  PROVE  TypeOK /\ InTurn(run) /\ run.at = "actions" /\ run.at \notin Open /\ run.actions > 0
  BY DEF Acting, InTurn, Open, RunInv

LEMMA CheckUseKeeps ==
  ASSUME RunInv, CheckUse
  PROVE  StepHolds
<1>1. TypeOK /\ InTurn(run) /\ run.at \notin Open
  BY ActingTypes DEF CheckUse
<1>2. Stepped
  <2>1. PICK tool \in Tools :
          /\ Uses[tool] # None
          /\ Ledger!CheckDestination(ledger, ledger', exported, Uses[tool])
    BY DEF CheckUse
  <2>2. Uses[tool] \in Destinations
    BY <2>1, RuntimeAssumption
  <2>3. Ledger!Transition(ledger, ledger', exported)
    BY <2>1, <2>2 DEF Ledger!Transition, Ledger!ExecutionStep
  <2>4. QED
    BY <1>1, <2>3, StoredType DEF CheckUse, Stepped
<1>3. run' \in Run /\ run'.at = "failed" /\ SameTurn
  BY <1>1, GotoEffect DEF CheckUse, Points
<1>4. QED
  BY <1>1, <1>2, <1>3, OrdinaryStep

LEMMA RefuseKeeps ==
  ASSUME RunInv, Refuse
  PROVE  StepHolds
<1>1. TypeOK /\ InTurn(run) /\ run.at \notin Open /\ run.actions > 0
  BY ActingTypes DEF Refuse
<1>2. Stepped
  BY UnchangedStepped DEF Refuse
<1>3. run' \in Run /\ run'.at \in {"actions", "failed"} /\ SameTurn
  <2>1. run' = Skip(run) \/ Goto("failed")
    BY DEF Refuse, Goto
  <2>2. QED
    BY <1>1, <2>1, GotoEffect, SkipEffect DEF Points
<1>4. QED
  BY <1>1, <1>2, <1>3, OrdinaryStep

\* A reservation appends one open record, and only that.
LEMMA ReserveEffect ==
  ASSUME Ledger!TypeOK, NEW id \in StepIds, NEW turn \in TurnIds, NEW call \in Ledger!ToolCall,
         ledger' = Ledger!Reserve(ledger, id, turn, call)
  PROVE  LET n == Len(ledger.executions) + 1
         IN  /\ Len(ledger'.executions) = n /\ n \in DOMAIN ledger'.executions /\ n # 0
             /\ ledger'.executions[n] =
                  [step |-> id, turn |-> turn, tool |-> call.tool, evidence |-> call.evidence,
                   destination |-> call.destination, outcome |-> None]
             /\ ledger'.steps = ledger.steps /\ ledger'.brief = ledger.brief
<1> DEFINE record == [step |-> id, turn |-> turn, tool |-> call.tool,
                      evidence |-> call.evidence, destination |-> call.destination,
                      outcome |-> None]
<1>1. record \in Ledger!ExecutionRecord
  BY DEF Ledger!ExecutionRecord, Ledger!ToolCall
<1>2. /\ ledger \in Ledger!Snapshot
      /\ ledger.executions \in Seq(Ledger!ExecutionRecord) /\ Len(ledger.executions) \in Nat
  BY DEF Ledger!TypeOK, Ledger!Snapshot
<1>3. ledger' = [ledger EXCEPT !.executions = Append(ledger.executions, record)]
  BY DEF Ledger!Reserve
<1> HIDE DEF record
<1>4. /\ ledger'.executions = Append(ledger.executions, record)
      /\ ledger'.steps = ledger.steps /\ ledger'.brief = ledger.brief
  BY <1>2, <1>3 DEF Ledger!Snapshot
<1>5. /\ Len(Append(ledger.executions, record)) = Len(ledger.executions) + 1
      /\ Append(ledger.executions, record)[Len(ledger.executions) + 1] = record
      /\ DOMAIN Append(ledger.executions, record) = 1..Len(ledger.executions) + 1
  BY <1>1, <1>2, AppendProperties
<1>6. QED
  BY <1>2, <1>4, <1>5 DEF record

\* What authorize_tool reserves is a call of the step that runs, to a destination
\* that the brief allows.
LEMMA ReservedEffect ==
  ASSUME RunInv, InTurn(run), NEW tool \in Tools, NEW selected \in BOOLEAN, Reserved,
         Ledger!AuthorizeTool(ledger, ledger', exported, run.turn, Request(tool, selected))
  PROVE  /\ Running
         /\ ledger' = Ledger!Reserve(ledger, run.step, run.turn, Request(tool, selected))
         /\ Uses[tool] # None => ledger.brief # None /\ Ledger!Allowed(ledger.brief, Uses[tool])
<1>1. PICK id \in StepIds :
        /\ Ledger!Active(ledger, id, run.turn)
        /\ \/ ledger' = Ledger!Stop(ledger)
           \/ /\ ledger.brief # None
              /\ Uses[tool] = None \/ Ledger!Allowed(ledger.brief, Uses[tool])
              /\ ledger' = Ledger!Reserve(ledger, id, run.turn, Request(tool, selected))
  BY DEF Ledger!AuthorizeTool, Request
<1>2. id = run.step
  BY <1>1, TurnTypes, TurnIsUnique DEF Ledger!Active, RunInv
<1>3. ledger' # Ledger!Stop(ledger)
  <2>1. ledger \in Ledger!Snapshot /\ Len(ledger.executions) \in Nat
    BY DEF RunInv, TypeOK, Ledger!Snapshot
  <2>2. Ledger!Stop(ledger).executions = ledger.executions
    BY <2>1 DEF Ledger!Stop, Ledger!Move, Ledger!Snapshot
  <2>3. QED
    BY <2>1, <2>2 DEF Reserved
<1>4. QED
  BY <1>1, <1>2, <1>3 DEF Ledger!Active, Running, RunsIn

LEMMA PermitKeeps ==
  ASSUME RunInv, Acting, NEW tool \in Tools, NEW selected \in BOOLEAN, Reserved, Saved, Permit,
         Ledger!AuthorizeTool(ledger, ledger', exported, run.turn, Request(tool, selected))
  PROVE  StepHolds
<1>1. /\ TypeOK /\ InTurn(run) /\ run.at = "actions" /\ run.actions > 0 /\ run \in Run
      /\ run.step \in StepIds /\ run.turn \in TurnIds /\ ledger.steps[run.step].turn = run.turn
      /\ Ledger!TypeOK
  BY ActingTypes, TurnTypes DEF TypeOK, Ledger!TypeOK
<1>2. Stepped
  BY <1>1, AuthorizeTransition, StoredType DEF Stepped
<1>3. /\ Running
      /\ ledger' = Ledger!Reserve(ledger, run.step, run.turn, Request(tool, selected))
      /\ Uses[tool] # None => ledger.brief # None /\ Ledger!Allowed(ledger.brief, Uses[tool])
  BY <1>1, ReservedEffect
<1> DEFINE n == Len(ledger.executions) + 1
<1>4. /\ Len(ledger'.executions) = n /\ n \in DOMAIN ledger'.executions /\ n # 0
      /\ ledger'.executions[n] =
           [step |-> run.step, turn |-> run.turn, tool |-> tool, evidence |-> EvidenceIds,
            destination |-> Uses[tool], outcome |-> None]
      /\ ledger'.steps = ledger.steps /\ ledger'.brief = ledger.brief
  <2>1. Request(tool, selected) \in Ledger!ToolCall
    BY RuntimeAssumption DEF Request, Ledger!ToolCall
  <2>2. QED
    BY <1>1, <1>3, <2>1, ReserveEffect DEF Request
<1>5. /\ run' \in Run /\ run'.at = "permitted" /\ run'.permit = n /\ run'.actions = run.actions
      /\ run'.step = run.step /\ run'.turn = run.turn
  <2>1. n \in Nat
    BY <1>1 DEF Ledger!TypeOK, Ledger!Snapshot
  <2>2. QED
    BY <1>1, <1>4, <2>1 DEF Permit, Run, Points
<1> HIDE DEF n
<1>6. TypeOK' /\ Ledger!Authority'
  BY <1>2, <1>5, SteppedType
<1>7. Running'
  BY <1>3, <1>4, <1>5 DEF Running, RunsIn
<1>8. Holds' /\ Counted' /\ Answering'
  BY <1>1, <1>4, <1>5 DEF Holds, Counted, Answering
<1>9. PermitOf'
  BY <1>4, <1>5, <1>7 DEF PermitOf, InTurn, Open
<1>10. OnRecord'
  BY <1>3, <1>4, <1>5, <1>7 DEF OnRecord, Saved
<1>11. QED
  BY <1>2, <1>5, <1>6, <1>8, <1>9, <1>10 DEF RunInv, StepHolds

LEMMA AuthorizeKeeps ==
  ASSUME RunInv, Authorize
  PROVE  StepHolds
<1>1. TypeOK /\ InTurn(run) /\ run.at \notin Open /\ run.actions > 0 /\ Acting
  BY ActingTypes DEF Authorize
<1>2. PICK tool \in Tools, selected \in BOOLEAN :
        Ledger!AuthorizeTool(ledger, ledger', exported, run.turn, Request(tool, selected))
  BY DEF Authorize
<1>3. CASE Reserved /\ Saved /\ Permit
  BY <1>1, <1>2, <1>3, PermitKeeps
<1>4. CASE \/ ~Reserved /\ (Saved \/ Unsaved) /\ Goto("failed")
           \/ Reserved /\ Unsaved /\ run' = Skip(run)
  <2>1. Stepped
    BY <1>1, <1>2, <1>4, AuthorizeTransition, StoredType, TurnTypes DEF Stepped
  <2>2. run' \in Run /\ run'.at \in {"actions", "failed"} /\ SameTurn
    BY <1>1, <1>4, GotoEffect, SkipEffect DEF Points
  <2>3. QED
    BY <1>1, <2>1, <2>2, OrdinaryStep
<1>5. QED
  BY <1>3, <1>4 DEF Authorize

\* A use that the brief allows is recorded, and nothing else happens: the store
\* does not stop the step.
LEMMA AllowedUse ==
  ASSUME RunInv, NEW d, RecordUse(d), Ledger!Allowed(ledger.brief, d)
  PROVE  /\ ledger'.steps = ledger.steps /\ ledger'.executions = ledger.executions
         /\ ledger'.brief = ledger.brief
         /\ [turn |-> run.turn, destination |-> d] \in ledger'.providers
<1>1. ledger' = [ledger EXCEPT !.providers = @ \cup {[turn |-> run.turn, destination |-> d]}]
  BY DEF RecordUse, Ledger!RecordProvider
<1>2. ledger \in Ledger!Snapshot
  BY DEF RunInv, TypeOK
<1>3. QED
  BY <1>1, <1>2 DEF Ledger!Snapshot

\* What a permitted call is, before and while its tool runs.
Serving == ledger.executions[run.permit]

LEMMA ServingTypes ==
  ASSUME RunInv, run.at \in {"permitted", "calling"}
  PROVE  /\ TypeOK /\ InTurn(run) /\ run.actions > 0
         /\ exported /\ Running /\ run.permit # 0 /\ run.permit = Len(ledger.executions)
         /\ Serving.outcome = None /\ Serving.tool \in Tools
         /\ Serving.destination = Uses[Serving.tool]
         /\ Serving.destination # None =>
              ledger.brief # None /\ Ledger!Allowed(ledger.brief, Serving.destination)
  BY DEF RunInv, InTurn, Counted, OnRecord, Serving

\* A service is recorded, before its tool runs or behind its response.
LEMMA ServiceRecorded ==
  ASSUME RunInv, run.at \in {"permitted", "calling"},
         Uses[Serving.tool] # None, RecordUse(Uses[Serving.tool]),
         \/ Saved /\ Goto(IF RunsIn(ledger') THEN "calling" ELSE "failed")
         \/ Unsaved /\ Goto("failed")
  PROVE  StepHolds
<1> DEFINE d == Uses[Serving.tool]
<1>1. /\ TypeOK /\ InTurn(run) /\ run.actions > 0
      /\ exported /\ Running /\ run.permit # 0 /\ run.permit = Len(ledger.executions)
      /\ Serving.outcome = None /\ Serving.tool \in Tools /\ Serving.destination = d
      /\ ledger.brief # None /\ Ledger!Allowed(ledger.brief, d)
  BY ServingTypes
<1>2. d \in Destinations
  BY <1>1, RuntimeAssumption
<1>3. Stepped
  BY <1>1, <1>2, RecordUseStepped
<1>4. /\ ledger'.steps = ledger.steps /\ ledger'.executions = ledger.executions
      /\ ledger'.brief = ledger.brief
      /\ [turn |-> run.turn, destination |-> d] \in ledger'.providers
  BY <1>1, AllowedUse
<1>5. RunsIn(ledger')
  BY <1>1, <1>4 DEF Running, RunsIn
<1>6. /\ run' \in Run /\ SameTurn /\ run'.actions = run.actions
      /\ run'.step = run.step /\ run'.permit = run.permit /\ run'.turn = run.turn
      /\ \/ Saved /\ run'.at = "calling"
         \/ run'.at = "failed"
  BY <1>1, <1>5, GotoEffect DEF Points, SameTurn
<1>7. Running'
  BY <1>5, <1>6 DEF Running, RunsIn
<1>8. OnRecord'
  <2>1. CASE run'.at = "failed"
    BY <2>1 DEF OnRecord
  <2>2. CASE Saved /\ run'.at = "calling"
    BY <1>1, <1>4, <1>6, <1>7, <2>2 DEF OnRecord, Saved, Serving
  <2>. QED
    BY <1>6, <2>1, <2>2
<1>9. Counted' /\ Answering' /\ InTurn(run') /\ run'.at \in Open
  BY <1>1, <1>6 DEF Counted, Answering, InTurn, Open
<1>. QED
  BY <1>1, <1>3, <1>6, <1>7, <1>8, <1>9, TurnGoesOn

LEMMA RecordServicesKeeps ==
  ASSUME RunInv, RecordServices
  PROVE  StepHolds
<1> DEFINE d == Uses[Serving.tool]
<1>1. /\ TypeOK /\ InTurn(run) /\ run.at = "permitted" /\ run.actions > 0
      /\ exported /\ Running /\ run.permit # 0 /\ run.permit = Len(ledger.executions)
      /\ Serving.outcome = None /\ Serving.tool \in Tools /\ Serving.destination = d
  BY ServingTypes DEF RecordServices
<1>2. CASE Unchanged /\ d = None /\ Goto("calling")
  <2>1. Stepped /\ UNCHANGED <<ledger, exported>>
    BY <1>2, UnchangedStepped DEF Unchanged
  <2>2. /\ run' \in Run /\ run'.at = "calling" /\ SameTurn /\ run'.actions = run.actions
        /\ run'.step = run.step /\ run'.permit = run.permit
    BY <1>1, <1>2, GotoEffect DEF Points, SameTurn
  <2>3. Running'
    BY <1>1, <2>1, <2>2 DEF Running, RunsIn
  <2>4. OnRecord'
    BY <1>1, <1>2, <2>1, <2>2, <2>3 DEF OnRecord, Serving
  <2>5. Counted' /\ Answering' /\ InTurn(run') /\ run'.at \in Open
    BY <1>1, <2>2 DEF Counted, Answering, InTurn, Open
  <2>6. QED
    BY <1>1, <2>1, <2>2, <2>3, <2>4, <2>5, TurnGoesOn
<1>3. CASE /\ d # None /\ RecordUse(d)
           /\ \/ Saved /\ Goto(IF RunsIn(ledger') THEN "calling" ELSE "failed")
              \/ Unsaved /\ Goto("failed")
  BY <1>1, <1>3, ServiceRecorded
<1>4. QED
  BY <1>2, <1>3 DEF RecordServices, Serving

LEMMA RecordResponseKeeps ==
  ASSUME RunInv, RecordResponse
  PROVE  StepHolds
  BY ServiceRecorded DEF RecordResponse, Serving

\* The permitted call gets its outcome; an output beyond its bound also ends the
\* step, with a checkpoint.
LEMMA CompleteEffect ==
  ASSUME Ledger!TypeOK, NEW i \in DOMAIN ledger.executions, NEW o \in Outcomes,
         NEW big \in BOOLEAN, Ledger!CompleteTool(ledger, ledger', i, o, big)
  PROVE  /\ ledger'.executions[i].outcome # None
         /\ \/ ledger'.steps = ledger.steps
            \/ \A id \in StepIds : id = ledger.executions[i].step
                                   => ledger'.steps[id].state = "Checkpoint"
<1> DEFINE done == [ledger EXCEPT !.executions[i].outcome = o]
<1>1. ledger \in Ledger!Snapshot /\ ledger.executions[i] \in Ledger!ExecutionRecord
  BY DEF Ledger!TypeOK, Ledger!Snapshot
<1>2. o # None
  BY LedgerAssumption
<1>3. /\ done.executions[i].outcome = o /\ done.steps = ledger.steps
      /\ done.steps \in [StepIds -> Ledger!StepRecord]
  <2>1. /\ done.executions = [ledger.executions EXCEPT ![i].outcome = o]
        /\ done.steps = ledger.steps
    BY <1>1 DEF Ledger!Snapshot
  <2>2. done.executions[i] = [ledger.executions[i] EXCEPT !.outcome = o]
    BY <1>1, <2>1 DEF Ledger!Snapshot
  <2>3. QED
    BY <1>1, <2>1, <2>2 DEF Ledger!ExecutionRecord, Ledger!Snapshot
<1>4. \/ ledger' = done
      \/ ledger' = Ledger!Move(done, {ledger.executions[i].step}, "Checkpoint")
  BY DEF Ledger!CompleteTool
<1>5. ASSUME ledger' = Ledger!Move(done, {ledger.executions[i].step}, "Checkpoint")
      PROVE  /\ ledger'.executions = done.executions
             /\ \A id \in StepIds : id = ledger.executions[i].step
                                    => ledger'.steps[id].state = "Checkpoint"
  <2>1. DOMAIN done = DOMAIN ledger
    BY <1>1 DEF Ledger!Snapshot
  <2> HIDE DEF done
  <2>2. QED
    BY <1>1, <1>3, <1>5, <2>1 DEF Ledger!Move, Ledger!Snapshot, Ledger!StepRecord
<1>6. QED
  BY <1>2, <1>3, <1>4, <1>5

LEMMA CompleteKeeps ==
  ASSUME RunInv, Complete
  PROVE  StepHolds
<1>1. /\ TypeOK /\ InTurn(run) /\ run.at = "calling" /\ run.actions > 0 /\ run \in Run
      /\ Running /\ run.permit # 0 /\ run.step \in StepIds
      /\ run.permit \in DOMAIN ledger.executions
      /\ ledger.executions[run.permit].step = run.step /\ Ledger!TypeOK
  BY TurnTypes DEF Complete, RunInv, InTurn, Counted, OnRecord, PermitOf, TypeOK, Ledger!TypeOK
<1>2. PICK o \in Outcomes, big \in BOOLEAN :
        /\ Ledger!CompleteTool(ledger, ledger', run.permit, o, big)
        /\ LET useful == Ledger!Usable(o)
               next == Skip([run EXCEPT !.progress = @ \/ useful,
                                        !.stale = IF useful THEN 0 ELSE @])
           IN  \/ Saved /\ run' = IF RunsIn(ledger') THEN next ELSE [next EXCEPT !.at = "answered"]
               \/ Saved /\ o.status = "Unknown" /\ Goto("failed")
               \/ Unsaved /\ Goto("failed")
  BY DEF Complete
<1>3. Stepped
  <2>1. Ledger!Transition(ledger, ledger', exported)
    BY <1>1, <1>2 DEF Ledger!Transition, Ledger!ExecutionStep
  <2>2. QED
    BY <1>1, <1>2, <2>1, StoredType DEF Stepped
<1>4. /\ ledger'.executions[run.permit].outcome # None
      /\ ledger'.steps = ledger.steps \/ ledger'.steps[run.step].state = "Checkpoint"
  BY <1>1, <1>2, CompleteEffect
<1>5. /\ run' \in Run /\ SameTurn
      /\ \/ run'.at \in {"actions", "failed"}
         \/ run'.at = "answered" /\ Saved /\ ~RunsIn(ledger')
  <2>1. CASE Goto("failed")
    BY <1>1, <2>1, GotoEffect DEF Points
  <2>2. CASE /\ Saved
             /\ LET useful == Ledger!Usable(o)
                    next == Skip([run EXCEPT !.progress = @ \/ useful,
                                             !.stale = IF useful THEN 0 ELSE @])
                IN  run' = IF RunsIn(ledger') THEN next ELSE [next EXCEPT !.at = "answered"]
    <3> DEFINE useful == Ledger!Usable(o)
               seen == [run EXCEPT !.progress = @ \/ useful,
                                   !.stale = IF useful THEN 0 ELSE @]
               next == Skip(seen)
    <3>1. useful \in BOOLEAN
      BY DEF Ledger!Usable
    <3>2. /\ seen \in Run /\ seen.step = run.step /\ seen.turn = run.turn
          /\ seen.permit = run.permit /\ seen.actions = run.actions
      <4> HIDE DEF useful
      <4>1. run.progress \in BOOLEAN /\ run.stale \in Nat
        BY <1>1 DEF Run
      <4>2. QED
        BY <1>1, <3>1, <4>1 DEF Run
    <3> HIDE DEF seen
    <3>3. run.actions - 1 \in 0..MaxCalls
      BY <1>1, RuntimeAssumption DEF Run
    <3>4. /\ next \in Run /\ next.step = run.step /\ next.turn = run.turn
          /\ next.permit = run.permit /\ next.at = "actions"
      BY <3>2, <3>3 DEF Skip, Run, Points
    <3>5. run' = IF RunsIn(ledger') THEN next ELSE [next EXCEPT !.at = "answered"]
      BY <2>2 DEF seen
    <3> HIDE DEF next
    <3>6. QED
      BY <2>2, <3>4, <3>5 DEF Run, Points, SameTurn
  <2>3. QED
    BY <1>2, <2>1, <2>2
<1>6. OnRecord' /\ Counted' /\ InTurn(run')
  BY <1>5 DEF OnRecord, Counted, InTurn
<1>7. Answering'
  BY <1>1, <1>4, <1>5 DEF Answering, Running, RunsIn, Saved, SameTurn
<1>8. QED
  BY <1>1, <1>3, <1>4, <1>5, <1>6, <1>7, TurnGoesOn

(***************************************************************************)
(* Steps of finish.                                                         *)
(***************************************************************************)
LEMMA StartFinishKeeps ==
  ASSUME RunInv, StartFinish
  PROVE  StepHolds
<1>1. TypeOK /\ InTurn(run) /\ run.at \notin Open /\ run.actions > 0 /\ Stepped
  BY ActingTypes, UnchangedStepped DEF StartFinish
<1>2. run' \in Run /\ run'.at = "finish" /\ SameTurn /\ run'.actions = run.actions
  BY <1>1, GotoEffect DEF StartFinish, Points
<1>3. Counted' /\ OnRecord' /\ Answering' /\ InTurn(run')
  BY <1>1, <1>2 DEF Counted, OnRecord, Answering, InTurn
<1>4. QED
  BY <1>1, <1>2, <1>3, TurnGoesOn

LEMMA FinishTypes ==
  ASSUME RunInv, run.at \in {"finish", "propose", "amend"}
  PROVE  /\ TypeOK /\ InTurn(run) /\ run.at \notin Open /\ run.actions > 0 /\ run \in Run
         /\ run.step \in StepIds /\ run.turn \in TurnIds
         /\ ledger.steps[run.step].turn = run.turn
         /\ Ledger!TypeOK /\ Ledger!Authority
<1>1. InTurn(run) /\ run.at \notin Open /\ run.actions > 0
  BY DEF InTurn, Open, RunInv, Counted
<1>2. QED
  BY <1>1, TurnTypes DEF RunInv, TypeOK, Ledger!TypeOK

LEMMA RecordFindingKeeps ==
  ASSUME RunInv, RecordFinding
  PROVE  StepHolds
<1>1. /\ TypeOK /\ InTurn(run) /\ run.at \notin Open /\ run.actions > 0 /\ run.at = "finish"
      /\ run \in Run /\ run.step \in StepIds
  BY FinishTypes DEF RecordFinding
<1>2. Stepped
  <2>1. PICK f \in FindingIds, kind \in Ledger!FindingKind, limited \in BOOLEAN :
          \E cites \in SUBSET Ledger!Prior(ledger, run.step) :
            Ledger!RecordFinding(ledger, ledger', f, run.step, kind, cites, EvidenceIds, limited)
    BY DEF RecordFinding
  <2>2. PICK cites \in SUBSET Ledger!Prior(ledger, run.step) :
          Ledger!RecordFinding(ledger, ledger', f, run.step, kind, cites, EvidenceIds, limited)
    BY <2>1
  <2>3. QED
    BY <1>1, <2>2, FindingTransition, StoredType DEF RecordFinding, Stepped
<1>3. CASE UNCHANGED run
  <2>1. run' \in Run /\ SameTurn /\ run'.at = "finish" /\ run'.actions > 0
    BY <1>1, <1>3 DEF SameTurn
  <2>2. Counted' /\ OnRecord' /\ Answering' /\ InTurn(run')
    BY <2>1 DEF Counted, OnRecord, Answering, InTurn
  <2>3. QED
    BY <1>1, <1>2, <2>1, <2>2, TurnGoesOn
<1>4. CASE Invalid
  BY <1>1, <1>2, <1>4, SkipEffect, OrdinaryStep
<1>5. QED
  BY <1>3, <1>4 DEF RecordFinding

LEMMA RejectFinishKeeps ==
  ASSUME RunInv, RejectFinish
  PROVE  StepHolds
<1>1. TypeOK /\ InTurn(run) /\ run.at \notin Open /\ run.actions > 0
  BY FinishTypes DEF RejectFinish
<1>2. Stepped
  BY UnchangedStepped DEF RejectFinish
<1>3. QED
  BY <1>1, <1>2, SkipEffect, OrdinaryStep DEF RejectFinish

\* A checkpoint that is saved may be answered.
LEMMA CheckpointStep ==
  ASSUME RunInv, run.at \in {"finish", "amend"}, Checkpoint, Saved,
         Goto("propose") \/ Goto("answered")
  PROVE  StepHolds
<1>1. /\ TypeOK /\ InTurn(run) /\ run.at \notin Open /\ run.actions > 0 /\ run \in Run
      /\ run.step \in StepIds /\ run.turn \in TurnIds
      /\ ledger.steps[run.step].turn = run.turn
      /\ Ledger!TypeOK /\ Ledger!Authority
  BY FinishTypes
<1>2. Stepped
  BY <1>1, EndStepTransition, StoredType DEF Checkpoint, Stepped
<1>3. ledger'.steps[run.step].state = "Checkpoint"
  BY <1>1, EndStepEffect DEF Checkpoint
<1>4. /\ run' \in Run /\ run'.at \in {"propose", "answered"} /\ SameTurn
      /\ run'.actions = run.actions
  BY <1>1, GotoEffect DEF Points
<1>5. Counted' /\ OnRecord' /\ Answering' /\ InTurn(run')
  BY <1>1, <1>3, <1>4 DEF Counted, OnRecord, Answering, InTurn, Saved, SameTurn
<1>6. QED
  BY <1>1, <1>2, <1>4, <1>5, TurnGoesOn

\* One that is not exported, or that cannot be read back, is a rejected attempt.
LEMMA RejectedCheckpoint ==
  ASSUME RunInv, run.at \in {"finish", "amend"}, Checkpoint, Saved \/ Unsaved, Invalid
  PROVE  StepHolds
<1>1. TypeOK /\ InTurn(run) /\ run.at \notin Open /\ run.actions > 0 /\ run.turn \in TurnIds
  BY FinishTypes
<1>2. Stepped
  BY <1>1, EndStepTransition, StoredType DEF Checkpoint, Stepped
<1>3. QED
  BY <1>1, <1>2, SkipEffect, OrdinaryStep

LEMMA SaveCheckpointKeeps ==
  ASSUME RunInv, SaveCheckpoint
  PROVE  StepHolds
  BY CheckpointStep, RejectedCheckpoint DEF SaveCheckpoint

LEMMA AmendKeeps ==
  ASSUME RunInv, Amend
  PROVE  StepHolds
  BY CheckpointStep, RejectedCheckpoint DEF Amend

\* New proposals leave a checkpoint as it is.
LEMMA ProposeEffect ==
  ASSUME Ledger!TypeOK, NEW ids \in SUBSET StepIds, Ledger!ProposeSteps(ledger, ledger', ids),
         NEW id \in StepIds, ledger.steps[id].state = "Checkpoint"
  PROVE  ledger'.steps[id].state = "Checkpoint"
<1>1. ledger \in Proven!Snapshot /\ Proven!ProposeSteps(ledger, ledger', ids)
  BY SameLedger DEF Ledger!TypeOK
<1>2. id \notin ids
  BY DEF Ledger!ProposeSteps
<1>3. ledger'.steps[id].state = IF id \in ids THEN "PendingApproval"
                                ELSE IF ledger.steps[id].state \in {"PendingApproval", "Approved"}
                                     THEN "Interrupted" ELSE ledger.steps[id].state
  BY <1>1, ProvenAssumptions, Proven!ProposeStepsEffect
<1>4. QED
  BY <1>2, <1>3

LEMMA ProposeKeeps ==
  ASSUME RunInv, Propose
  PROVE  StepHolds
<1>1. /\ TypeOK /\ InTurn(run) /\ run.at \notin Open /\ run.actions > 0 /\ run \in Run
      /\ run.step \in StepIds /\ Ledger!TypeOK
      /\ exported /\ ledger.steps[run.step].state = "Checkpoint"
  BY FinishTypes DEF Propose, RunInv, Answering
<1>2. Stepped /\ ledger'.steps[run.step].state = "Checkpoint"
  <2>1. CASE Unchanged
    BY <1>1, <2>1, UnchangedStepped
  <2>2. CASE (\E ids \in SUBSET StepIds : Ledger!ProposeSteps(ledger, ledger', ids))
             /\ (Saved \/ Unsaved)
    <3>1. PICK ids \in SUBSET StepIds : Ledger!ProposeSteps(ledger, ledger', ids)
      BY <2>2
    <3>2. Stepped
      BY <1>1, <2>2, <3>1, ProposeTransition, StoredType DEF Stepped
    <3>3. QED
      BY <1>1, <3>1, <3>2, ProposeEffect
  <2>3. QED
    BY <2>1, <2>2 DEF Propose
<1>3. CASE Invalid
  BY <1>1, <1>2, <1>3, SkipEffect, OrdinaryStep
<1>4. CASE Goto("amend") \/ (Goto("answered") /\ (Unchanged \/ Saved))
  <2>1. /\ run' \in Run /\ SameTurn /\ run'.actions = run.actions
        /\ run'.at = "amend" \/ (run'.at = "answered" /\ (Unchanged \/ Saved))
    BY <1>1, <1>4, GotoEffect DEF Points
  <2>2. Counted' /\ OnRecord' /\ Answering' /\ InTurn(run')
    BY <1>1, <1>2, <2>1 DEF Counted, OnRecord, Answering, InTurn, Saved, Unchanged, SameTurn
  <2>. QED
    BY <1>1, <1>2, <2>1, <2>2, TurnGoesOn
<1>. QED
  BY <1>3, <1>4 DEF Propose

(***************************************************************************)
(* Steps that end a turn.                                                   *)
(***************************************************************************)
LEMMA AnswerKeeps ==
  ASSUME RunInv, Answer
  PROVE  StepHolds
  BY UnchangedStepped, StandingCall, IdleStep DEF Answer

\* interrupt_step closes the last permitted call too.
LEMMA InterruptedCall ==
  ASSUME RunInv, run.permit # 0, Ledger!EndStep(ledger, ledger', run.turn, "Interrupted")
  PROVE  Settled
<1>1. /\ run.permit \in DOMAIN ledger.executions
      /\ ledger.executions[run.permit].turn = run.turn
      /\ run.step \in StepIds /\ run.turn \in TurnIds
      /\ ledger.steps[run.step].turn = run.turn
      /\ Ledger!TypeOK /\ Ledger!Authority
  BY TurnTypes DEF RunInv, PermitOf, TypeOK, Ledger!TypeOK
<1>2. QED
  BY <1>1, EndStepEffect DEF Settled

LEMMA InterruptKeeps ==
  ASSUME RunInv, Interrupt
  PROVE  StepHolds
<1>1. InTurn(run) /\ run.turn \in TurnIds /\ TypeOK
  BY TurnTypes DEF Interrupt, InTurn
<1>2. CASE /\ Ledger!EndStep(ledger, ledger', run.turn, "Interrupted")
           /\ Saved \/ Unsaved
           /\ run' = Idle
  <2>1. Stepped
    BY <1>1, <1>2, EndStepTransition, StoredType DEF Stepped
  <2>2. QED
    BY <1>2, <2>1, InterruptedCall, IdleStep
<1>3. CASE Unchanged /\ run' = Idle
  BY <1>3, UnchangedStepped, StandingCall, IdleStep
<1>4. CASE Fault /\ Goto("dropped")
  BY <1>1, <1>4, UnchangedStepped, GotoEffect, FailingStep DEF Points
<1>5. QED
  BY <1>2, <1>3, <1>4 DEF Interrupt

LEMMA SweepKeeps ==
  ASSUME RunInv, Sweep
  PROVE  StepHolds
<1>1. InTurn(run) /\ run.turn \in TurnIds /\ TypeOK
  BY TurnTypes DEF Sweep, InTurn
<1>2. CASE /\ Ledger!EndStep(ledger, ledger', run.turn, "Interrupted")
           /\ Saved \/ Unsaved
           /\ run' = Idle
  <2>1. Stepped
    BY <1>1, <1>2, EndStepTransition, StoredType DEF Stepped
  <2>2. QED
    BY <1>2, <2>1, InterruptedCall, IdleStep
<1>3. CASE (Unchanged \/ Fault) /\ run' = Idle
  BY <1>3, UnchangedStepped, StandingCall, IdleStep
<1>4. QED
  BY <1>2, <1>3 DEF Sweep

(***************************************************************************)
(* The invariant holds.                                                     *)
(***************************************************************************)
LEMMA InitRun == Init => RunInv
<1>1. SUFFICES ASSUME Init PROVE RunInv
  OBVIOUS
<1>2. Ledger!TypeOK /\ Ledger!Authority
  BY <1>1, EmptyRow DEF Init
<1>3. TypeOK
  BY <1>1, <1>2, IdleType, RuntimeAssumption DEF Init, TypeOK, Ledger!TypeOK
<1>4. Holds /\ Counted /\ PermitOf /\ OnRecord /\ Answering
  BY <1>1 DEF Init, Idle, Holds, Counted, PermitOf, OnRecord, Answering, InTurn
<1>5. QED
  BY <1>2, <1>3, <1>4 DEF RunInv

LEMMA NextRun ==
  ASSUME RunInv, [Next]_vars
  PROVE  StepHolds
<1>1. CASE UNCHANGED vars
  <2>1. Ledger!Authority'
    BY <1>1, StillStep DEF vars, RunInv, TypeOK, Ledger!TypeOK
  <2>2. TypeOK'
    BY <1>1 DEF vars, RunInv, TypeOK, Ledger!Snapshot, Ledger!StepRecord,
                Ledger!ExecutionRecord, Run
  <2>3. Holds' /\ Counted' /\ PermitOf' /\ OnRecord' /\ Answering'
    BY <1>1 DEF vars, RunInv, Holds, Counted, PermitOf, OnRecord, Answering, Running, RunsIn
  <2>4. Stepped
    BY <1>1, StillTransition DEF vars, RunInv, TypeOK, Stepped
  <2>5. run' = run
    BY <1>1 DEF vars
  <2>6. QED
    BY <2>1, <2>2, <2>3, <2>4, <2>5 DEF RunInv, StepHolds
<1>2. CASE Chat
  BY <1>2, SaveObjectiveKeeps, ProposeInventoryKeeps, BeginKeeps DEF Chat
<1>3. CASE Work
  BY <1>3, ExhaustedKeeps, AskKeeps, RespondKeeps, BreakKeeps, CheckUseKeeps, AuthorizeKeeps,
     RefuseKeeps, RecordServicesKeeps, RecordResponseKeeps, CompleteKeeps, EndRoundKeeps, StartFinishKeeps,
     RecordFindingKeeps, RejectFinishKeeps, SaveCheckpointKeeps, ProposeKeeps, AmendKeeps,
     AnswerKeeps, InterruptKeeps, SweepKeeps DEF Work
<1>4. CASE Drop
  BY <1>4, DropKeeps
<1>5. CASE Command
  BY <1>5, CommandKeeps
<1>6. CASE Restart
  BY <1>6, RestartKeeps
<1>7. QED
  BY <1>1, <1>2, <1>3, <1>4, <1>5, <1>6 DEF Next

LEMMA RunInvHolds == Spec => []RunInv
<1>1. QED
  BY InitRun, NextRun, PTL DEF Spec, StepHolds

(***************************************************************************)
(* Theorems.                                                                *)
(***************************************************************************)
\* The row, the turn and its counters stay well typed.
THEOREM RuntimeTypes == Spec => []TypeOK
<1>1. RunInv => TypeOK
  BY DEF RunInv
<1>2. QED
  BY <1>1, RunInvHolds, PTL

\* Whatever the provider answers, a tool does and the store refuses, the runtime
\* takes only steps of the ledger, although it acts on what it read before.
THEOREM RuntimeImplementsLedger == Spec => ImplementsLedger
<1>1. Init => Ledger!Init
  BY DEF Init, Ledger!Init
<1>2. RunInv /\ [Next]_vars => [Ledger!Next]_(Ledger!vars)
  BY NextRun DEF StepHolds, Stepped, Ledger!Next
<1>3. QED
  BY <1>1, <1>2, RunInvHolds, PTL DEF Spec, ImplementsLedger, Ledger!Spec

\* A tool runs only behind a call that is reserved for this turn, open, in the
\* files, and has its service recorded (authorize_tool before call_tool).
THEOREM ToolRunsHolds == Spec => []ToolRunsOnRecord
<1>1. RunInv => ToolRunsOnRecord
  <2>1. SUFFICES ASSUME RunInv, run.at = "calling" PROVE ToolRunsOnRecord
    BY DEF ToolRunsOnRecord
  <2>2. /\ exported /\ Running /\ run.permit # 0 /\ run.permit = Len(ledger.executions)
        /\ ledger.executions[run.permit].outcome = None
        /\ ledger.executions[run.permit].destination # None =>
             [turn |-> run.turn, destination |-> ledger.executions[run.permit].destination]
               \in ledger.providers
    BY <2>1 DEF RunInv, OnRecord
  <2>3. /\ ledger.executions[run.permit].step = run.step
        /\ ledger.executions[run.permit].turn = run.turn
    BY <2>1, <2>2 DEF RunInv, PermitOf
  <2>4. QED
    BY <2>2, <2>3 DEF ToolRunsOnRecord
<1>2. QED
  BY <1>1, RunInvHolds, PTL

\* A turn answers only from a checkpoint that is in the row and in the files.
THEOREM AnswerHolds == Spec => []AnswerIsSaved
<1>1. RunInv => AnswerIsSaved
  BY DEF RunInv, Answering, AnswerIsSaved
<1>2. QED
  BY <1>1, RunInvHolds, PTL

\* However a turn ends, by an answer, an error, the session's sweep or a restart,
\* its last permitted call is closed, or its step still runs and the next sweep
\* or reopening finds it.
THEOREM PermittedCallHolds == Spec => PermittedCallIsClosed
<1>1. ASSUME RunInv, [Next]_vars, run.at # "idle", run'.at = "idle", run.permit # 0
      PROVE  Settled
  BY <1>1, NextRun DEF StepHolds
<1>2. RunInv /\ [Next]_vars
      => [run.at # "idle" /\ run'.at = "idle" /\ run.permit # 0 => Settled]_vars
  BY <1>1
<1>3. QED
  BY <1>2, RunInvHolds, PTL DEF Spec, PermittedCallIsClosed, Settled

\* What is proved of the ledger holds of the row of a session under its runtime:
\* who granted what, the budgets and prerequisites of a plan, the grounds of
\* findings, the outcomes that are never rewritten.
THEOREM RuntimeKeepsRecord ==
  Spec => /\ [](Ledger!Authority /\ Ledger!PlanIsKept /\ Ledger!FindingsGrounded)
          /\ Ledger!OutcomesImmutable
<1>1. Ledger!Spec => Proven!Spec
  <2>1. [Ledger!Next]_(Ledger!vars) <=> [Proven!Next]_(Proven!vars)
    BY SameLedger DEF Ledger!Next, Proven!Next, Ledger!vars, Proven!vars
  <2>2. QED
    BY <2>1, SameLedger, PTL DEF Ledger!Spec, Proven!Spec
<1>2. /\ Proven!Spec => []Proven!PlanIsKept
      /\ Proven!Spec => []Proven!FindingsGrounded
      /\ Proven!Spec => Proven!OutcomesImmutable
  BY ProvenAssumptions, Proven!PlanHolds, Proven!FindingsHold, Proven!OutcomesHold
<1>3. Proven!PlanIsKept /\ Proven!FindingsGrounded => Ledger!PlanIsKept /\ Ledger!FindingsGrounded
  BY Zenon DEF Ledger!PlanIsKept, Proven!PlanIsKept, Ledger!WithinBudget, Proven!WithinBudget,
         Ledger!DependenciesObserved, Proven!DependenciesObserved, Ledger!FindingsGrounded,
         Proven!FindingsGrounded, Ledger!Prior, Proven!Prior, Ledger!Calls, Proven!Calls,
         Ledger!Failures, Proven!Failures, Ledger!InFlight, Proven!InFlight, Ledger!Spent,
         Proven!Spent, Ledger!Usable, Proven!Usable, Ledger!Needs, Proven!Needs,
         Ledger!Citable, Proven!Citable, Ledger!Decided, Proven!Decided,
         Ledger!Cardinality, Proven!Cardinality, Ledger!IsFiniteSet, Proven!IsFiniteSet
<1>4. Proven!OutcomesImmutable => Ledger!OutcomesImmutable
  BY PTL DEF Ledger!OutcomesImmutable, Proven!OutcomesImmutable, Ledger!vars, Proven!vars
<1>5. Spec => Ledger!Spec
  BY RuntimeImplementsLedger DEF ImplementsLedger
<1>6. RunInv => Ledger!Authority
  BY DEF RunInv
<1>7. QED
  BY <1>1, <1>2, <1>3, <1>4, <1>5, <1>6, RunInvHolds, PTL

=============================================================================
