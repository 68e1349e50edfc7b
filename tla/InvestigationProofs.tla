------------------------- MODULE InvestigationProofs -------------------------
(***************************************************************************)
(* Invariance proofs about the investigation ledger, for every set of steps,*)
(* turns, tools, plans and briefs that satisfies the module's assumptions:  *)
(* first its types and the authority over steps, then what is recorded.     *)
(***************************************************************************)
EXTENDS Investigation, SequenceTheorems, FiniteSetTheorems, TLAPS

(***************************************************************************)
(* What the shared changes of a snapshot do to each of its fields.          *)
(***************************************************************************)
\* The steps of a snapshot are records.
LEMMA StepsType ==
    ASSUME NEW s \in Snapshot, NEW id \in StepIds
    PROVE  /\ s.steps[id] \in StepRecord
           /\ s.steps[id] = [state |-> s.steps[id].state, turn |-> s.steps[id].turn]
  BY DEF Snapshot, StepRecord

\* The executions of a snapshot are records.
LEMMA ExecutionsType ==
    ASSUME NEW s \in Snapshot
    PROVE  /\ Len(s.executions) \in Nat
           /\ DOMAIN s.executions = 1..Len(s.executions)
           /\ \A i \in DOMAIN s.executions : s.executions[i] \in ExecutionRecord
<1>1. s.executions \in Seq(ExecutionRecord)
  BY DEF Snapshot
<1>2. QED
  BY <1>1, LenProperties

\* Move changes the steps of a snapshot and no other field.
LEMMA MoveFrame ==
    ASSUME NEW s \in Snapshot, NEW ids, NEW state \in StepStates
    PROVE  /\ Move(s, ids, state) \in Snapshot
           /\ Move(s, ids, state).brief = s.brief
           /\ Move(s, ids, state).confirmed = s.confirmed
           /\ Move(s, ids, state).executions = s.executions
           /\ Move(s, ids, state).providers = s.providers
           /\ Move(s, ids, state).findings = s.findings
           /\ Move(s, ids, state).decisions = s.decisions
<1> DEFINE steps == [id \in StepIds |->
              IF id \in ids THEN [s.steps[id] EXCEPT !.state = state] ELSE s.steps[id]]
<1>1. Move(s, ids, state) = [s EXCEPT !.steps = steps]
  BY DEF Move
<1>2. steps \in [StepIds -> StepRecord]
  BY StepsType DEF StepRecord
<1> HIDE DEF steps
<1>3. QED
  BY <1>1, <1>2 DEF Snapshot

\* Move writes the state of the chosen steps and leaves their turns alone.
LEMMA MoveSteps ==
    ASSUME NEW s \in Snapshot, NEW ids, NEW state \in StepStates, NEW id \in StepIds
    PROVE  /\ Move(s, ids, state).steps[id].turn = s.steps[id].turn
           /\ id \in ids => Move(s, ids, state).steps[id].state = state
           /\ id \notin ids => Move(s, ids, state).steps[id] = s.steps[id]
<1> DEFINE steps == [x \in StepIds |->
              IF x \in ids THEN [s.steps[x] EXCEPT !.state = state] ELSE s.steps[x]]
<1>1. Move(s, ids, state) = [s EXCEPT !.steps = steps]
  BY DEF Move
<1>2. Move(s, ids, state).steps = steps
  BY <1>1 DEF Snapshot
<1>3. steps[id] = IF id \in ids THEN [s.steps[id] EXCEPT !.state = state] ELSE s.steps[id]
  OBVIOUS
<1> HIDE DEF steps
<1>4. QED
  BY <1>2, <1>3, StepsType

\* Closing calls writes the outcome of the unfinished ones among them.
LEMMA CloseCallsEffect ==
    ASSUME NEW s \in Snapshot, NEW calls
    PROVE  /\ CloseCalls(s, calls) \in Snapshot
           /\ CloseCalls(s, calls).steps = s.steps
           /\ CloseCalls(s, calls).brief = s.brief
           /\ CloseCalls(s, calls).confirmed = s.confirmed
           /\ CloseCalls(s, calls).decisions = s.decisions
           /\ CloseCalls(s, calls).findings = s.findings
           /\ DOMAIN CloseCalls(s, calls).executions = DOMAIN s.executions
           /\ Len(CloseCalls(s, calls).executions) = Len(s.executions)
           /\ \A i \in DOMAIN s.executions :
                CloseCalls(s, calls).executions[i] =
                    IF i \in calls /\ s.executions[i].outcome = None
                    THEN [s.executions[i] EXCEPT !.outcome = Lost] ELSE s.executions[i]
<1> DEFINE closed == [i \in DOMAIN s.executions |->
              IF i \in calls /\ s.executions[i].outcome = None
              THEN [s.executions[i] EXCEPT !.outcome = Lost] ELSE s.executions[i]]
<1>1. s.executions \in Seq(ExecutionRecord)
  BY DEF Snapshot
<1>2. Lost \in ToolOutcome
  BY DEF Lost, ToolOutcome, ToolStatus
<1>3. closed \in Seq(ExecutionRecord) /\ Len(closed) = Len(s.executions)
  <2>1. \A i \in 1..Len(s.executions) : s.executions[i] \in ExecutionRecord
    BY <1>1
  <2>2. \A i \in 1..Len(s.executions) :
          [s.executions[i] EXCEPT !.outcome = Lost] \in ExecutionRecord
    BY <2>1, <1>2 DEF ExecutionRecord
  <2>3. closed \in [1..Len(s.executions) -> ExecutionRecord]
    BY <1>1, <2>1, <2>2
  <2>4. Len(s.executions) \in Nat
    BY <1>1, LenProperties
  <2>5. closed \in Seq(ExecutionRecord)
    <3> HIDE DEF closed
    <3>1. QED
      BY <2>3, <2>4, SeqDef
  <2>6. DOMAIN closed = 1..Len(s.executions)
    BY <1>1
  <2>7. QED
    BY <2>4, <2>5, <2>6, LenProperties
<1>4. CloseCalls(s, calls) = [s EXCEPT !.executions = closed]
  BY DEF CloseCalls
<1>5. DOMAIN closed = DOMAIN s.executions
  OBVIOUS
<1>6. \A i \in DOMAIN s.executions : closed[i] =
          IF i \in calls /\ s.executions[i].outcome = None
          THEN [s.executions[i] EXCEPT !.outcome = Lost] ELSE s.executions[i]
  OBVIOUS
<1> HIDE DEF closed
<1>7. QED
  BY <1>3, <1>4, <1>5, <1>6 DEF Snapshot

(***************************************************************************)
(* Every operation records a well-typed snapshot.                           *)
(***************************************************************************)
\* A saved brief retires the open proposals of a well-typed snapshot.
LEMMA SetCaseBriefType ==
    ASSUME NEW s \in Snapshot, NEW t, NEW brief \in Briefs,
           SetCaseBrief(s, t, brief)
    PROVE  t \in Snapshot
<1>1. Retire(s) \in Snapshot
  BY MoveFrame DEF Retire, StepStates
<1>2. [Retire(s) EXCEPT !.brief = brief, !.confirmed = FALSE] \in Snapshot
  BY <1>1, InputsAssumption DEF Snapshot
<1>3. t = [Retire(s) EXCEPT !.brief = brief, !.confirmed = FALSE]
  BY DEF SetCaseBrief
<1>4. QED
  BY <1>2, <1>3

\* New proposals are pending steps.
LEMMA ProposeStepsType ==
    ASSUME NEW s \in Snapshot, NEW t, NEW ids \in SUBSET StepIds,
           ProposeSteps(s, t, ids)
    PROVE  t \in Snapshot
<1>1. Retire(s) \in Snapshot
  BY MoveFrame DEF Retire, StepStates
<1>2. Move(Retire(s), ids, "PendingApproval") \in Snapshot
  BY <1>1, MoveFrame DEF StepStates
<1>3. t = Move(Retire(s), ids, "PendingApproval")
  BY DEF ProposeSteps
<1>4. QED
  BY <1>2, <1>3

\* Appending a decision to a snapshot changes no other field.
LEMMA AppendDecision ==
    ASSUME NEW s \in Snapshot, NEW record \in DecisionRecord
    PROVE  LET t == [s EXCEPT !.decisions = Append(@, record)]
           IN  /\ t \in Snapshot
               /\ t.steps = s.steps
               /\ t.brief = s.brief /\ t.confirmed = s.confirmed
               /\ t.executions = s.executions
               /\ t.decisions = Append(s.decisions, record)
<1>1. s.decisions \in Seq(DecisionRecord)
  BY DEF Snapshot
<1>2. Append(s.decisions, record) \in Seq(DecisionRecord)
  BY <1>1, AppendProperties
<1>3. QED
  BY <1>2 DEF Snapshot

\* A decision log keeps what it holds.
LEMMA DecisionAppended ==
    ASSUME NEW s \in Snapshot, NEW record \in DecisionRecord
    PROVE  /\ \A i \in DOMAIN s.decisions : /\ i \in DOMAIN Append(s.decisions, record)
                                         /\ Append(s.decisions, record)[i] = s.decisions[i]
           /\ \E i \in DOMAIN Append(s.decisions, record) : Append(s.decisions, record)[i] = record
           /\ \A i \in DOMAIN Append(s.decisions, record) :
                i \in DOMAIN s.decisions \/ (Append(s.decisions, record)[i] = record
                                             /\ i = Len(s.decisions) + 1)
<1>1. s.decisions \in Seq(DecisionRecord)
  BY DEF Snapshot
<1> DEFINE more == Append(s.decisions, record)
<1>2. /\ more \in Seq(DecisionRecord) /\ Len(more) = Len(s.decisions) + 1
      /\ \A i \in 1..Len(s.decisions) : more[i] = s.decisions[i]
      /\ more[Len(s.decisions) + 1] = record
  BY <1>1, AppendProperties
<1>3. /\ DOMAIN s.decisions = 1..Len(s.decisions) /\ Len(s.decisions) \in Nat
      /\ DOMAIN more = 1..(Len(s.decisions) + 1)
  BY <1>1, <1>2, LenProperties
<1> HIDE DEF more
<1>4. QED
  BY <1>2, <1>3 DEF more

\* A decision moves one step and appends one record.
LEMMA DecideEffect ==
    ASSUME NEW s \in Snapshot, NEW id \in StepIds, NEW decision \in HumanDecision,
           NEW state \in StepStates
    PROVE  LET t == Decide(s, id, decision, state)
           IN  /\ t \in Snapshot
               /\ t.steps = Move(s, {id}, state).steps
               /\ t.brief = s.brief /\ t.confirmed = s.confirmed
               /\ t.executions = s.executions
               /\ t.decisions = Append(s.decisions, [target |-> id, decision |-> decision])
<1> DEFINE record == [target |-> id, decision |-> decision]
           m == Move(s, {id}, state)
<1>1. record \in DecisionRecord
  BY DEF DecisionRecord
<1>2. /\ m \in Snapshot /\ m.brief = s.brief /\ m.confirmed = s.confirmed
      /\ m.executions = s.executions /\ m.decisions = s.decisions
  BY MoveFrame
<1>3. Decide(s, id, decision, state) = [m EXCEPT !.decisions = Append(@, record)]
  BY DEF Decide
<1> DEFINE t == Decide(s, id, decision, state)
<1> HIDE DEF record, m
<1>4. /\ t \in Snapshot /\ t.steps = m.steps
      /\ t.brief = m.brief /\ t.confirmed = m.confirmed
      /\ t.executions = m.executions /\ t.decisions = Append(m.decisions, record)
  BY <1>1, <1>2, <1>3, AppendDecision
<1>5. QED
  BY <1>2, <1>4 DEF m, record

\* A decided snapshot is well typed.
LEMMA DecideStepType ==
    ASSUME NEW s \in Snapshot, NEW t, NEW id \in StepIds,
           NEW decision \in HumanDecision, DecideStep(s, t, id, decision)
    PROVE  t \in Snapshot
<1>1. Retire(s) \in Snapshot
  BY MoveFrame DEF Retire, StepStates
<1>2. Decide(Retire(s), id, "Approve", "Approved") \in Snapshot
  BY <1>1, DecideEffect DEF StepStates, HumanDecision
<1>3. Approve(s, id) \in Snapshot
  BY <1>2 DEF Snapshot, Approve
<1>4. Reject(s, id) \in Snapshot
  BY DecideEffect DEF StepStates, HumanDecision, Reject
<1>5. QED
  BY <1>3, <1>4 DEF DecideStep

\* A step that begins runs on the given turn; the other steps keep theirs.
LEMMA BeginStepEffect ==
    ASSUME NEW s \in Snapshot, NEW t, NEW ready, NEW id \in StepIds,
           NEW turn \in TurnIds, BeginStep(s, t, ready, id, turn)
    PROVE  /\ t \in Snapshot
           /\ t.steps = [s.steps EXCEPT ![id] = [state |-> "Running", turn |-> turn]]
           /\ t.brief = s.brief /\ t.confirmed = s.confirmed
           /\ t.executions = s.executions /\ t.decisions = s.decisions
<1> DEFINE steps == [s.steps EXCEPT ![id] = [state |-> "Running", turn |-> turn]]
<1>1. steps \in [StepIds -> StepRecord]
  BY DEF Snapshot, StepRecord, StepStates
<1>2. t = [s EXCEPT !.steps = steps]
  BY DEF BeginStep
<1> HIDE DEF steps
<1>3. [s EXCEPT !.steps = steps] \in Snapshot
  BY <1>1 DEF Snapshot
<1>4. /\ [s EXCEPT !.steps = steps].steps = steps
      /\ [s EXCEPT !.steps = steps].brief = s.brief
      /\ [s EXCEPT !.steps = steps].confirmed = s.confirmed
      /\ [s EXCEPT !.steps = steps].executions = s.executions
      /\ [s EXCEPT !.steps = steps].decisions = s.decisions
  BY DEF Snapshot
<1>5. QED
  BY <1>2, <1>3, <1>4 DEF steps

(***************************************************************************)
(* Quiet changes: no step gains authority.  Every operation except a brief  *)
(* change, a proposal, a decision and the start of a step is one.           *)
(***************************************************************************)
Bound(s) ==
    /\ \A id \in StepIds : s.steps[id].state = "Checkpoint" => s.steps[id].turn # None
    /\ \A i \in DOMAIN s.executions :
        /\ s.executions[i].turn # None
        /\ s.steps[s.executions[i].step].turn = s.executions[i].turn

SameScope(s, t) == t.brief = s.brief /\ t.confirmed = s.confirmed
StepsSettle(s, t) ==
    \A id \in StepIds :
        /\ t.steps[id].turn = s.steps[id].turn
        /\ t.steps[id].state \in {s.steps[id].state, "Checkpoint", "Interrupted"}
DecisionsKept(s, t) ==
    /\ \A i \in DOMAIN s.decisions : i \in DOMAIN t.decisions /\ t.decisions[i] = s.decisions[i]
    /\ \A i \in DOMAIN t.decisions : i \in DOMAIN s.decisions
                                     \/ t.decisions[i].target \in FindingIds

Quiet(s, t) == SameScope(s, t) /\ StepsSettle(s, t) /\ DecisionsKept(s, t) /\ Bound(t)

\* A well-bound snapshot differs quietly from itself.
LEMMA SameQuiet ==
    ASSUME NEW s \in Snapshot, Bound(s)
    PROVE  Quiet(s, s)
  BY DEF Quiet, SameScope, StepsSettle, DecisionsKept

\* Moving steps to an ended state is quiet, if those that reach a checkpoint
\* have begun.
LEMMA MoveQuiet ==
    ASSUME NEW s \in Snapshot, Bound(s), NEW ids, NEW state \in {"Checkpoint", "Interrupted"},
           state = "Checkpoint" => \A id \in ids \cap StepIds : s.steps[id].turn # None
    PROVE  Move(s, ids, state) \in Snapshot /\ Quiet(s, Move(s, ids, state))
<1> DEFINE m == Move(s, ids, state)
<1>1. state \in StepStates
  BY DEF StepStates
<1>2. /\ m \in Snapshot /\ SameScope(s, m) /\ m.executions = s.executions
      /\ m.decisions = s.decisions
  BY <1>1, MoveFrame DEF SameScope
<1>3. \A id \in StepIds : /\ m.steps[id].turn = s.steps[id].turn
                          /\ id \in ids => m.steps[id].state = state
                          /\ id \notin ids => m.steps[id] = s.steps[id]
  BY <1>1, MoveSteps
<1> HIDE DEF m
<1>4. StepsSettle(s, m)
  BY <1>3 DEF StepsSettle
<1>5. DecisionsKept(s, m)
  BY <1>2 DEF DecisionsKept
<1>6. \A i \in DOMAIN s.executions : s.executions[i].step \in StepIds
  BY ExecutionsType DEF ExecutionRecord
<1>7. Bound(m)
  BY <1>2, <1>3, <1>6 DEF Bound
<1>8. QED
  BY <1>2, <1>4, <1>5, <1>7 DEF Quiet, m

\* Closing calls is quiet.
LEMMA CloseCallsQuiet ==
    ASSUME NEW s \in Snapshot, NEW draft \in Snapshot, Quiet(s, draft), NEW calls
    PROVE  CloseCalls(draft, calls) \in Snapshot /\ Quiet(s, CloseCalls(draft, calls))
<1> DEFINE c == CloseCalls(draft, calls)
<1>1. /\ c \in Snapshot /\ c.steps = draft.steps /\ c.brief = draft.brief
      /\ c.confirmed = draft.confirmed /\ c.decisions = draft.decisions
      /\ DOMAIN c.executions = DOMAIN draft.executions
  BY CloseCallsEffect
<1>2. \A i \in DOMAIN draft.executions :
        c.executions[i] = draft.executions[i]
        \/ c.executions[i] = [draft.executions[i] EXCEPT !.outcome = Lost]
  BY CloseCallsEffect
<1>3. \A i \in DOMAIN draft.executions :
        /\ c.executions[i].step = draft.executions[i].step
        /\ c.executions[i].turn = draft.executions[i].turn
  BY <1>2, ExecutionsType DEF ExecutionRecord
<1> HIDE DEF c
<1>4. Bound(c)
  BY <1>1, <1>3 DEF Quiet, Bound
<1>5. QED
  BY <1>1, <1>4 DEF Quiet, SameScope, StepsSettle, DecisionsKept, c

\* stop_running_steps takes authority away only.
LEMMA StopQuiet ==
    ASSUME NEW s \in Snapshot, Bound(s)
    PROVE  Stop(s) \in Snapshot /\ Quiet(s, Stop(s))
  BY MoveQuiet DEF Stop

\* Reserving a call appends one record, bound to the active step and its turn.
LEMMA ReserveQuiet ==
    ASSUME NEW s \in Snapshot, Bound(s), NEW id \in StepIds, NEW turn \in TurnIds,
           NEW call \in ToolCall, Active(s, id, turn)
    PROVE  Reserve(s, id, turn, call) \in Snapshot /\ Quiet(s, Reserve(s, id, turn, call))
<1> DEFINE record == [step |-> id, turn |-> turn, tool |-> call.tool, evidence |-> call.evidence,
                      destination |-> call.destination, outcome |-> None]
           t == Reserve(s, id, turn, call)
<1>1. record \in ExecutionRecord /\ record.step = id /\ record.turn = turn
  BY DEF ExecutionRecord, ToolCall
<1>2. t = [s EXCEPT !.executions = Append(s.executions, record)]
  BY DEF Reserve
<1>3. s.executions \in Seq(ExecutionRecord)
  BY DEF Snapshot
<1> HIDE DEF record, t
<1>4. /\ Append(s.executions, record) \in Seq(ExecutionRecord)
      /\ Len(Append(s.executions, record)) = Len(s.executions) + 1
      /\ \A i \in 1..Len(s.executions) : Append(s.executions, record)[i] = s.executions[i]
      /\ Append(s.executions, record)[Len(s.executions) + 1] = record
  BY <1>1, <1>3, AppendProperties
<1>5. /\ t \in Snapshot /\ SameScope(s, t) /\ t.steps = s.steps /\ t.decisions = s.decisions
      /\ t.executions = Append(s.executions, record)
  BY <1>2, <1>4 DEF Snapshot, SameScope
<1>6. Bound(t)
  <2>1. \A i \in DOMAIN t.executions : i \in DOMAIN s.executions \/ i = Len(s.executions) + 1
    BY <1>4, <1>5, ExecutionsType
  <2>2. \A i \in DOMAIN s.executions : t.executions[i] = s.executions[i]
    BY <1>4, <1>5, ExecutionsType
  <2>3. s.steps[id].turn = turn /\ turn # None
    BY IdentifiersAssumption DEF Active
  <2>4. QED
    BY <1>1, <1>4, <1>5, <2>1, <2>2, <2>3 DEF Bound
<1>7. QED
  BY <1>5, <1>6 DEF Quiet, StepsSettle, DecisionsKept, t

\* Authorizing a call stops the step or reserves the call.
LEMMA AuthorizeToolQuiet ==
    ASSUME NEW s \in Snapshot, NEW t, Bound(s), NEW ready, NEW turn \in TurnIds,
           NEW call \in ToolCall, AuthorizeTool(s, t, ready, turn, call)
    PROVE  t \in Snapshot /\ Quiet(s, t)
<1>1. PICK id \in StepIds :
        /\ Active(s, id, turn)
        /\ \/ t = Stop(s)
           \/ t = Reserve(s, id, turn, call)
  BY DEF AuthorizeTool
<1>2. QED
  BY <1>1, StopQuiet, ReserveQuiet

\* Provider records change no step.
LEMMA RecordProviderQuiet ==
    ASSUME NEW s \in Snapshot, NEW t, Bound(s), NEW ready, NEW turn \in TurnIds,
           NEW d \in Destinations, NEW auth, NEW account,
           RecordProvider(s, t, ready, turn, d, auth, account)
    PROVE  t \in Snapshot /\ Quiet(s, t)
<1> DEFINE draft == [s EXCEPT !.providers = @ \cup {[turn |-> turn, destination |-> d]}]
<1>1. /\ draft \in Snapshot /\ SameScope(s, draft) /\ draft.steps = s.steps
      /\ draft.executions = s.executions /\ draft.decisions = s.decisions
  BY DEF Snapshot, ProviderRecord, SameScope
<1>2. t = draft \/ t = Stop(s)
  BY DEF RecordProvider
<1> HIDE DEF draft
<1>3. Quiet(s, draft)
  BY <1>1 DEF Quiet, StepsSettle, DecisionsKept, Bound
<1>4. QED
  BY <1>1, <1>2, <1>3, StopQuiet

\* A destination check stops steps or records nothing.
LEMMA CheckDestinationQuiet ==
    ASSUME NEW s \in Snapshot, NEW t, Bound(s), NEW ready, NEW d \in Destinations,
           CheckDestination(s, t, ready, d)
    PROVE  t \in Snapshot /\ Quiet(s, t)
  BY StopQuiet DEF CheckDestination

\* A completion sets one outcome; an oversized one also ends its step, even a
\* step that was stopped before, which has begun since it has an execution.
LEMMA CompleteToolQuiet ==
    ASSUME NEW s \in Snapshot, NEW t, Bound(s),
           NEW i \in DOMAIN s.executions, NEW outcome \in Outcomes, NEW big \in BOOLEAN,
           CompleteTool(s, t, i, outcome, big)
    PROVE  t \in Snapshot /\ Quiet(s, t)
<1> DEFINE record == [s.executions[i] EXCEPT !.outcome = outcome]
           done == [s EXCEPT !.executions[i].outcome = outcome]
<1>1. s.executions \in Seq(ExecutionRecord) /\ s.executions[i] \in ExecutionRecord
  BY ExecutionsType DEF Snapshot
<1>2. /\ record \in ExecutionRecord
      /\ record.step = s.executions[i].step /\ record.turn = s.executions[i].turn
  BY <1>1, InputsAssumption DEF ExecutionRecord
<1>3. done = [s EXCEPT !.executions = [s.executions EXCEPT ![i] = record]]
  OBVIOUS
<1> HIDE DEF record
<1>4. [s.executions EXCEPT ![i] = record] \in Seq(ExecutionRecord)
  BY <1>1, <1>2, ExceptSeq
<1>5. /\ done \in Snapshot /\ SameScope(s, done) /\ done.steps = s.steps
      /\ done.decisions = s.decisions
      /\ done.executions = [s.executions EXCEPT ![i] = record]
  BY <1>3, <1>4 DEF Snapshot, SameScope
<1>6. t = IF big THEN Move(done, {s.executions[i].step}, "Checkpoint") ELSE done
  BY DEF CompleteTool
<1> HIDE DEF done
<1>7. Bound(done)
  BY <1>2, <1>5 DEF Bound
<1>8. Quiet(s, done)
  BY <1>5, <1>7 DEF Quiet, StepsSettle, DecisionsKept
<1>9. done.steps[s.executions[i].step].turn # None
  BY <1>5 DEF Bound
<1>10. /\ Move(done, {s.executions[i].step}, "Checkpoint") \in Snapshot
       /\ Quiet(done, Move(done, {s.executions[i].step}, "Checkpoint"))
  BY <1>5, <1>7, <1>9, MoveQuiet
<1>11. Quiet(s, Move(done, {s.executions[i].step}, "Checkpoint"))
  BY <1>8, <1>10 DEF Quiet, SameScope, StepsSettle, DecisionsKept
<1>12. QED
  BY <1>5, <1>6, <1>8, <1>10, <1>11

\* finish_step and interrupt_step end a step that has begun.
LEMMA EndStepQuiet ==
    ASSUME NEW s \in Snapshot, NEW t, Bound(s), NEW turn \in TurnIds,
           NEW state \in {"Checkpoint", "Interrupted"}, EndStep(s, t, turn, state)
    PROVE  t \in Snapshot /\ Quiet(s, t)
<1> DEFINE calls == {i \in DOMAIN s.executions : s.executions[i].turn = turn}
<1>1. PICK id \in StepIds :
        /\ s.steps[id].turn = turn
        /\ t = CloseCalls(Move(s, {id}, state), calls)
  BY DEF EndStep
<1> HIDE DEF calls
<1>2. turn # None
  BY IdentifiersAssumption
<1>3. Move(s, {id}, state) \in Snapshot /\ Quiet(s, Move(s, {id}, state))
  BY <1>1, <1>2, MoveQuiet
<1>4. /\ CloseCalls(Move(s, {id}, state), calls) \in Snapshot
      /\ Quiet(s, CloseCalls(Move(s, {id}, state), calls))
  BY <1>3, CloseCallsQuiet
<1>5. QED
  BY <1>1, <1>4

\* A finding changes no step, decision or execution.
LEMMA RecordFindingQuiet ==
    ASSUME NEW s \in Snapshot, NEW t, Bound(s),
           NEW f \in FindingIds, NEW id \in StepIds, NEW kind \in FindingKind,
           NEW cites \in SUBSET Prior(s, id), NEW sources, NEW limited \in BOOLEAN,
           RecordFinding(s, t, f, id, kind, cites, sources, limited)
    PROVE  t \in Snapshot /\ Quiet(s, t)
<1> DEFINE record == [step |-> id, kind |-> kind, cites |-> cites, limited |-> limited,
                      review |-> "Provisional"]
           draft == [s EXCEPT !.findings = [s.findings EXCEPT ![f] = record]]
<1>1. cites \subseteq Nat
  BY ExecutionsType DEF Prior
<1>2. record \in FindingRecord
  BY <1>1 DEF FindingRecord, ReviewStatus
<1>3. t = draft
  BY DEF RecordFinding
<1> HIDE DEF record
<1>4. /\ draft \in Snapshot /\ SameScope(s, draft) /\ draft.steps = s.steps
      /\ draft.executions = s.executions /\ draft.decisions = s.decisions
  BY <1>2 DEF Snapshot, SameScope
<1> HIDE DEF draft
<1>5. Quiet(s, draft)
  BY <1>4 DEF Quiet, StepsSettle, DecisionsKept, Bound
<1>6. QED
  BY <1>3, <1>4, <1>5

\* A review appends a decision about a finding.
LEMMA ReviewFindingQuiet ==
    ASSUME NEW s \in Snapshot, NEW t, Bound(s),
           NEW f \in FindingIds, NEW review \in ReviewStatus,
           ReviewFinding(s, t, f, review)
    PROVE  t \in Snapshot /\ Quiet(s, t)
<1> DEFINE record == [target |-> f, decision |-> review]
           found == [s EXCEPT !.findings = [s.findings EXCEPT ![f].review = review]]
           draft == [found EXCEPT !.decisions = Append(@, record)]
<1>1. record \in DecisionRecord
  BY DEF DecisionRecord
<1>2. s.findings \in [FindingIds -> FindingRecord \cup {None}] /\ s.findings[f] # None
  BY DEF Snapshot, ReviewFinding
<1>3. s.findings[f] \in FindingRecord
  BY <1>2
<1>4. [s.findings[f] EXCEPT !.review = review] \in FindingRecord
  BY <1>3 DEF FindingRecord
<1>5. [s.findings EXCEPT ![f].review = review] \in [FindingIds -> FindingRecord \cup {None}]
  BY <1>2, <1>4
<1>6. /\ found \in Snapshot /\ SameScope(s, found) /\ found.steps = s.steps
      /\ found.executions = s.executions /\ found.decisions = s.decisions
  BY <1>5 DEF Snapshot, SameScope
<1>7. t = draft
  BY DEF ReviewFinding, Snapshot
<1> HIDE DEF record, found
<1>8. /\ draft \in Snapshot /\ draft.steps = found.steps
      /\ draft.brief = found.brief /\ draft.confirmed = found.confirmed
      /\ draft.executions = found.executions
      /\ draft.decisions = Append(found.decisions, record)
  BY <1>1, <1>6, AppendDecision
<1> HIDE DEF draft
<1>9. record.target \in FindingIds
  BY DEF record
<1>10. DecisionsKept(s, draft)
  BY <1>1, <1>6, <1>8, <1>9, DecisionAppended DEF DecisionsKept
<1>11. Quiet(s, draft)
  BY <1>6, <1>8, <1>10 DEF Quiet, SameScope, StepsSettle, Bound
<1>12. QED
  BY <1>7, <1>8, <1>11

\* Opening the store again only interrupts steps and closes calls.
LEMMA ReopenQuiet ==
    ASSUME NEW s \in Snapshot, NEW t, Bound(s), Reopen(s, t)
    PROVE  t \in Snapshot /\ Quiet(s, t)
<1> DEFINE m == Move(s, Live(s), "Interrupted")
<1>1. m \in Snapshot /\ Quiet(s, m)
  BY MoveQuiet
<1> HIDE DEF m
<1>2. CloseCalls(m, DOMAIN s.executions) \in Snapshot /\ Quiet(s, CloseCalls(m, DOMAIN s.executions))
  BY <1>1, CloseCallsQuiet
<1>3. QED
  BY <1>2 DEF Reopen, m

\* A repair writes the files again.
LEMMA RepairExportsQuiet ==
    ASSUME NEW s \in Snapshot, NEW t, Bound(s), RepairExports(s, t)
    PROVE  t \in Snapshot /\ Quiet(s, t)
  BY SameQuiet DEF RepairExports

(***************************************************************************)
(* Every operation preserves Authority.                                     *)
(***************************************************************************)
\* A quiet change preserves all four parts.
LEMMA QuietPreserves ==
    ASSUME TypeOK, TypeOK', Authority, Quiet(ledger, ledger')
    PROVE  Authority'
<1>1. /\ SameScope(ledger, ledger') /\ StepsSettle(ledger, ledger')
      /\ DecisionsKept(ledger, ledger') /\ Bound(ledger')
  BY DEF Quiet
<1>2. \A id \in StepIds : /\ ledger.steps[id] \in StepRecord
                          /\ ledger'.steps[id] \in StepRecord
  BY StepsType DEF TypeOK
<1>3. OneLiveStep'
  BY <1>1, <1>2 DEF Authority, OneLiveStep, SameScope, StepsSettle, Live, StepsIn
<1>4. \A target, d : Decided(ledger, target, d) => Decided(ledger', target, d)
  BY <1>1 DEF DecisionsKept, Decided
<1>5. HumanGranted'
  BY <1>1, <1>2, <1>4 DEF Authority, HumanGranted, StepsSettle, Bound
<1>6. DecidedOnce'
  <2>1. \A i \in DOMAIN ledger'.decisions :
          ledger'.decisions[i].target \in StepIds
          => i \in DOMAIN ledger.decisions /\ ledger'.decisions[i] = ledger.decisions[i]
    BY <1>1, IdentifiersAssumption DEF DecisionsKept
  <2>2. StepsIn(ledger', {"Absent", "PendingApproval"}) \subseteq
            StepsIn(ledger, {"Absent", "PendingApproval"})
    BY <1>1 DEF StepsIn, StepsSettle
  <2>3. QED
    BY <2>1, <2>2 DEF Authority, DecidedOnce, StepsIn
<1>7. TurnBinding'
  BY <1>1, <1>2 DEF Authority, TurnBinding, StepsSettle, Bound
<1>8. QED
  BY <1>3, <1>5, <1>6, <1>7 DEF Authority

\* Retiring ends every proposal and approval and leaves the rest alone.
LEMMA RetireEffect ==
    ASSUME NEW s \in Snapshot
    PROVE  /\ Retire(s) \in Snapshot
           /\ Retire(s).executions = s.executions
           /\ Retire(s).decisions = s.decisions
           /\ Retire(s).brief = s.brief
           /\ \A id \in StepIds :
                /\ Retire(s).steps[id].turn = s.steps[id].turn
                /\ Retire(s).steps[id].state =
                    IF s.steps[id].state \in {"PendingApproval", "Approved"}
                    THEN "Interrupted" ELSE s.steps[id].state
<1>1. "Interrupted" \in StepStates
  BY DEF StepStates
<1>2. QED
  BY <1>1, MoveFrame, MoveSteps DEF Retire, StepsIn

\* Saving a brief retires what was open.
LEMMA SetCaseBriefEffect ==
    ASSUME NEW s \in Snapshot, NEW t, NEW brief \in Briefs, SetCaseBrief(s, t, brief)
    PROVE  /\ t.executions = s.executions /\ t.decisions = s.decisions
           /\ \A id \in StepIds : /\ t.steps[id].turn = s.steps[id].turn
                                  /\ t.steps[id].state =
                                     IF s.steps[id].state \in {"PendingApproval", "Approved"}
                                     THEN "Interrupted" ELSE s.steps[id].state
<1> DEFINE r == Retire(s)
<1>1. /\ r \in Snapshot /\ r.executions = s.executions /\ r.decisions = s.decisions
      /\ \A id \in StepIds : /\ r.steps[id].turn = s.steps[id].turn
                             /\ r.steps[id].state =
                                IF s.steps[id].state \in {"PendingApproval", "Approved"}
                                THEN "Interrupted" ELSE s.steps[id].state
  BY RetireEffect
<1>2. t = [r EXCEPT !.brief = brief, !.confirmed = FALSE]
  BY DEF SetCaseBrief
<1> HIDE DEF r
<1>3. t.steps = r.steps /\ t.executions = r.executions /\ t.decisions = r.decisions
  BY <1>1, <1>2 DEF Snapshot
<1>4. QED
  BY <1>1, <1>3

\* Saving a brief leaves no step live.
LEMMA SetCaseBriefAuthority ==
    ASSUME TypeOK, Authority, NEW brief \in Briefs, SetCaseBrief(ledger, ledger', brief)
    PROVE  Authority'
<1>1. /\ ledger'.executions = ledger.executions /\ ledger'.decisions = ledger.decisions
      /\ \A id \in StepIds : /\ ledger'.steps[id].turn = ledger.steps[id].turn
                             /\ ledger'.steps[id].state =
                                IF ledger.steps[id].state \in {"PendingApproval", "Approved"}
                                THEN "Interrupted" ELSE ledger.steps[id].state
  BY SetCaseBriefEffect DEF TypeOK
<1>2. Live(ledger') = {}
  BY <1>1 DEF SetCaseBrief, Live, RunningSteps, StepsIn
<1>3. OneLiveStep'
  BY <1>2 DEF OneLiveStep
<1>4. HumanGranted'
  BY <1>1 DEF Authority, HumanGranted, Decided
<1>5. DecidedOnce'
  BY <1>1 DEF Authority, DecidedOnce, Decided, StepsIn
<1>6. TurnBinding'
  <2>1. \A i \in DOMAIN ledger.executions : ledger.executions[i].step \in StepIds
    BY ExecutionsType DEF TypeOK, ExecutionRecord
  <2>2. QED
    BY <1>1, <2>1 DEF Authority, TurnBinding
<1>7. QED
  BY <1>3, <1>4, <1>5, <1>6 DEF Authority

\* A proposal retires what was open, and its steps are pending.
LEMMA ProposeStepsEffect ==
    ASSUME NEW s \in Snapshot, NEW t, NEW ids \in SUBSET StepIds, ProposeSteps(s, t, ids)
    PROVE  /\ t.executions = s.executions /\ t.decisions = s.decisions
           /\ \A id \in StepIds : /\ t.steps[id].turn = s.steps[id].turn
                                  /\ t.steps[id].state =
                                     IF id \in ids THEN "PendingApproval"
                                     ELSE IF s.steps[id].state \in {"PendingApproval", "Approved"}
                                          THEN "Interrupted" ELSE s.steps[id].state
<1> DEFINE r == Retire(s)
<1>1. /\ r \in Snapshot /\ r.executions = s.executions /\ r.decisions = s.decisions
      /\ \A id \in StepIds : /\ r.steps[id].turn = s.steps[id].turn
                             /\ r.steps[id].state =
                                IF s.steps[id].state \in {"PendingApproval", "Approved"}
                                THEN "Interrupted" ELSE s.steps[id].state
  BY RetireEffect
<1>2. t = Move(r, ids, "PendingApproval")
  BY DEF ProposeSteps
<1> HIDE DEF r
<1>3. /\ t.executions = r.executions /\ t.decisions = r.decisions
      /\ \A id \in StepIds : /\ t.steps[id].turn = r.steps[id].turn
                             /\ id \in ids => t.steps[id].state = "PendingApproval"
                             /\ id \notin ids => t.steps[id] = r.steps[id]
  BY <1>1, <1>2, MoveFrame, MoveSteps DEF StepStates
<1>4. QED
  BY <1>1, <1>3

\* New proposals are pending, and nothing else is.
LEMMA ProposeStepsAuthority ==
    ASSUME TypeOK, Authority, NEW ids \in SUBSET StepIds, ProposeSteps(ledger, ledger', ids)
    PROVE  Authority'
<1>1. /\ ledger'.executions = ledger.executions /\ ledger'.decisions = ledger.decisions
      /\ \A id \in StepIds :
            /\ ledger'.steps[id].turn = ledger.steps[id].turn
            /\ ledger'.steps[id].state =
                IF id \in ids THEN "PendingApproval"
                ELSE IF ledger.steps[id].state \in {"PendingApproval", "Approved"}
                     THEN "Interrupted" ELSE ledger.steps[id].state
  BY ProposeStepsEffect DEF TypeOK
<1>2. /\ RunningSteps(ledger) = {}
      /\ \A id \in ids : ledger.steps[id].state = "Absent"
  BY DEF ProposeSteps
<1>3. Live(ledger') = {}
  BY <1>1, <1>2 DEF Live, RunningSteps, StepsIn
<1>4. OneLiveStep'
  BY <1>3 DEF OneLiveStep
<1>5. HumanGranted'
  BY <1>1, <1>2 DEF Authority, HumanGranted, Decided
<1>6. DecidedOnce'
  BY <1>1, <1>2 DEF Authority, DecidedOnce, Decided, StepsIn
<1>7. TurnBinding'
  <2>1. \A i \in DOMAIN ledger.executions : ledger.executions[i].step \in StepIds
    BY ExecutionsType DEF TypeOK, ExecutionRecord
  <2>2. QED
    BY <1>1, <1>2, <2>1 DEF Authority, TurnBinding
<1>8. QED
  BY <1>4, <1>5, <1>6, <1>7 DEF Authority

\* A decision appended for a pending step is the first one about it.
LEMMA DecisionsAfterDecide ==
    ASSUME TypeOK, Authority, NEW id \in StepIds, NEW decision \in HumanDecision,
           ledger.steps[id].state = "PendingApproval",
           ledger'.decisions = Append(ledger.decisions, [target |-> id, decision |-> decision])
    PROVE  /\ \A target, d : Decided(ledger, target, d) => Decided(ledger', target, d)
           /\ Decided(ledger', id, decision)
           /\ \A target, d : Decided(ledger', target, d) => Decided(ledger, target, d) \/ target = id
           /\ \A i, j \in DOMAIN ledger'.decisions :
                /\ ledger'.decisions[i].target = ledger'.decisions[j].target
                /\ ledger'.decisions[i].target \in StepIds
                => i = j
<1> DEFINE record == [target |-> id, decision |-> decision]
<1>1. record \in DecisionRecord /\ record.target = id
  BY DEF DecisionRecord
<1>2. \A i \in DOMAIN ledger.decisions :
        /\ i \in DOMAIN ledger'.decisions
        /\ ledger'.decisions[i] = ledger.decisions[i]
  BY <1>1, DecisionAppended DEF TypeOK
<1>3. \E i \in DOMAIN ledger'.decisions : ledger'.decisions[i] = record
  BY <1>1, DecisionAppended DEF TypeOK
<1>4. \A i \in DOMAIN ledger'.decisions :
        \/ i \in DOMAIN ledger.decisions
        \/ ledger'.decisions[i] = record /\ i = Len(ledger.decisions) + 1
  BY <1>1, DecisionAppended DEF TypeOK
<1>5. \A i \in DOMAIN ledger.decisions : ledger.decisions[i].target # id
  BY DEF Authority, DecidedOnce, StepsIn
<1>6. QED
  BY <1>1, <1>2, <1>3, <1>4, <1>5 DEF Authority, DecidedOnce, Decided

\* What a decision leaves as it was, what an approval writes, and a refusal.
DecisionAdded(s, t, id, decision) ==
    /\ t.executions = s.executions /\ t.brief = s.brief
    /\ t.decisions = Append(s.decisions, [target |-> id, decision |-> decision])
    /\ \A x \in StepIds : t.steps[x].turn = s.steps[x].turn
StepApproved(s, t, id) ==
    /\ t.confirmed = TRUE
    /\ t.steps[id].state = "Approved"
    /\ \A x \in StepIds \ {id} : t.steps[x].state =
        IF s.steps[x].state \in {"PendingApproval", "Approved"}
        THEN "Interrupted" ELSE s.steps[x].state
StepRefused(s, t, id) ==
    /\ t.steps[id].state = "Rejected"
    /\ \A x \in StepIds \ {id} : t.steps[x].state = s.steps[x].state

\* An approval retires the other proposals.
LEMMA ApproveEffect ==
    ASSUME NEW s \in Snapshot, NEW t, NEW id \in StepIds,
           t = Approve(s, id)
    PROVE  DecisionAdded(s, t, id, "Approve") /\ StepApproved(s, t, id)
<1> DEFINE r == Retire(s)
           d == Decide(r, id, "Approve", "Approved")
           draft == [d EXCEPT !.confirmed = TRUE]
<1>1. /\ r \in Snapshot /\ r.executions = s.executions /\ r.decisions = s.decisions
      /\ r.brief = s.brief
  BY RetireEffect
<1>2. \A x \in StepIds : /\ r.steps[x].turn = s.steps[x].turn
                         /\ r.steps[x].state =
                             IF s.steps[x].state \in {"PendingApproval", "Approved"}
                             THEN "Interrupted" ELSE s.steps[x].state
  BY RetireEffect
<1>3. t = draft
  BY DEF Approve
<1> HIDE DEF r
<1>4. "Approved" \in StepStates /\ "Approve" \in HumanDecision
  BY DEF StepStates, HumanDecision
<1>5. /\ d \in Snapshot /\ d.steps = Move(r, {id}, "Approved").steps
      /\ d.brief = r.brief /\ d.executions = r.executions
      /\ d.decisions = Append(r.decisions, [target |-> id, decision |-> "Approve"])
  BY <1>1, <1>4, DecideEffect
<1>6. \A x \in StepIds :
        /\ Move(r, {id}, "Approved").steps[x].turn = r.steps[x].turn
        /\ x = id => Move(r, {id}, "Approved").steps[x].state = "Approved"
        /\ x # id => Move(r, {id}, "Approved").steps[x] = r.steps[x]
  BY <1>1, <1>4, MoveSteps
<1> HIDE DEF d
<1>7. /\ draft \in Snapshot /\ draft.steps = d.steps /\ draft.brief = d.brief
      /\ draft.executions = d.executions /\ draft.decisions = d.decisions
      /\ draft.confirmed = TRUE
  BY <1>5 DEF Snapshot
<1> HIDE DEF draft
<1>8. /\ t.steps = draft.steps /\ t.brief = draft.brief /\ t.executions = draft.executions
      /\ t.decisions = draft.decisions /\ t.confirmed = draft.confirmed
  BY <1>3, <1>7
<1>9. t.steps = Move(r, {id}, "Approved").steps
  BY <1>5, <1>7, <1>8
<1>10. \A x \in StepIds : t.steps[x].turn = s.steps[x].turn
  BY <1>2, <1>6, <1>9
<1>11. t.steps[id].state = "Approved"
  BY <1>6, <1>9
<1>12. \A x \in StepIds \ {id} : t.steps[x].state =
          IF s.steps[x].state \in {"PendingApproval", "Approved"}
          THEN "Interrupted" ELSE s.steps[x].state
  <2> TAKE x \in StepIds \ {id}
  <2>1. t.steps[x] = r.steps[x]
    BY <1>6, <1>9
  <2>2. QED
    BY <1>2, <2>1
<1>13. QED
  BY <1>1, <1>5, <1>7, <1>8, <1>10, <1>11, <1>12 DEF DecisionAdded, StepApproved

\* A refusal leaves the other proposals as they were.
LEMMA RejectEffect ==
    ASSUME NEW s \in Snapshot, NEW t, NEW id \in StepIds,
           t = Reject(s, id)
    PROVE  DecisionAdded(s, t, id, "Reject") /\ StepRefused(s, t, id)
<1> DEFINE d == Decide(s, id, "Reject", "Rejected")
<1>1. "Rejected" \in StepStates /\ "Reject" \in HumanDecision
  BY DEF StepStates, HumanDecision
<1>2. /\ d \in Snapshot /\ d.steps = Move(s, {id}, "Rejected").steps
      /\ d.brief = s.brief /\ d.executions = s.executions /\ d.confirmed = s.confirmed
      /\ d.decisions = Append(s.decisions, [target |-> id, decision |-> "Reject"])
  BY <1>1, DecideEffect
<1>3. \A x \in StepIds :
        /\ Move(s, {id}, "Rejected").steps[x].turn = s.steps[x].turn
        /\ x = id => Move(s, {id}, "Rejected").steps[x].state = "Rejected"
        /\ x # id => Move(s, {id}, "Rejected").steps[x] = s.steps[x]
  BY <1>1, MoveSteps
<1> HIDE DEF d
<1>4. /\ t.steps = d.steps /\ t.brief = d.brief /\ t.executions = d.executions
      /\ t.decisions = d.decisions /\ t.confirmed = d.confirmed
  BY <1>2 DEF d, Reject
<1>5. /\ \A x \in StepIds : t.steps[x].turn = s.steps[x].turn
      /\ t.steps[id].state = "Rejected"
      /\ \A x \in StepIds \ {id} : t.steps[x].state = s.steps[x].state
  BY <1>2, <1>3, <1>4
<1>6. QED
  BY <1>2, <1>4, <1>5 DEF DecisionAdded, StepRefused

\* A decision grants one step at most the right to run.
LEMMA DecideStepAuthority ==
    ASSUME TypeOK, Authority, NEW id \in StepIds,
           NEW decision \in HumanDecision, DecideStep(ledger, ledger', id, decision)
    PROVE  Authority'
<1>1. /\ ledger.brief # None /\ RunningSteps(ledger) = {}
      /\ ledger.steps[id].state = "PendingApproval"
  BY DEF DecideStep
<1>2. DecisionAdded(ledger, ledger', id, decision)
  BY ApproveEffect, RejectEffect DEF TypeOK, DecideStep
<1>3. \/ decision = "Approve" /\ StepApproved(ledger, ledger', id)
      \/ decision = "Reject" /\ StepRefused(ledger, ledger', id)
  BY ApproveEffect, RejectEffect DEF TypeOK, DecideStep
<1>4. OneLiveStep'
  <2>1. ledger.steps[id].state = "PendingApproval" => Live(ledger) = {}
    BY DEF Authority, OneLiveStep, StepsIn, Live
  <2>2. CASE decision = "Approve"
    <3>1. Live(ledger') = {id} /\ StepsIn(ledger', {"PendingApproval"}) = {}
      BY <1>1, <1>3, <2>2 DEF StepApproved, Live, StepsIn, RunningSteps
    <3>2. QED
      BY <1>1, <1>2, <1>3, <2>2, <3>1 DEF DecisionAdded, StepApproved, OneLiveStep
  <2>3. CASE decision = "Reject"
    <3>1. Live(ledger') = {}
      BY <1>1, <1>3, <2>1, <2>3 DEF StepRefused, Live, StepsIn
    <3>2. QED
      BY <3>1 DEF OneLiveStep
  <2>4. QED
    BY <2>2, <2>3 DEF HumanDecision
<1>5. /\ \A target, d : Decided(ledger, target, d) => Decided(ledger', target, d)
      /\ Decided(ledger', id, decision)
      /\ \A i, j \in DOMAIN ledger'.decisions :
            /\ ledger'.decisions[i].target = ledger'.decisions[j].target
            /\ ledger'.decisions[i].target \in StepIds
            => i = j
  BY <1>1, <1>2, DecisionsAfterDecide DEF DecisionAdded
<1>6. ledger.steps[id].turn = None
  BY <1>1 DEF Authority, TurnBinding
<1>7. HumanGranted'
  BY <1>2, <1>3, <1>5, <1>6 DEF Authority, HumanGranted, DecisionAdded, StepApproved, StepRefused
<1>8. DecidedOnce'
  <2>1. \A i \in DOMAIN ledger'.decisions :
          \/ ledger'.decisions[i].target = id
          \/ i \in DOMAIN ledger.decisions /\ ledger'.decisions[i] = ledger.decisions[i]
    <3> DEFINE record == [target |-> id, decision |-> decision]
    <3>1. record \in DecisionRecord /\ record.target = id
      BY DEF DecisionRecord
    <3> HIDE DEF record
    <3>2. QED
      BY <1>2, <3>1, DecisionAppended DEF TypeOK, record, DecisionAdded
  <2>2. StepsIn(ledger', {"Absent", "PendingApproval"}) \subseteq
            StepsIn(ledger, {"Absent", "PendingApproval"}) \ {id}
    BY <1>3 DEF StepsIn, StepApproved, StepRefused
  <2>3. QED
    BY <1>5, <2>1, <2>2 DEF Authority, DecidedOnce
<1>9. TurnBinding'
  <2>1. \A i \in DOMAIN ledger.executions : ledger.executions[i].step \in StepIds
    BY ExecutionsType DEF TypeOK, ExecutionRecord
  <2>2. QED
    BY <1>2, <1>3, <1>6, <2>1
       DEF Authority, TurnBinding, DecisionAdded, StepApproved, StepRefused
<1>10. QED
  BY <1>4, <1>7, <1>8, <1>9 DEF Authority

\* A step that begins was the approved one, and takes a fresh turn.
LEMMA BeginStepAuthority ==
    ASSUME TypeOK, Authority, NEW ready, NEW id \in StepIds, NEW turn \in TurnIds,
           BeginStep(ledger, ledger', ready, id, turn)
    PROVE  Authority'
<1>1. /\ ledger.steps[id].state = "Approved"
      /\ \A other \in StepIds : ledger.steps[other].turn # turn
  BY DEF BeginStep, MayBegin, TurnIsNew
<1>2. /\ ledger'.steps = [ledger.steps EXCEPT ![id] = [state |-> "Running", turn |-> turn]]
      /\ ledger'.brief = ledger.brief /\ ledger'.confirmed = ledger.confirmed
      /\ ledger'.executions = ledger.executions /\ ledger'.decisions = ledger.decisions
  BY BeginStepEffect DEF TypeOK
<1>3. /\ \A x \in StepIds \ {id} : ledger'.steps[x] = ledger.steps[x]
      /\ ledger'.steps[id].state = "Running" /\ ledger'.steps[id].turn = turn
  BY <1>2 DEF TypeOK, Snapshot
<1>4. turn # None
  BY IdentifiersAssumption
<1>5. OneLiveStep'
  BY <1>1, <1>2, <1>3 DEF Authority, OneLiveStep, Live, StepsIn
<1>6. HumanGranted'
  BY <1>1, <1>2, <1>3 DEF Authority, HumanGranted, Decided
<1>7. DecidedOnce'
  BY <1>1, <1>2, <1>3 DEF Authority, DecidedOnce, StepsIn
<1>8. TurnBinding'
  <2>1. \A i \in DOMAIN ledger.executions :
          ledger.executions[i].step \in StepIds /\ ledger.executions[i].step # id
    <3>1. ledger.steps[id].turn = None
      BY <1>1 DEF Authority, TurnBinding
    <3>2. QED
      BY <3>1, ExecutionsType DEF Authority, TurnBinding, TypeOK, ExecutionRecord
  <2>2. QED
    BY <1>1, <1>2, <1>3, <1>4, <2>1 DEF Authority, TurnBinding
<1>9. QED
  BY <1>5, <1>6, <1>7, <1>8 DEF Authority

(***************************************************************************)
(* The theorems.                                                            *)
(***************************************************************************)
\* Every step of the ledger is one of the four that change authority, or quiet.
LEMMA StepCases ==
    ASSUME NEW s \in Snapshot, Bound(s), NEW t, NEW ready, Transition(s, t, ready)
    PROVE  /\ t \in Snapshot
           /\ \/ \E brief \in Briefs : SetCaseBrief(s, t, brief)
              \/ \E ids \in SUBSET StepIds : ProposeSteps(s, t, ids)
              \/ \E id \in StepIds, d \in HumanDecision : DecideStep(s, t, id, d)
              \/ \E id \in StepIds, turn \in TurnIds : BeginStep(s, t, ready, id, turn)
              \/ Quiet(s, t)
<1>1. CASE InvestigatorStep(s, t)
  BY <1>1, SetCaseBriefType, ProposeStepsType, DecideStepType, ReviewFindingQuiet
     DEF InvestigatorStep
<1>2. CASE ExecutionStep(s, t, ready)
  <2>1. CASE \E id \in StepIds, turn \in TurnIds : BeginStep(s, t, ready, id, turn)
    BY <2>1, BeginStepEffect
  <2>2. CASE \E turn \in TurnIds, call \in ToolCall : AuthorizeTool(s, t, ready, turn, call)
    BY <2>2, AuthorizeToolQuiet
  <2>3. CASE \E turn \in TurnIds, d \in Destinations :
               \E auth \in {d.auth, ANY}, account \in {d.account, ANY} :
                   RecordProvider(s, t, ready, turn, d, auth, account)
    BY <2>3, RecordProviderQuiet
  <2>4. CASE \E d \in Destinations : CheckDestination(s, t, ready, d)
    BY <2>4, CheckDestinationQuiet
  <2>5. CASE \E i \in DOMAIN s.executions, o \in Outcomes, big \in BOOLEAN :
               CompleteTool(s, t, i, o, big)
    BY <2>5, CompleteToolQuiet
  <2>6. CASE \E turn \in TurnIds, state \in {"Checkpoint", "Interrupted"} :
               EndStep(s, t, turn, state)
    BY <2>6, EndStepQuiet
  <2>7. QED
    BY <1>2, <2>1, <2>2, <2>3, <2>4, <2>5, <2>6 DEF ExecutionStep
<1>3. CASE FindingStep(s, t)
  BY <1>3, RecordFindingQuiet DEF FindingStep
<1>4. CASE RecoveryStep(s, t)
  BY <1>4, ReopenQuiet, RepairExportsQuiet DEF RecoveryStep
<1>5. QED
  BY <1>1, <1>2, <1>3, <1>4 DEF Transition

\* A live step keeps its brief, and a retired one stays retired, in every change.
Retired == {"Checkpoint", "Rejected", "Interrupted"}
Settled(s, t) ==
    /\ \A id \in Live(s) \cap Live(t) : t.brief = s.brief /\ t.confirmed
    /\ \A id \in StepIds : s.steps[id].state \in Retired => t.steps[id].state \in Retired

\* A brief change and a proposal leave no step live and no retired step revived.
LEMMA NewScopeSettled ==
    ASSUME TypeOK,
           \/ \E brief \in Briefs : SetCaseBrief(ledger, ledger', brief)
           \/ \E ids \in SUBSET StepIds : ProposeSteps(ledger, ledger', ids)
    PROVE  Settled(ledger, ledger')
<1>1. CASE \E brief \in Briefs : SetCaseBrief(ledger, ledger', brief)
  <2>1. PICK brief \in Briefs : SetCaseBrief(ledger, ledger', brief)
    BY <1>1
  <2>2. \A id \in StepIds : ledger'.steps[id].state =
            IF ledger.steps[id].state \in {"PendingApproval", "Approved"}
            THEN "Interrupted" ELSE ledger.steps[id].state
    BY <2>1, SetCaseBriefEffect DEF TypeOK
  <2>3. RunningSteps(ledger) = {}
    BY <2>1 DEF SetCaseBrief
  <2>4. QED
    BY <2>2, <2>3 DEF Settled, Live, RunningSteps, StepsIn, Retired
<1>2. CASE \E ids \in SUBSET StepIds : ProposeSteps(ledger, ledger', ids)
  <2>1. PICK ids \in SUBSET StepIds : ProposeSteps(ledger, ledger', ids)
    BY <1>2
  <2>2. \A id \in StepIds : ledger'.steps[id].state =
            IF id \in ids THEN "PendingApproval"
            ELSE IF ledger.steps[id].state \in {"PendingApproval", "Approved"}
                 THEN "Interrupted" ELSE ledger.steps[id].state
    BY <2>1, ProposeStepsEffect DEF TypeOK
  <2>3. RunningSteps(ledger) = {} /\ \A id \in ids : ledger.steps[id].state = "Absent"
    BY <2>1 DEF ProposeSteps
  <2>4. QED
    BY <2>2, <2>3 DEF Settled, Live, RunningSteps, StepsIn, Retired
<1>3. QED
  BY <1>1, <1>2

\* A decision is about a pending step, while none is live.
LEMMA DecisionSettled ==
    ASSUME TypeOK, Authority, NEW id \in StepIds, NEW decision \in HumanDecision,
           DecideStep(ledger, ledger', id, decision)
    PROVE  Settled(ledger, ledger')
<1>1. ledger.steps[id].state = "PendingApproval"
  BY DEF DecideStep
<1>2. Live(ledger) = {}
  BY <1>1 DEF Authority, OneLiveStep, StepsIn, Live
<1>3. \/ StepApproved(ledger, ledger', id)
      \/ StepRefused(ledger, ledger', id)
  BY ApproveEffect, RejectEffect DEF TypeOK, DecideStep
<1>4. QED
  BY <1>1, <1>2, <1>3 DEF Settled, StepApproved, StepRefused, Retired

\* The start of a step keeps the scope.
LEMMA BeginStepSettled ==
    ASSUME TypeOK, NEW ready, NEW id \in StepIds, NEW turn \in TurnIds,
           BeginStep(ledger, ledger', ready, id, turn)
    PROVE  Settled(ledger, ledger')
<1>1. /\ ledger'.steps = [ledger.steps EXCEPT ![id] = [state |-> "Running", turn |-> turn]]
      /\ ledger'.brief = ledger.brief /\ ledger'.confirmed = ledger.confirmed
  BY BeginStepEffect DEF TypeOK
<1>2. ledger.steps[id].state = "Approved" /\ ledger.confirmed
  BY DEF BeginStep, MayBegin
<1>3. \A x \in StepIds \ {id} : ledger'.steps[x] = ledger.steps[x]
  BY <1>1 DEF TypeOK, Snapshot
<1>4. QED
  BY <1>1, <1>2, <1>3 DEF Settled, Retired

\* Every quiet change keeps the scope.
LEMMA QuietSettled ==
    ASSUME Authority, Quiet(ledger, ledger')
    PROVE  Settled(ledger, ledger')
<1>1. \A id \in Live(ledger) : ledger.confirmed
  BY DEF Authority, OneLiveStep
<1>2. QED
  BY <1>1 DEF Settled, Quiet, SameScope, StepsSettle, Retired

\* A new ledger is well typed and grants nothing.
LEMMA InitAuthority == Init => TypeOK /\ Authority
<1> SUFFICES ASSUME ledger = Empty, exported \in BOOLEAN
             PROVE  TypeOK /\ Authority
  BY DEF Init
<1>1. TypeOK
  BY EmptySeq DEF TypeOK, Empty, Snapshot, StepRecord, ExecutionRecord, DecisionRecord
<1>2. /\ \A id \in StepIds : ledger.steps[id] = [state |-> "Absent", turn |-> None]
      /\ ledger.executions = <<>> /\ ledger.decisions = <<>>
  BY DEF Empty
<1>3. OneLiveStep /\ HumanGranted
  BY <1>2 DEF OneLiveStep, HumanGranted, Live, StepsIn
<1>4. DecidedOnce /\ TurnBinding
  BY <1>2 DEF DecidedOnce, TurnBinding
<1>5. QED
  BY <1>1, <1>3, <1>4 DEF Authority

\* Authority binds executions and checkpoints to turns.
LEMMA AuthorityBound ==
    ASSUME TypeOK, Authority
    PROVE  Bound(ledger)
  BY DEF Authority, TurnBinding, Bound

\* The ledger stays well typed and Authority stays true in every step.
LEMMA NextAuthority ==
    ASSUME TypeOK, Authority, [Next]_vars
    PROVE  TypeOK' /\ Authority'
<1>1. CASE UNCHANGED vars
  BY <1>1 DEF vars, TypeOK, Authority, OneLiveStep, HumanGranted, DecidedOnce, TurnBinding
<1>2. ASSUME Next
      PROVE  TypeOK' /\ Authority'
  <2> USE <1>2 DEF Next
  <2>1. TypeOK'
    BY <1>2, StepCases, AuthorityBound DEF TypeOK
  <2>2. ASSUME NEW brief \in Briefs, SetCaseBrief(ledger, ledger', brief)
        PROVE  Authority'
    BY <2>2, SetCaseBriefAuthority
  <2>3. ASSUME NEW ids \in SUBSET StepIds, ProposeSteps(ledger, ledger', ids)
        PROVE  Authority'
    BY <2>3, ProposeStepsAuthority
  <2>4. ASSUME NEW id \in StepIds, NEW d \in HumanDecision,
               DecideStep(ledger, ledger', id, d)
        PROVE  Authority'
    BY <2>4, DecideStepAuthority
  <2>5. ASSUME NEW id \in StepIds, NEW turn \in TurnIds,
               BeginStep(ledger, ledger', exported, id, turn)
        PROVE  Authority'
    BY <2>5, BeginStepAuthority
  <2>6. CASE Quiet(ledger, ledger')
    BY <2>1, <2>6, QuietPreserves
  <2>7. QED
    BY <1>2, <2>1, <2>2, <2>3, <2>4, <2>5, <2>6, StepCases, AuthorityBound DEF TypeOK
<1>3. QED
  BY <1>1, <1>2

\* The ledger always is a well-typed snapshot.
THEOREM TypeCorrect == Spec => []TypeOK
<1>1. QED
  BY InitAuthority, NextAuthority, PTL DEF Spec

\* Authority over execution is never split, never taken without a human
\* decision, never decided twice, and bound to one turn per step.
THEOREM AuthorityHolds == Spec => []Authority
<1>1. QED
  BY InitAuthority, NextAuthority, PTL DEF Spec

\* At most one step is approved or running, under a confirmed brief and with no
\* other proposal waiting.
THEOREM OneLiveStepHolds == Spec => []OneLiveStep
<1>1. Authority => OneLiveStep
  BY DEF Authority
<1>2. QED
  BY <1>1, AuthorityHolds, PTL

\* No step runs or has run without an Approve in the decision log.
THEOREM HumanGrantedHolds == Spec => []HumanGranted
<1>1. Authority => HumanGranted
  BY DEF Authority
<1>2. QED
  BY <1>1, AuthorityHolds, PTL

\* A proposal is decided at most once.
THEOREM DecidedOnceHolds == Spec => []DecidedOnce
<1>1. Authority => DecidedOnce
  BY DEF Authority
<1>2. QED
  BY <1>1, AuthorityHolds, PTL

\* A turn runs one step, and every execution belongs to its step's turn.
THEOREM TurnBindingHolds == Spec => []TurnBinding
<1>1. Authority => TurnBinding
  BY DEF Authority
<1>2. QED
  BY <1>1, AuthorityHolds, PTL

\* Every step settles: the scope of a live step is kept, retirement is final.
LEMMA NextSettled ==
    ASSUME TypeOK, Authority, [Next]_vars
    PROVE  Settled(ledger, ledger')
<1>1. CASE UNCHANGED vars
  BY <1>1 DEF vars, Settled, Authority, OneLiveStep
<1>2. CASE Next
  BY <1>2, StepCases, AuthorityBound, NewScopeSettled, DecisionSettled,
     BeginStepSettled, QuietSettled
     DEF Next, TypeOK
<1>3. QED
  BY <1>1, <1>2

\* While a step is approved or running its brief is neither replaced nor
\* unconfirmed, whatever is saved, proposed or reopened.
THEOREM ScopeFrozenHolds == Spec => ScopeFrozen
<1>1. TypeOK /\ Authority /\ [Next]_vars
      => [\A id \in StepIds : id \in Live(ledger) /\ id \in Live(ledger')
            => ledger'.brief = ledger.brief /\ ledger'.confirmed]_vars
  BY NextSettled DEF Settled
<1>2. QED
  BY <1>1, TypeCorrect, AuthorityHolds, PTL DEF Spec, ScopeFrozen

\* A stopped, rejected or ended step is never pending, approved or running again.
THEOREM RetiredForGoodHolds == Spec => RetiredForGood
<1>1. TypeOK /\ Authority /\ [Next]_vars
      => [\A id \in StepIds :
            ledger.steps[id].state \in {"Checkpoint", "Rejected", "Interrupted"}
            => ledger'.steps[id].state \in {"Checkpoint", "Rejected", "Interrupted"}]_vars
  BY NextSettled DEF Settled, Retired
<1>2. QED
  BY <1>1, TypeCorrect, AuthorityHolds, PTL DEF Spec, RetiredForGood

-----------------------------------------------------------------------------
(***************************************************************************)
(* What the ledger has recorded: outcomes, budgets, prerequisites and       *)
(* findings.  The typing and the authority proved above are cited.          *)
(***************************************************************************)

(***************************************************************************)
(* How a ledger grows: an execution is continued, never rewritten.          *)
(***************************************************************************)
Continued(e, f) ==
    /\ f.step = e.step /\ f.turn = e.turn /\ f.tool = e.tool /\ f.evidence = e.evidence
    /\ e.outcome # None => f = e

Extended(s, t) ==
    /\ Len(s.executions) <= Len(t.executions)
    /\ \A i \in DOMAIN s.executions : Continued(s.executions[i], t.executions[i])

DecisionsGrow(s, t) ==
    \A i \in DOMAIN s.decisions : i \in DOMAIN t.decisions /\ t.decisions[i] = s.decisions[i]

\* The same executions, some of them finished, and the same findings.
Kept(s, t) == Extended(s, t) /\ Len(t.executions) = Len(s.executions)
Advanced(s, t) == Kept(s, t) /\ t.findings = s.findings /\ DecisionsGrow(s, t)

\* The call that authorize_tool reserves, with all that it has checked.
Reservation(s, t, id, call) ==
    /\ call.tool \in Plan[id].tools
    /\ InScope(Plan[id], call)
    /\ WithinLimits(s, id, call.tool)
    /\ NeedsMet(s, id, call.tool)
    /\ \E turn \in TurnIds : t = Reserve(s, id, turn, call)

\* Equal executions are kept.
LEMMA SameExecutions ==
    ASSUME NEW s \in Snapshot, NEW t, t.executions = s.executions
    PROVE  Kept(s, t)
<1>1. Len(s.executions) \in Nat
  BY ExecutionsType
<1>2. QED
  BY <1>1 DEF Kept, Extended, Continued

\* Two advances make one.
LEMMA AdvancedTwice ==
    ASSUME NEW s \in Snapshot, NEW m \in Snapshot, NEW t \in Snapshot,
           Advanced(s, m), Advanced(m, t)
    PROVE  Advanced(s, t)
<1>1. /\ DOMAIN s.executions = 1..Len(s.executions)
      /\ DOMAIN m.executions = 1..Len(m.executions)
      /\ Len(s.executions) = Len(m.executions) /\ Len(m.executions) = Len(t.executions)
      /\ Len(s.executions) \in Nat
  BY ExecutionsType DEF Advanced, Kept
<1>2. \A i \in DOMAIN s.executions : /\ Continued(s.executions[i], m.executions[i])
                                     /\ Continued(m.executions[i], t.executions[i])
  BY <1>1 DEF Advanced, Kept, Extended
<1>3. \A i \in DOMAIN s.executions : Continued(s.executions[i], t.executions[i])
  BY <1>2 DEF Continued
<1>4. QED
  BY <1>1, <1>3 DEF Advanced, Kept, Extended, DecisionsGrow

\* Moving steps leaves the rest of the ledger alone.
LEMMA MoveAdvances ==
    ASSUME NEW s \in Snapshot, NEW ids, NEW state \in StepStates
    PROVE  Move(s, ids, state) \in Snapshot /\ Advanced(s, Move(s, ids, state))
  BY MoveFrame, SameExecutions DEF Advanced, DecisionsGrow

\* Closing calls finishes those that have no outcome.
LEMMA CloseCallsAdvances ==
    ASSUME NEW s \in Snapshot, NEW calls
    PROVE  CloseCalls(s, calls) \in Snapshot /\ Advanced(s, CloseCalls(s, calls))
<1> DEFINE c == CloseCalls(s, calls)
<1>1. /\ c \in Snapshot /\ c.decisions = s.decisions /\ c.findings = s.findings
      /\ Len(c.executions) = Len(s.executions)
      /\ \A i \in DOMAIN s.executions : c.executions[i] =
            IF i \in calls /\ s.executions[i].outcome = None
            THEN [s.executions[i] EXCEPT !.outcome = Lost] ELSE s.executions[i]
  BY CloseCallsEffect
<1> HIDE DEF c
<1>2. \A i \in DOMAIN s.executions : Continued(s.executions[i], c.executions[i])
  BY <1>1, ExecutionsType DEF Continued, ExecutionRecord
<1>3. QED
  BY <1>1, <1>2, ExecutionsType DEF Advanced, Kept, Extended, DecisionsGrow, c

(***************************************************************************)
(* Which operations do what to the record.                                  *)
(***************************************************************************)
\* Saving a brief records no call and no finding.
LEMMA SetCaseBriefAdvances ==
    ASSUME NEW s \in Snapshot, NEW t, NEW brief \in Briefs, SetCaseBrief(s, t, brief)
    PROVE  Advanced(s, t)
<1> DEFINE r == Retire(s)
<1>1. r \in Snapshot /\ r.executions = s.executions /\ r.decisions = s.decisions
  BY RetireEffect
<1>2. r.findings = s.findings
  BY MoveFrame DEF Retire, StepStates
<1>3. t = [r EXCEPT !.brief = brief, !.confirmed = FALSE]
  BY DEF SetCaseBrief
<1> HIDE DEF r
<1>4. t.executions = r.executions /\ t.decisions = r.decisions /\ t.findings = r.findings
  BY <1>1, <1>3 DEF Snapshot
<1>5. QED
  BY <1>1, <1>2, <1>4, SameExecutions DEF Advanced, DecisionsGrow

\* A proposal records no call and no finding.
LEMMA ProposeStepsAdvances ==
    ASSUME NEW s \in Snapshot, NEW t, NEW ids \in SUBSET StepIds, ProposeSteps(s, t, ids)
    PROVE  Advanced(s, t)
<1>1. Retire(s) \in Snapshot /\ Advanced(s, Retire(s))
  BY MoveAdvances DEF Retire, StepStates
<1>2. /\ Move(Retire(s), ids, "PendingApproval") \in Snapshot
      /\ Advanced(Retire(s), Move(Retire(s), ids, "PendingApproval"))
  BY <1>1, MoveAdvances DEF StepStates
<1>3. t = Move(Retire(s), ids, "PendingApproval")
  BY DEF ProposeSteps
<1>4. QED
  BY <1>1, <1>2, <1>3, AdvancedTwice

\* A decision appends to the decision log only.
LEMMA DecideAdvances ==
    ASSUME NEW s \in Snapshot, NEW id \in StepIds, NEW decision \in HumanDecision,
           NEW state \in StepStates
    PROVE  /\ Decide(s, id, decision, state) \in Snapshot
           /\ Advanced(s, Decide(s, id, decision, state))
<1> DEFINE record == [target |-> id, decision |-> decision]
           m == Move(s, {id}, state)
           d == Decide(s, id, decision, state)
<1>1. record \in DecisionRecord
  BY DEF DecisionRecord
<1>2. /\ m \in Snapshot /\ m.findings = s.findings
      /\ m.executions = s.executions /\ m.decisions = s.decisions
  BY MoveFrame
<1>3. d = [m EXCEPT !.decisions = Append(@, record)]
  BY DEF Decide
<1> HIDE DEF record, m, d
<1>4. /\ d \in Snapshot /\ d.executions = m.executions
      /\ d.decisions = Append(m.decisions, record)
  BY <1>1, <1>2, <1>3, AppendDecision
<1>5. d.findings = m.findings
  BY <1>2, <1>3 DEF Snapshot
<1>6. DecisionsGrow(s, d)
  BY <1>1, <1>2, <1>4, DecisionAppended DEF DecisionsGrow
<1>7. QED
  BY <1>2, <1>4, <1>5, <1>6, SameExecutions DEF Advanced, d

\* Neither decision about a step touches the executions or the findings.
LEMMA DecideStepAdvances ==
    ASSUME NEW s \in Snapshot, NEW t, NEW id \in StepIds, NEW decision \in HumanDecision,
           DecideStep(s, t, id, decision)
    PROVE  Advanced(s, t)
<1>1. /\ {"Approved", "Rejected", "Interrupted"} \subseteq StepStates
      /\ "Approve" \in HumanDecision /\ "Reject" \in HumanDecision
  BY DEF StepStates, HumanDecision
<1>2. CASE t = Reject(s, id)
  BY <1>1, <1>2, DecideAdvances DEF Reject
<1>3. CASE t = Approve(s, id)
  <2> DEFINE r == Retire(s)
             d == Decide(r, id, "Approve", "Approved")
  <2>1. r \in Snapshot /\ Advanced(s, r)
    BY <1>1, MoveAdvances DEF Retire
  <2> HIDE DEF r
  <2>2. d \in Snapshot /\ Advanced(r, d)
    BY <1>1, <2>1, DecideAdvances
  <2>3. Advanced(s, d)
    BY <2>1, <2>2, AdvancedTwice
  <2>4. t = [d EXCEPT !.confirmed = TRUE]
    BY <1>3 DEF Approve, r
  <2> HIDE DEF d
  <2>5. t.executions = d.executions /\ t.decisions = d.decisions /\ t.findings = d.findings
    BY <2>2, <2>4 DEF Snapshot
  <2>6. QED
    BY <2>3, <2>5 DEF Advanced, Kept, Extended, DecisionsGrow
<1>4. QED
  BY <1>2, <1>3 DEF DecideStep

\* The start of a step records no call and no finding.
LEMMA BeginStepAdvances ==
    ASSUME NEW s \in Snapshot, NEW t, NEW ready, NEW id \in StepIds,
           NEW turn \in TurnIds, BeginStep(s, t, ready, id, turn)
    PROVE  Advanced(s, t)
<1>1. t.executions = s.executions /\ t.decisions = s.decisions /\ t.findings = s.findings
  BY DEF BeginStep, Snapshot
<1>2. QED
  BY <1>1, SameExecutions DEF Advanced, DecisionsGrow

\* stop_running_steps leaves the record alone.
LEMMA StopAdvances ==
    ASSUME NEW s \in Snapshot
    PROVE  Advanced(s, Stop(s))
  BY MoveAdvances DEF Stop, StepStates

\* A provider record is neither a call nor a finding.
LEMMA RecordProviderAdvances ==
    ASSUME NEW s \in Snapshot, NEW t, NEW ready, NEW turn, NEW d, NEW auth, NEW account,
           RecordProvider(s, t, ready, turn, d, auth, account)
    PROVE  Advanced(s, t)
<1>1. CASE t = Stop(s)
  BY <1>1, StopAdvances
<1>2. CASE t = [s EXCEPT !.providers = @ \cup {[turn |-> turn, destination |-> d]}]
  <2>1. t.executions = s.executions /\ t.decisions = s.decisions /\ t.findings = s.findings
    BY <1>2 DEF Snapshot
  <2>2. QED
    BY <2>1, SameExecutions DEF Advanced, DecisionsGrow
<1>3. QED
  BY <1>1, <1>2 DEF RecordProvider

\* A completion gives an unfinished call its outcome.
LEMMA CompleteToolAdvances ==
    ASSUME NEW s \in Snapshot, NEW t, NEW i \in DOMAIN s.executions,
           NEW outcome \in Outcomes, NEW big \in BOOLEAN, CompleteTool(s, t, i, outcome, big)
    PROVE  Advanced(s, t)
<1> DEFINE record == [s.executions[i] EXCEPT !.outcome = outcome]
           done == [s EXCEPT !.executions[i].outcome = outcome]
<1>1. s.executions \in Seq(ExecutionRecord) /\ s.executions[i] \in ExecutionRecord
  BY ExecutionsType DEF Snapshot
<1>2. record \in ExecutionRecord
  BY <1>1, InputsAssumption DEF ExecutionRecord
<1>3. Continued(s.executions[i], record)
  BY <1>1 DEF Continued, ExecutionRecord, CompleteTool
<1>4. done = [s EXCEPT !.executions = [s.executions EXCEPT ![i] = record]]
  OBVIOUS
<1> HIDE DEF record
<1>5. [s.executions EXCEPT ![i] = record] \in Seq(ExecutionRecord)
  BY <1>1, <1>2, ExceptSeq
<1>6. /\ done \in Snapshot /\ done.findings = s.findings /\ done.decisions = s.decisions
      /\ done.executions = [s.executions EXCEPT ![i] = record]
  BY <1>4, <1>5 DEF Snapshot
<1>7. t = IF big THEN Move(done, {s.executions[i].step}, "Checkpoint") ELSE done
  BY DEF CompleteTool
<1> HIDE DEF done
<1>8. Len(done.executions) = Len(s.executions) /\ Len(s.executions) \in Nat
  BY <1>1, <1>6, ExceptSeq, ExecutionsType
<1>9. \A j \in DOMAIN s.executions : Continued(s.executions[j], done.executions[j])
  BY <1>3, <1>6 DEF Continued
<1>10. Advanced(s, done)
  BY <1>6, <1>8, <1>9 DEF Advanced, Kept, Extended, DecisionsGrow
<1>11. /\ Move(done, {s.executions[i].step}, "Checkpoint") \in Snapshot
       /\ Advanced(done, Move(done, {s.executions[i].step}, "Checkpoint"))
  BY <1>6, MoveAdvances DEF StepStates
<1>12. QED
  BY <1>6, <1>7, <1>10, <1>11, AdvancedTwice

\* Ending a step closes its calls.
LEMMA EndStepAdvances ==
    ASSUME NEW s \in Snapshot, NEW t, NEW turn \in TurnIds,
           NEW state \in {"Checkpoint", "Interrupted"}, EndStep(s, t, turn, state)
    PROVE  Advanced(s, t)
<1> DEFINE calls == {i \in DOMAIN s.executions : s.executions[i].turn = turn}
<1>1. PICK id \in StepIds : t = CloseCalls(Move(s, {id}, state), calls)
  BY DEF EndStep
<1> HIDE DEF calls
<1>2. Move(s, {id}, state) \in Snapshot /\ Advanced(s, Move(s, {id}, state))
  BY MoveAdvances DEF StepStates
<1>3. QED
  BY <1>1, <1>2, CloseCallsAdvances, AdvancedTwice

\* Opening a store again closes calls.
LEMMA ReopenAdvances ==
    ASSUME NEW s \in Snapshot, NEW t, Reopen(s, t)
    PROVE  Advanced(s, t)
<1>1. Move(s, Live(s), "Interrupted") \in Snapshot /\ Advanced(s, Move(s, Live(s), "Interrupted"))
  BY MoveAdvances DEF StepStates
<1>2. t = CloseCalls(Move(s, Live(s), "Interrupted"), DOMAIN s.executions)
  BY DEF Reopen
<1>3. QED
  BY <1>1, <1>2, CloseCallsAdvances, AdvancedTwice

\* Authorizing a call reserves it with its conditions met, or stops the step.
LEMMA AuthorizeToolCases ==
    ASSUME NEW s \in Snapshot, NEW t, NEW ready, NEW turn \in TurnIds, NEW call \in ToolCall,
           AuthorizeTool(s, t, ready, turn, call)
    PROVE  \/ Advanced(s, t)
           \/ ready /\ \E id \in StepIds : Reservation(s, t, id, call)
  BY StopAdvances DEF AuthorizeTool, Reservation

\* Every step advances the record, reserves one call, or is about a finding.
LEMMA LedgerCases ==
    ASSUME NEW s \in Snapshot, NEW t, NEW ready, Transition(s, t, ready)
    PROVE  \/ Advanced(s, t)
           \/ ready /\ \E id \in StepIds, call \in ToolCall : Reservation(s, t, id, call)
           \/ FindingStep(s, t)
           \/ \E f \in FindingIds, review \in ReviewStatus : ReviewFinding(s, t, f, review)
<1>1. CASE InvestigatorStep(s, t)
  BY <1>1, SetCaseBriefAdvances, ProposeStepsAdvances, DecideStepAdvances DEF InvestigatorStep
<1>2. CASE ExecutionStep(s, t, ready)
  <2>1. CASE \E id \in StepIds, turn \in TurnIds : BeginStep(s, t, ready, id, turn)
    BY <2>1, BeginStepAdvances
  <2>2. CASE \E turn \in TurnIds, call \in ToolCall : AuthorizeTool(s, t, ready, turn, call)
    BY <2>2, AuthorizeToolCases
  <2>3. CASE \E turn \in TurnIds, d \in Destinations :
               \E auth \in {d.auth, ANY}, account \in {d.account, ANY} :
                   RecordProvider(s, t, ready, turn, d, auth, account)
    BY <2>3, RecordProviderAdvances
  <2>4. CASE \E d \in Destinations : CheckDestination(s, t, ready, d)
    BY <2>4, StopAdvances DEF CheckDestination
  <2>5. CASE \E i \in DOMAIN s.executions, o \in Outcomes, big \in BOOLEAN :
               CompleteTool(s, t, i, o, big)
    BY <2>5, CompleteToolAdvances
  <2>6. CASE \E turn \in TurnIds, state \in {"Checkpoint", "Interrupted"} :
               EndStep(s, t, turn, state)
    BY <2>6, EndStepAdvances
  <2>7. QED
    BY <1>2, <2>1, <2>2, <2>3, <2>4, <2>5, <2>6 DEF ExecutionStep
<1>3. CASE FindingStep(s, t)
  BY <1>3
<1>4. CASE RecoveryStep(s, t)
  <2>1. Advanced(s, s)
    BY SameExecutions DEF Advanced, DecisionsGrow
  <2>2. QED
    BY <1>4, <2>1, ReopenAdvances DEF RecoveryStep, RepairExports
<1>5. QED
  BY <1>1, <1>2, <1>3, <1>4 DEF Transition

\* Where the next call is recorded.
Position(s) == Len(s.executions) + 1

Appended(s, t, id, call) ==
    /\ Extended(s, t) /\ t.findings = s.findings /\ DecisionsGrow(s, t)
    /\ t.steps = s.steps
    /\ Position(s) \notin DOMAIN s.executions
    /\ \A i \in DOMAIN s.executions : i < Position(s)
    /\ DOMAIN t.executions = DOMAIN s.executions \cup {Position(s)}
    /\ \A i \in DOMAIN s.executions : t.executions[i] = s.executions[i]
    /\ t.executions[Position(s)].step = id
    /\ t.executions[Position(s)].tool = call.tool
    /\ t.executions[Position(s)].evidence = call.evidence
    /\ t.executions[Position(s)].outcome = None

\* A reservation appends one unfinished call and nothing else.
LEMMA ReservationEffect ==
    ASSUME NEW s \in Snapshot, NEW t, NEW id \in StepIds, NEW call \in ToolCall,
           Reservation(s, t, id, call)
    PROVE  Appended(s, t, id, call)
<1>1. PICK turn \in TurnIds : t = Reserve(s, id, turn, call)
  BY DEF Reservation
<1> DEFINE record == [step |-> id, turn |-> turn, tool |-> call.tool, evidence |-> call.evidence,
                      destination |-> call.destination, outcome |-> None]
<1>2. /\ record \in ExecutionRecord /\ record.step = id /\ record.tool = call.tool
      /\ record.evidence = call.evidence /\ record.outcome = None
  BY DEF ExecutionRecord, ToolCall
<1>3. t = [s EXCEPT !.executions = Append(s.executions, record)]
  BY <1>1 DEF Reserve
<1>4. s.executions \in Seq(ExecutionRecord)
  BY DEF Snapshot
<1> HIDE DEF record
<1>5. /\ t.executions = Append(s.executions, record) /\ t.findings = s.findings
      /\ t.decisions = s.decisions /\ t.steps = s.steps
  BY <1>3 DEF Snapshot
<1>6. /\ t.executions \in Seq(ExecutionRecord)
      /\ Len(t.executions) = Len(s.executions) + 1
      /\ \A i \in 1..Len(s.executions) : t.executions[i] = s.executions[i]
      /\ t.executions[Len(s.executions) + 1] = record
  BY <1>2, <1>4, <1>5, AppendProperties
<1>7. DOMAIN t.executions = 1..Len(s.executions) + 1
  BY <1>6, LenProperties
<1>8. /\ Position(s) \notin DOMAIN s.executions
      /\ \A i \in DOMAIN s.executions : i < Position(s)
      /\ DOMAIN t.executions = DOMAIN s.executions \cup {Position(s)}
  BY <1>7, ExecutionsType DEF Position
<1>9. \A i \in DOMAIN s.executions : t.executions[i] = s.executions[i]
  BY <1>6, ExecutionsType
<1>10. Extended(s, t)
  BY <1>6, <1>9, ExecutionsType DEF Extended, Continued
<1>11. DecisionsGrow(s, t)
  BY <1>5 DEF DecisionsGrow
<1>12. QED
  BY <1>2, <1>5, <1>6, <1>8, <1>9, <1>10, <1>11 DEF Appended, Position

\* What a step about findings leaves alone.
LEMMA FindingsEffect ==
    ASSUME NEW s \in Snapshot, NEW t,
           \/ FindingStep(s, t)
           \/ \E f \in FindingIds, review \in ReviewStatus : ReviewFinding(s, t, f, review)
    PROVE  Kept(s, t) /\ DecisionsGrow(s, t) /\ t.steps = s.steps
<1>1. CASE FindingStep(s, t)
  <2>1. t.executions = s.executions /\ t.decisions = s.decisions /\ t.steps = s.steps
    BY <1>1 DEF FindingStep, RecordFinding, Snapshot
  <2>2. QED
    BY <2>1, SameExecutions DEF DecisionsGrow
<1>2. ASSUME NEW f \in FindingIds, NEW review \in ReviewStatus, ReviewFinding(s, t, f, review)
      PROVE  Kept(s, t) /\ DecisionsGrow(s, t) /\ t.steps = s.steps
  <2> DEFINE record == [target |-> f, decision |-> review]
  <2>1. record \in DecisionRecord
    BY DEF DecisionRecord
  <2>2. /\ t.executions = s.executions /\ t.steps = s.steps
        /\ t.decisions = Append(s.decisions, record)
    BY <1>2 DEF ReviewFinding, Snapshot
  <2> HIDE DEF record
  <2>3. QED
    BY <2>1, <2>2, SameExecutions, DecisionAppended DEF DecisionsGrow
<1>3. QED
  BY <1>1, <1>2

\* Every step extends the record.
LEMMA StepExtends ==
    ASSUME NEW s \in Snapshot, NEW t, NEW ready, Transition(s, t, ready)
    PROVE  Extended(s, t) /\ DecisionsGrow(s, t)
  BY LedgerCases, ReservationEffect, FindingsEffect DEF Advanced, Kept, Appended

(***************************************************************************)
(* The budgets: an unfinished call counts as the failure it may become.     *)
(***************************************************************************)
Attempts(s, id, tool) ==
    {i \in Calls(s, id, tool) :
        s.executions[i].outcome = None \/ Spent(s.executions[i].outcome)}

BudgetOf(s, id) ==
    /\ Cardinality(Prior(s, id)) <= Plan[id].calls
    /\ \A tool \in Tools :
        /\ Cardinality(Attempts(s, id, tool)) <= Plan[id].retries + 1
        /\ \A i, j \in InFlight(s, id, tool) : i = j

Budget == \A id \in StepIds : BudgetOf(ledger, id)

\* The calls of a step are finitely many.
LEMMA CallsAreFinite ==
    ASSUME NEW s \in Snapshot, NEW id, NEW tool
    PROVE  /\ IsFiniteSet(Prior(s, id)) /\ Cardinality(Prior(s, id)) \in Nat
           /\ IsFiniteSet(Attempts(s, id, tool)) /\ Cardinality(Attempts(s, id, tool)) \in Nat
           /\ Failures(s, id, tool) \subseteq Attempts(s, id, tool)
           /\ Cardinality(Failures(s, id, tool)) <= Cardinality(Attempts(s, id, tool))
           /\ IsFiniteSet(Failures(s, id, tool)) /\ Cardinality(Failures(s, id, tool)) \in Nat
<1>1. IsFiniteSet(1..Len(s.executions))
  BY ExecutionsType, FS_Interval
<1>2. Prior(s, id) \subseteq 1..Len(s.executions)
  BY ExecutionsType DEF Prior
<1>3. Attempts(s, id, tool) \subseteq Prior(s, id)
  BY DEF Attempts, Calls
<1>4. Failures(s, id, tool) \subseteq Attempts(s, id, tool)
  BY DEF Failures, Attempts
<1>5. IsFiniteSet(Prior(s, id))
  BY <1>1, <1>2, FS_Subset
<1>6. IsFiniteSet(Attempts(s, id, tool))
  BY <1>3, <1>5, FS_Subset
<1>7. /\ IsFiniteSet(Failures(s, id, tool))
      /\ Cardinality(Failures(s, id, tool)) <= Cardinality(Attempts(s, id, tool))
  BY <1>4, <1>6, FS_Subset
<1>8. QED
  BY <1>4, <1>5, <1>6, <1>7, FS_CardinalityType

\* Calls that are continued are the same calls, and no finished one is open again.
LEMMA KeptCalls ==
    ASSUME NEW s \in Snapshot, NEW t \in Snapshot, Kept(s, t), NEW id, NEW tool
    PROVE  /\ Prior(t, id) = Prior(s, id) /\ Calls(t, id, tool) = Calls(s, id, tool)
           /\ Attempts(t, id, tool) \subseteq Attempts(s, id, tool)
           /\ InFlight(t, id, tool) \subseteq InFlight(s, id, tool)
<1>1. DOMAIN t.executions = DOMAIN s.executions
  BY ExecutionsType DEF Kept
<1>2. \A i \in DOMAIN s.executions : Continued(s.executions[i], t.executions[i])
  BY DEF Kept, Extended
<1>3. Prior(t, id) = Prior(s, id)
  BY <1>1, <1>2 DEF Prior, Continued
<1>4. Calls(t, id, tool) = Calls(s, id, tool)
  BY <1>2, <1>3 DEF Calls, Prior, Continued
<1>5. \A i \in Calls(s, id, tool) :
        s.executions[i].outcome = None \/ t.executions[i] = s.executions[i]
  BY <1>2 DEF Calls, Prior, Continued
<1>6. QED
  BY <1>3, <1>4, <1>5 DEF Attempts, InFlight

\* Finishing calls keeps the budgets.
LEMMA KeptBudget ==
    ASSUME NEW s \in Snapshot, NEW t \in Snapshot, Kept(s, t), NEW id \in StepIds,
           BudgetOf(s, id)
    PROVE  BudgetOf(t, id)
<1>1. Prior(t, id) = Prior(s, id)
  BY KeptCalls
<1>2. ASSUME NEW tool \in Tools
      PROVE  /\ Cardinality(Attempts(t, id, tool)) <= Plan[id].retries + 1
             /\ \A i, j \in InFlight(t, id, tool) : i = j
  <2>1. /\ Attempts(t, id, tool) \subseteq Attempts(s, id, tool)
        /\ InFlight(t, id, tool) \subseteq InFlight(s, id, tool)
    BY KeptCalls
  <2>2. /\ IsFiniteSet(Attempts(s, id, tool)) /\ Cardinality(Attempts(s, id, tool)) \in Nat
        /\ Cardinality(Attempts(t, id, tool)) \in Nat
    BY CallsAreFinite
  <2>3. Cardinality(Attempts(t, id, tool)) <= Cardinality(Attempts(s, id, tool))
    BY <2>1, <2>2, FS_Subset
  <2>4. Plan[id].retries \in Nat
    BY InputsAssumption DEF StepProposal
  <2>5. QED
    BY <2>1, <2>2, <2>3, <2>4 DEF BudgetOf
<1>3. QED
  BY <1>1, <1>2 DEF BudgetOf

\* What a reservation adds to the calls of its step.
LEMMA ReservedPrior ==
    ASSUME NEW s \in Snapshot, NEW t, NEW id \in StepIds, NEW call \in ToolCall,
           Reservation(s, t, id, call), NEW x
    PROVE  /\ Position(s) \notin Prior(s, x)
           /\ Prior(t, x) = IF x = id THEN Prior(s, x) \cup {Position(s)} ELSE Prior(s, x)
<1> DEFINE k == Position(s)
<1> HIDE DEF k
<1>1. Appended(s, t, id, call)
  BY ReservationEffect
<1>2. /\ DOMAIN t.executions = DOMAIN s.executions \cup {k} /\ k \notin DOMAIN s.executions
      /\ \A i \in DOMAIN s.executions : t.executions[i] = s.executions[i]
      /\ t.executions[k].step = id
  BY <1>1 DEF Appended, k
<1>3. k \notin Prior(s, x)
  BY <1>2 DEF Prior
<1>4. Prior(t, x) = IF x = id THEN Prior(s, x) \cup {k} ELSE Prior(s, x)
  BY <1>2 DEF Prior
<1>5. QED
  BY <1>3, <1>4 DEF k

\* What it adds to the calls of its tool.
LEMMA ReservedCalls ==
    ASSUME NEW s \in Snapshot, NEW t, NEW id \in StepIds, NEW call \in ToolCall,
           Reservation(s, t, id, call), NEW x, NEW tool
    PROVE  /\ Attempts(t, x, tool) \subseteq Attempts(s, x, tool) \cup {Position(s)}
           /\ InFlight(t, x, tool) \subseteq InFlight(s, x, tool) \cup {Position(s)}
           /\ x # id \/ tool # call.tool
              => /\ Attempts(t, x, tool) = Attempts(s, x, tool)
                 /\ InFlight(t, x, tool) = InFlight(s, x, tool)
<1> DEFINE k == Position(s)
<1> HIDE DEF k
<1>1. Appended(s, t, id, call)
  BY ReservationEffect
<1>2. /\ DOMAIN t.executions = DOMAIN s.executions \cup {k}
      /\ \A i \in DOMAIN s.executions : t.executions[i] = s.executions[i]
      /\ t.executions[k].step = id /\ t.executions[k].tool = call.tool
      /\ k \notin DOMAIN s.executions
  BY <1>1 DEF Appended, k
<1>3. \A i \in Calls(t, x, tool) :
        \/ i \in Calls(s, x, tool) /\ t.executions[i] = s.executions[i]
        \/ i = k /\ x = id /\ tool = call.tool
  BY <1>2 DEF Calls, Prior
<1>4. \A i \in Calls(s, x, tool) : i \in Calls(t, x, tool) /\ t.executions[i] = s.executions[i]
  BY <1>2 DEF Calls, Prior
<1>5. QED
  BY <1>3, <1>4 DEF Attempts, InFlight, k

\* A reservation stays within the budgets: it is refused at the last one.
LEMMA ReservationBudget ==
    ASSUME NEW s \in Snapshot, NEW t \in Snapshot, NEW id \in StepIds, NEW call \in ToolCall,
           Reservation(s, t, id, call), NEW x \in StepIds, BudgetOf(s, x)
    PROVE  BudgetOf(t, x)
<1> DEFINE k == Position(s)
<1> HIDE DEF k
<1>1. Plan[x].retries \in Nat /\ Plan[x].calls \in Nat
  BY InputsAssumption DEF StepProposal
<1>2. Cardinality(Prior(t, x)) <= Plan[x].calls
  <2>1. k \notin Prior(s, x) /\ Prior(t, x) = IF x = id THEN Prior(s, x) \cup {k} ELSE Prior(s, x)
    BY ReservedPrior DEF k
  <2>2. IsFiniteSet(Prior(s, x)) /\ Cardinality(Prior(s, x)) \in Nat
    BY CallsAreFinite
  <2>3. x = id => Cardinality(Prior(s, x)) < Plan[x].calls
    BY DEF Reservation, WithinLimits
  <2>4. Cardinality(Prior(s, x) \cup {k}) = Cardinality(Prior(s, x)) + 1
    BY <2>1, <2>2, FS_AddElement
  <2>5. QED
    BY <1>1, <2>1, <2>2, <2>3, <2>4 DEF BudgetOf
<1>3. ASSUME NEW tool \in Tools
      PROVE  /\ Cardinality(Attempts(t, x, tool)) <= Plan[x].retries + 1
             /\ \A i, j \in InFlight(t, x, tool) : i = j
  <2>1. CASE x = id /\ tool = call.tool
    <3>1. /\ Attempts(t, x, tool) \subseteq Attempts(s, x, tool) \cup {k}
          /\ InFlight(t, x, tool) \subseteq InFlight(s, x, tool) \cup {k}
      BY ReservedCalls DEF k
    <3>2. InFlight(s, x, tool) = {} /\ Cardinality(Failures(s, x, tool)) <= Plan[x].retries
      BY <2>1 DEF Reservation, WithinLimits
    <3>3. Attempts(s, x, tool) = Failures(s, x, tool)
      BY <3>2 DEF Attempts, Failures, InFlight
    <3>4. k \notin Attempts(s, x, tool)
      BY ReservedPrior DEF Attempts, Calls, k
    <3>5. /\ IsFiniteSet(Attempts(s, x, tool)) /\ Cardinality(Attempts(s, x, tool)) \in Nat
          /\ Cardinality(Attempts(t, x, tool)) \in Nat
      BY CallsAreFinite
    <3>6. /\ IsFiniteSet(Attempts(s, x, tool) \cup {k})
          /\ Cardinality(Attempts(s, x, tool) \cup {k}) = Cardinality(Attempts(s, x, tool)) + 1
      BY <3>4, <3>5, FS_AddElement
    <3>7. Cardinality(Attempts(t, x, tool)) <= Cardinality(Attempts(s, x, tool) \cup {k})
      BY <3>1, <3>6, FS_Subset
    <3>8. Cardinality(Attempts(t, x, tool)) <= Plan[x].retries + 1
      BY <1>1, <3>2, <3>3, <3>5, <3>6, <3>7
    <3>9. QED
      BY <3>1, <3>2, <3>8
  <2>2. CASE x # id \/ tool # call.tool
    <3>1. /\ Attempts(t, x, tool) = Attempts(s, x, tool)
          /\ InFlight(t, x, tool) = InFlight(s, x, tool)
      BY <2>2, ReservedCalls
    <3>2. QED
      BY <3>1 DEF BudgetOf
  <2>3. QED
    BY <2>1, <2>2
<1>4. QED
  BY <1>2, <1>3 DEF BudgetOf

(***************************************************************************)
(* Prerequisites: what a call relied on when it was reserved.               *)
(***************************************************************************)
\* DependenciesObserved says this of every execution k.
Relied(s, k) ==
    LET e == s.executions[k]
        p == Plan[e.step]
    IN  /\ e.tool \in p.tools
        /\ e.evidence # {} /\ e.evidence \subseteq p.evidence
        /\ \A need \in Needs(e.step, e.tool) :
            \E i \in Calls(s, e.step, need) :
                /\ i < k /\ Usable(s.executions[i].outcome)
                /\ \A j \in Calls(s, e.step, need) : j < k => j <= i

\* A record of usable results stays one when calls finish.
LEMMA KeptReliance ==
    ASSUME NEW s \in Snapshot, NEW t \in Snapshot, Kept(s, t),
           NEW k \in DOMAIN s.executions, Relied(s, k)
    PROVE  Relied(t, k)
<1>1. \A i \in DOMAIN s.executions : Continued(s.executions[i], t.executions[i])
  BY DEF Kept, Extended
<1>2. /\ t.executions[k].step = s.executions[k].step
      /\ t.executions[k].tool = s.executions[k].tool
      /\ t.executions[k].evidence = s.executions[k].evidence
  BY <1>1 DEF Continued
<1> DEFINE id == s.executions[k].step
<1>3. \A need : Calls(t, id, need) = Calls(s, id, need)
  BY KeptCalls
<1>4. \A need : \A i \in Calls(s, id, need) :
        Usable(s.executions[i].outcome) => Usable(t.executions[i].outcome)
  BY <1>1 DEF Usable, Calls, Prior, Continued
<1>5. QED
  BY <1>2, <1>3, <1>4 DEF Relied

\* A reservation relies on what authorize_tool has seen, and changes no other
\* call's record.
LEMMA ReservationReliance ==
    ASSUME NEW s \in Snapshot, NEW t \in Snapshot, NEW id \in StepIds, NEW call \in ToolCall,
           Reservation(s, t, id, call),
           \A k \in DOMAIN s.executions : Relied(s, k)
    PROVE  \A k \in DOMAIN t.executions : Relied(t, k)
<1> DEFINE last == Position(s)
<1> HIDE DEF last
<1>1. Appended(s, t, id, call)
  BY ReservationEffect
<1>2. /\ DOMAIN t.executions = DOMAIN s.executions \cup {last} /\ last \notin DOMAIN s.executions
      /\ \A i \in DOMAIN s.executions : i < last /\ t.executions[i] = s.executions[i]
      /\ t.executions[last].step = id /\ t.executions[last].tool = call.tool
      /\ t.executions[last].evidence = call.evidence
  BY <1>1 DEF Appended, last
<1>3. \A x, need : /\ Calls(s, x, need) \subseteq Calls(t, x, need)
                   /\ Calls(t, x, need) \subseteq Calls(s, x, need) \cup {last}
                   /\ Calls(s, x, need) \subseteq DOMAIN s.executions
  BY <1>2 DEF Calls, Prior
<1>4. last \in Nat /\ DOMAIN s.executions \subseteq Nat
  BY ExecutionsType DEF last, Position
<1>5. ASSUME NEW k \in DOMAIN s.executions
      PROVE  Relied(t, k)
  <2>1. t.executions[k] = s.executions[k] /\ k < last /\ k \in Nat
    BY <1>2, <1>4
  <2> DEFINE e == s.executions[k]
  <2>2. e.tool \in Plan[e.step].tools /\ e.evidence # {} /\ e.evidence \subseteq Plan[e.step].evidence
    BY DEF Relied
  <2>3. ASSUME NEW need \in Needs(e.step, e.tool)
        PROVE  \E i \in Calls(t, e.step, need) :
                /\ i < k /\ Usable(t.executions[i].outcome)
                /\ \A j \in Calls(t, e.step, need) : j < k => j <= i
    <3>1. PICK i \in Calls(s, e.step, need) :
            /\ i < k /\ Usable(s.executions[i].outcome)
            /\ \A j \in Calls(s, e.step, need) : j < k => j <= i
      BY <2>3 DEF Relied
    <3>2. i \in Calls(t, e.step, need) /\ t.executions[i] = s.executions[i]
      BY <1>2, <1>3
    <3>3. \A j \in Calls(t, e.step, need) : j < k => j <= i
      BY <1>3, <1>4, <2>1, <3>1
    <3>4. QED
      BY <3>1, <3>2, <3>3
  <2> HIDE DEF e
  <2>4. QED
    BY <2>1, <2>2, <2>3 DEF Relied, e
<1>6. Relied(t, last)
  <2>1. /\ call.tool \in Plan[id].tools
        /\ call.evidence # {} /\ call.evidence \subseteq Plan[id].evidence
    BY DEF Reservation, InScope
  <2>2. ASSUME NEW need \in Needs(id, call.tool)
        PROVE  \E i \in Calls(t, id, need) :
                /\ i < last /\ Usable(t.executions[i].outcome)
                /\ \A j \in Calls(t, id, need) : j < last => j <= i
    <3>1. PICK i \in Calls(s, id, need) :
            /\ Usable(s.executions[i].outcome)
            /\ \A j \in Calls(s, id, need) : j <= i
      BY <2>2 DEF Reservation, NeedsMet
    <3>2. i \in Calls(t, id, need) /\ i < last /\ t.executions[i] = s.executions[i]
      BY <1>2, <1>3
    <3>3. \A j \in Calls(t, id, need) : j < last => j <= i
      BY <1>3, <1>4, <3>1
    <3>4. QED
      BY <3>1, <3>2, <3>3
  <2>3. QED
    BY <1>2, <2>1, <2>2 DEF Relied
<1>7. QED
  BY <1>2, <1>5, <1>6

(***************************************************************************)
(* Findings: what they cite is finished, so it never changes.               *)
(***************************************************************************)
\* FindingsGrounded says this of every finding there is.
Grounded(s, f) ==
    LET finding == s.findings[f]
    IN  /\ finding.cites # {}
        /\ \A i \in finding.cites :
            /\ i \in Prior(s, finding.step)
            /\ Citable(finding.kind, s.executions[i].outcome, finding.limited)
        /\ finding.review # "Provisional" => Decided(s, f, finding.review)

\* A finding that is not touched stays grounded, whatever is called or finished.
LEMMA StillGrounded ==
    ASSUME NEW s \in Snapshot, NEW t \in Snapshot, Extended(s, t), DecisionsGrow(s, t),
           NEW f, t.findings[f] = s.findings[f], Grounded(s, f)
    PROVE  Grounded(t, f)
<1> DEFINE finding == s.findings[f]
<1>1. \A i \in finding.cites :
        /\ i \in DOMAIN s.executions /\ s.executions[i].step = finding.step
        /\ Citable(finding.kind, s.executions[i].outcome, finding.limited)
  BY DEF Grounded, Prior
<1>2. \A i \in finding.cites : s.executions[i].outcome # None
  BY <1>1 DEF Citable
<1>3. \A i \in finding.cites : t.executions[i] = s.executions[i]
  BY <1>1, <1>2 DEF Extended, Continued
<1>4. DOMAIN s.executions \subseteq DOMAIN t.executions
  BY ExecutionsType DEF Extended
<1>5. \A review : Decided(s, f, review) => Decided(t, f, review)
  BY DEF DecisionsGrow, Decided
<1>6. finding.cites # {} /\ (finding.review # "Provisional" => Decided(s, f, finding.review))
  BY DEF Grounded
<1> HIDE DEF finding
<1>7. t.findings[f] = finding
  BY DEF finding
<1>8. QED
  BY <1>1, <1>3, <1>4, <1>5, <1>6, <1>7 DEF Grounded, Prior

\* A finding is recorded with its grounds.
LEMMA RecordedGrounded ==
    ASSUME NEW s \in Snapshot, NEW t, NEW f \in FindingIds, NEW id \in StepIds,
           NEW kind \in FindingKind, NEW cites \in SUBSET Prior(s, id), NEW sources,
           NEW limited \in BOOLEAN,
           RecordFinding(s, t, f, id, kind, cites, sources, limited)
    PROVE  /\ Grounded(t, f)
           /\ \A x \in FindingIds \ {f} : t.findings[x] = s.findings[x]
<1> DEFINE finding == [step |-> id, kind |-> kind, cites |-> cites, limited |-> limited,
                       review |-> "Provisional"]
<1>1. /\ t.findings = [s.findings EXCEPT ![f] = finding]
      /\ t.executions = s.executions
  BY DEF RecordFinding, Snapshot
<1>2. s.findings \in [FindingIds -> FindingRecord \cup {None}]
  BY DEF Snapshot
<1>3. /\ finding.step = id /\ finding.kind = kind /\ finding.cites = cites
      /\ finding.limited = limited /\ finding.review = "Provisional"
  OBVIOUS
<1> HIDE DEF finding
<1>4. t.findings[f] = finding /\ \A x \in FindingIds \ {f} : t.findings[x] = s.findings[x]
  BY <1>1, <1>2
<1>5. Grounded(t, f)
  BY <1>1, <1>3, <1>4 DEF Grounded, RecordFinding, Prior
<1>6. QED
  BY <1>4, <1>5

\* A review is recorded with its decision, and its grounds are those it had.
LEMMA ReviewedGrounded ==
    ASSUME NEW s \in Snapshot, NEW t, NEW f \in FindingIds, NEW review \in ReviewStatus,
           ReviewFinding(s, t, f, review), Grounded(s, f)
    PROVE  /\ Grounded(t, f)
           /\ \A x \in FindingIds \ {f} : t.findings[x] = s.findings[x]
<1> DEFINE record == [target |-> f, decision |-> review]
           finding == [s.findings[f] EXCEPT !.review = review]
<1>1. record \in DecisionRecord
  BY DEF DecisionRecord
<1>2. /\ t.findings = [s.findings EXCEPT ![f] = finding]
      /\ t.executions = s.executions
      /\ t.decisions = Append(s.decisions, record)
  BY DEF ReviewFinding, Snapshot
<1>3. /\ s.findings \in [FindingIds -> FindingRecord \cup {None}]
      /\ s.findings[f] \in FindingRecord
  BY DEF Snapshot, ReviewFinding
<1>4. /\ finding.step = s.findings[f].step /\ finding.kind = s.findings[f].kind
      /\ finding.cites = s.findings[f].cites /\ finding.limited = s.findings[f].limited
      /\ finding.review = review
  BY <1>3 DEF FindingRecord
<1>5. Decided(t, f, review)
  <2> HIDE DEF record
  <2>1. \E i \in DOMAIN t.decisions : t.decisions[i] = record
    BY <1>1, <1>2, DecisionAppended
  <2>2. QED
    BY <2>1 DEF Decided, record
<1> HIDE DEF finding, record
<1>6. t.findings[f] = finding /\ \A x \in FindingIds \ {f} : t.findings[x] = s.findings[x]
  BY <1>2, <1>3
<1>7. Grounded(t, f)
  BY <1>2, <1>4, <1>5, <1>6 DEF Grounded, Prior
<1>8. QED
  BY <1>6, <1>7

(***************************************************************************)
(* The theorems.                                                            *)
(***************************************************************************)
\* The record keeps the plan and its findings keep their grounds.
Recorded == Budget /\ DependenciesObserved /\ FindingsGrounded

\* A new ledger has recorded nothing.
LEMMA InitRecorded == Init => Recorded
<1> SUFFICES ASSUME ledger = Empty
             PROVE  Recorded
  BY DEF Init
<1>1. ledger.executions = <<>> /\ \A f \in FindingIds : ledger.findings[f] = None
  BY DEF Empty
<1>2. \A id, tool : Prior(ledger, id) = {} /\ Attempts(ledger, id, tool) = {}
                    /\ InFlight(ledger, id, tool) = {}
  BY <1>1 DEF Prior, Attempts, InFlight, Calls
<1>3. \A id \in StepIds : Plan[id].calls \in Nat /\ Plan[id].retries \in Nat
  BY InputsAssumption DEF StepProposal
<1>4. Cardinality({}) = 0
  BY FS_EmptySet
<1>5. ASSUME NEW id \in StepIds
      PROVE  BudgetOf(ledger, id)
  <2>1. Cardinality(Prior(ledger, id)) = 0
    BY <1>2, <1>4
  <2>2. \A tool \in Tools : Cardinality(Attempts(ledger, id, tool)) = 0
    BY <1>2, <1>4
  <2>3. Plan[id].calls \in Nat /\ Plan[id].retries \in Nat
    BY <1>3
  <2>4. QED
    BY <1>2, <2>1, <2>2, <2>3 DEF BudgetOf
<1>6. QED
  BY <1>1, <1>5 DEF Budget, Recorded, DependenciesObserved, FindingsGrounded

\* The budgets count what is unfinished as spent, so they imply WithinBudget.
LEMMA BudgetSuffices == TypeOK /\ Budget => WithinBudget
<1> SUFFICES ASSUME TypeOK, Budget
             PROVE  WithinBudget
  OBVIOUS
<1>1. ASSUME NEW id \in StepIds, NEW tool \in Tools
      PROVE  Cardinality(Failures(ledger, id, tool)) <= Plan[id].retries + 1
  <2>1. /\ Cardinality(Failures(ledger, id, tool)) <= Cardinality(Attempts(ledger, id, tool))
        /\ Cardinality(Failures(ledger, id, tool)) \in Nat
        /\ Cardinality(Attempts(ledger, id, tool)) \in Nat
    BY CallsAreFinite DEF TypeOK
  <2>2. Plan[id].retries \in Nat
    BY InputsAssumption DEF StepProposal
  <2>3. QED
    BY <2>1, <2>2 DEF Budget, BudgetOf
<1>2. QED
  BY <1>1 DEF Budget, BudgetOf, WithinBudget

\* No step exceeds a budget.
LEMMA NextBudget ==
    ASSUME TypeOK, TypeOK', Budget, Next
    PROVE  Budget'
<1>1. \/ Kept(ledger, ledger')
      \/ \E id \in StepIds, call \in ToolCall : Reservation(ledger, ledger', id, call)
  BY LedgerCases, FindingsEffect DEF TypeOK, Next, Advanced
<1>2. CASE Kept(ledger, ledger')
  BY <1>2, KeptBudget DEF TypeOK, Budget
<1>3. CASE \E id \in StepIds, call \in ToolCall : Reservation(ledger, ledger', id, call)
  BY <1>3, ReservationBudget DEF TypeOK, Budget
<1>4. QED
  BY <1>1, <1>2, <1>3

\* DependenciesObserved is about every execution by itself.
LEMMA DependenciesRelied ==
    DependenciesObserved <=> \A k \in DOMAIN ledger.executions : Relied(ledger, k)
  BY DEF DependenciesObserved, Relied

\* No step takes a prerequisite away from a call that relied on it.
LEMMA NextDependencies ==
    ASSUME TypeOK, TypeOK', DependenciesObserved, Next
    PROVE  DependenciesObserved'
<1>1. \/ Kept(ledger, ledger')
      \/ \E id \in StepIds, call \in ToolCall : Reservation(ledger, ledger', id, call)
  BY LedgerCases, FindingsEffect DEF TypeOK, Next, Advanced
<1>2. \A k \in DOMAIN ledger.executions : Relied(ledger, k)
  BY DependenciesRelied
<1>3. CASE Kept(ledger, ledger')
  <2>1. DOMAIN ledger'.executions = DOMAIN ledger.executions
    BY <1>3, ExecutionsType DEF TypeOK, Kept
  <2>2. QED
    BY <1>2, <1>3, <2>1, KeptReliance DEF TypeOK, DependenciesObserved, Relied
<1>4. CASE \E id \in StepIds, call \in ToolCall : Reservation(ledger, ledger', id, call)
  <2>1. \A k \in DOMAIN ledger'.executions : Relied(ledger', k)
    BY <1>2, <1>4, ReservationReliance DEF TypeOK
  <2>2. QED
    BY <2>1 DEF DependenciesObserved, Relied
<1>5. QED
  BY <1>1, <1>3, <1>4

\* No step takes the grounds of a finding away.
LEMMA NextFindings ==
    ASSUME TypeOK, TypeOK', FindingsGrounded, Next
    PROVE  FindingsGrounded'
<1>1. Extended(ledger, ledger') /\ DecisionsGrow(ledger, ledger')
  BY StepExtends DEF TypeOK, Next
<1>2. \A f \in FindingIds : ledger.findings[f] # None => Grounded(ledger, f)
  BY DEF FindingsGrounded, Grounded
<1>3. ASSUME NEW f \in FindingIds, ledger'.findings[f] = ledger.findings[f],
             ledger'.findings[f] # None
      PROVE  Grounded(ledger', f)
  BY <1>1, <1>2, <1>3, StillGrounded DEF TypeOK
<1>4. \A f \in FindingIds : ledger'.findings[f] # None => Grounded(ledger', f)
  <2>1. CASE ledger'.findings = ledger.findings
    BY <1>3, <2>1
  <2>2. CASE FindingStep(ledger, ledger')
    <3>1. PICK f \in FindingIds, id \in StepIds, kind \in FindingKind, limited \in BOOLEAN :
            \E cites \in SUBSET Prior(ledger, id), sources \in SUBSET Plan[id].evidence :
                RecordFinding(ledger, ledger', f, id, kind, cites, sources, limited)
      BY <2>2 DEF FindingStep
    <3>2. /\ Grounded(ledger', f)
          /\ \A x \in FindingIds \ {f} : ledger'.findings[x] = ledger.findings[x]
      BY <3>1, RecordedGrounded DEF TypeOK
    <3>3. QED
      BY <1>3, <3>2
  <2>3. CASE \E f \in FindingIds, review \in ReviewStatus :
                ReviewFinding(ledger, ledger', f, review)
    <3>1. PICK f \in FindingIds, review \in ReviewStatus :
            ReviewFinding(ledger, ledger', f, review)
      BY <2>3
    <3>2. Grounded(ledger, f)
      BY <1>2, <3>1 DEF ReviewFinding
    <3>3. /\ Grounded(ledger', f)
          /\ \A x \in FindingIds \ {f} : ledger'.findings[x] = ledger.findings[x]
      BY <3>1, <3>2, ReviewedGrounded DEF TypeOK
    <3>4. QED
      BY <1>3, <3>3
  <2>4. QED
    BY <2>1, <2>2, <2>3, LedgerCases, ReservationEffect DEF TypeOK, Next, Advanced, Appended
<1>5. QED
  BY <1>4 DEF FindingsGrounded, Grounded

\* Recorded is inductive on well-typed ledgers.
LEMMA NextRecorded ==
    ASSUME TypeOK, TypeOK', Recorded, [Next]_vars
    PROVE  Recorded'
<1>1. CASE UNCHANGED vars
  BY <1>1 DEF vars, Recorded, Budget, DependenciesObserved, FindingsGrounded
<1>2. CASE Next
  BY <1>2, NextBudget, NextDependencies, NextFindings DEF Recorded
<1>3. QED
  BY <1>1, <1>2

\* The record keeps the plan and its findings keep their grounds, always.
LEMMA RecordedHolds == Spec => []Recorded
<1>1. QED
  BY InitRecorded, NextRecorded, TypeCorrect, PTL DEF Spec

\* Whatever is stopped, completed late or reopened, the calls of a step stay
\* within its approved bounds, and each call relied on the latest results of
\* the tools it needs (authorize_tool, complete_tool, open).
THEOREM PlanHolds == Spec => []PlanIsKept
<1>1. TypeOK /\ Recorded => PlanIsKept
  BY BudgetSuffices DEF Recorded, PlanIsKept
<1>2. QED
  BY <1>1, TypeCorrect, RecordedHolds, PTL

\* A finding never loses the finished executions it cites, and no review of it
\* is missing from the decision log (record_finding, review_finding).
THEOREM FindingsHold == Spec => []FindingsGrounded
<1>1. Recorded => FindingsGrounded
  BY DEF Recorded
<1>2. QED
  BY <1>1, RecordedHolds, PTL

\* An outcome that is recorded is never replaced, by no completion, stop or
\* reopening.
THEOREM OutcomesHold == Spec => OutcomesImmutable
<1>1. ASSUME TypeOK, [Next]_vars
      PROVE  /\ Len(ledger.executions) <= Len(ledger'.executions)
             /\ \A i \in DOMAIN ledger.executions :
                  ledger.executions[i].outcome # None
                  => ledger'.executions[i] = ledger.executions[i]
  <2>1. CASE UNCHANGED vars
    BY <1>1, <2>1, ExecutionsType DEF vars, TypeOK
  <2>2. CASE Next
    <3>1. Extended(ledger, ledger') /\ DecisionsGrow(ledger, ledger')
      BY <1>1, <2>2, StepExtends DEF TypeOK, Next
    <3>2. QED
      BY <3>1 DEF Extended, Continued
  <2>3. QED
    BY <1>1, <2>1, <2>2
<1>2. TypeOK /\ [Next]_vars
      => [/\ Len(ledger.executions) <= Len(ledger'.executions)
          /\ \A i \in DOMAIN ledger.executions :
               ledger.executions[i].outcome # None
               => ledger'.executions[i] = ledger.executions[i]]_vars
  BY <1>1
<1>3. QED
  BY <1>2, TypeCorrect, PTL DEF Spec, OutcomesImmutable

\* Only begin_step makes a step run, and it needs the exported files; the store
\* is shown to give it that (StoreProofs).
LEMMA BegunReady ==
    ASSUME NEW s \in Snapshot, Bound(s), NEW t, NEW ready, Transition(s, t, ready),
           RunningSteps(t) \ RunningSteps(s) # {}
    PROVE  ready
<1>1. ASSUME NEW brief \in Briefs, SetCaseBrief(s, t, brief)
      PROVE  RunningSteps(t) \subseteq RunningSteps(s)
  BY <1>1, SetCaseBriefEffect DEF RunningSteps, StepsIn
<1>2. ASSUME NEW ids \in SUBSET StepIds, ProposeSteps(s, t, ids)
      PROVE  RunningSteps(t) \subseteq RunningSteps(s)
  BY <1>2, ProposeStepsEffect DEF RunningSteps, StepsIn
<1>3. ASSUME NEW id \in StepIds, NEW d \in HumanDecision, DecideStep(s, t, id, d)
      PROVE  RunningSteps(t) \subseteq RunningSteps(s)
  <2>1. StepApproved(s, t, id) \/ StepRefused(s, t, id)
    BY <1>3, ApproveEffect, RejectEffect DEF DecideStep
  <2>2. QED
    BY <2>1 DEF StepApproved, StepRefused, RunningSteps, StepsIn
<1>4. Quiet(s, t) => RunningSteps(t) \subseteq RunningSteps(s)
  BY DEF Quiet, StepsSettle, RunningSteps, StepsIn
<1>5. \E id \in StepIds, turn \in TurnIds : BeginStep(s, t, ready, id, turn)
  BY <1>1, <1>2, <1>3, <1>4, StepCases
<1>6. QED
  BY <1>5 DEF BeginStep

\* Only authorize_tool makes the record longer, and it needs them too.
LEMMA ReservedReady ==
    ASSUME NEW s \in Snapshot, NEW t, NEW ready, Transition(s, t, ready),
           Len(t.executions) > Len(s.executions)
    PROVE  ready
<1>1. Len(s.executions) \in Nat
  BY ExecutionsType
<1>2. ~Kept(s, t)
  BY <1>1 DEF Kept
<1>3. QED
  BY <1>2, LedgerCases, FindingsEffect DEF Advanced

\* A step that has begun keeps its turn: nothing but begin_step sets one, and
\* only on an approved step, which has none.
LEMMA TurnsStay ==
    ASSUME NEW s \in Snapshot, Bound(s), NEW t, NEW ready, Transition(s, t, ready),
           NEW id \in StepIds, s.steps[id].turn # None,
           s.steps[id].state # "Approved"
    PROVE  t.steps[id].turn = s.steps[id].turn
<1>1. ASSUME NEW brief \in Briefs, SetCaseBrief(s, t, brief)
      PROVE  t.steps[id].turn = s.steps[id].turn
  BY <1>1, SetCaseBriefEffect
<1>2. ASSUME NEW ids \in SUBSET StepIds, ProposeSteps(s, t, ids)
      PROVE  t.steps[id].turn = s.steps[id].turn
  BY <1>2, ProposeStepsEffect
<1>3. ASSUME NEW x \in StepIds, NEW d \in HumanDecision, DecideStep(s, t, x, d)
      PROVE  t.steps[id].turn = s.steps[id].turn
  <2>1. DecisionAdded(s, t, x, "Approve") \/ DecisionAdded(s, t, x, "Reject")
    BY <1>3, ApproveEffect, RejectEffect DEF DecideStep
  <2>2. QED
    BY <2>1 DEF DecisionAdded
<1>4. ASSUME NEW x \in StepIds, NEW turn \in TurnIds, BeginStep(s, t, ready, x, turn)
      PROVE  t.steps[id].turn = s.steps[id].turn
  <2>1. x # id
    BY <1>4 DEF BeginStep, MayBegin
  <2>2. t.steps = [s.steps EXCEPT ![x] = [state |-> "Running", turn |-> turn]]
    BY <1>4, BeginStepEffect
  <2>3. QED
    BY <2>1, <2>2
<1>5. Quiet(s, t) => t.steps[id].turn = s.steps[id].turn
  BY DEF Quiet, StepsSettle
<1>6. QED
  BY <1>1, <1>2, <1>3, <1>4, <1>5, StepCases
=============================================================================
