------------------------------- MODULE Runtime -------------------------------
(***************************************************************************)
(* The step runtime (src/src/runtime.rs): what one conversation turn does to *)
(* the investigation.  chat begins the approved step, run_step alternates    *)
(* provider requests and tool calls, finish saves the checkpoint, and an     *)
(* error interrupts the step.                                               *)
(*                                                                          *)
(* The session lets one turn or one investigator command in at a time and    *)
(* sweeps up after a turn that it had to drop; the process may die.  Every   *)
(* operation of the store may fail before its commit, or after it, in the    *)
(* export, which leaves the change in the row and exported false.            *)
(***************************************************************************)
EXTENDS Integers, Sequences, FiniteSets

CONSTANTS StepIds, TurnIds, FindingIds, Tools, EvidenceIds, Destinations,
          Briefs, Plan, Outcomes, MaxReviews, ANY, None   \* see Investigation
CONSTANTS
    Service,        \* the configured reasoning service
    Uses,           \* the destination of each tool, or None
    Inventory,      \* the steps that the runtime itself proposes
    MaxCalls,       \* bound: actions in one response of the provider
    MaxFaults       \* bound: operations that fail

ASSUME RuntimeAssumption ==
    /\ Service \in Destinations
    /\ Uses \in [Tools -> Destinations \cup {None}]
    /\ Inventory \subseteq StepIds
    /\ MaxCalls \in Nat \ {0} /\ MaxFaults \in Nat

VARIABLES
    ledger, exported,       \* the row of the session, and whether the files show it
    run,                    \* the turn in progress
    faults                  \* counter of the bound

vars == <<ledger, exported, run, faults>>

Ledger == INSTANCE Investigation

\* The ledger's own assumptions on the constants it is given.
ASSUME LedgerAssumption ==
    /\ StepIds \cap FindingIds = {} /\ None \notin TurnIds /\ IsFiniteSet(StepIds)
    /\ Briefs \subseteq Ledger!CaseBrief /\ None \notin Briefs
    /\ Plan \in [StepIds -> Ledger!StepProposal]
    /\ Outcomes \subseteq Ledger!ToolOutcome /\ None \notin Ledger!ToolOutcome
    /\ None \notin Destinations /\ MaxReviews \in Nat

Points == {"idle", "objective",         \* no turn; a brief saved by chat
           "round", "waiting",          \* about to ask the provider; it answers
           "actions", "permitted", "calling",
           "finish", "propose", "amend",
           "failed", "answered", "dropped"}

\* stale is consecutive_no_progress.
Run == [at : Points, turn : TurnIds \cup {None}, step : StepIds \cup {None},
        round : Nat, actions : 0..MaxCalls, stale : Nat,
        progress : BOOLEAN, invalid : BOOLEAN, permit : Nat]

Idle == [at |-> "idle", turn |-> None, step |-> None, round |-> 0, actions |-> 0,
         stale |-> 0, progress |-> FALSE, invalid |-> FALSE,
         permit |-> 0]

Init ==
    /\ ledger = Ledger!Empty /\ exported = TRUE
    /\ run = Idle /\ faults = 0

Goto(point) == run' = [run EXCEPT !.at = point]

\* An operation of the store commits and is exported, or its export fails, or
\* nothing happens at all.
Saved == exported' = TRUE /\ UNCHANGED faults
Unsaved == faults < MaxFaults /\ faults' = faults + 1 /\ exported' = FALSE
Unchanged == UNCHANGED <<ledger, exported, faults>>
Fault == faults < MaxFaults /\ faults' = faults + 1 /\ UNCHANGED <<ledger, exported>>

RunsIn(s) == s.steps[run.step].state = "Running"
Running == RunsIn(ledger)

(***************************************************************************)
(* chat.                                                                    *)
(***************************************************************************)
Approved == Ledger!StepsIn(ledger, {"Approved"})

\* The first instruction becomes the objective of a brief, with one step to
\* establish the inventory; a later one, with nothing pending, such a step.
SaveObjective ==
    /\ run.at = "idle"
    /\ ledger.brief = None
    /\ \E brief \in Briefs : brief.objective /\ Ledger!SetCaseBrief(ledger, ledger', brief)
    /\ \/ Saved /\ Goto("objective")
       \/ Unsaved /\ UNCHANGED run

ProposeInventory ==
    /\ \/ run.at = "objective"
       \/ /\ run.at = "idle"
          /\ Approved = {} /\ ledger.brief # None /\ ledger.confirmed
          /\ Ledger!StepsIn(ledger, {"PendingApproval", "Running"}) = {}
    /\ \/ /\ \E id \in Inventory : Ledger!ProposeSteps(ledger, ledger', {id})
          /\ Saved \/ Unsaved
       \/ Unchanged
    /\ run' = Idle

\* begin_step.  An error here returns at once, without the cleanup below.
Begin(turn) ==
    /\ run.at = "idle"
    /\ \E id \in Approved :
        /\ Ledger!BeginStep(ledger, ledger', exported, id, turn)
        /\ \/ Saved /\ run' = [Idle EXCEPT !.at = "round", !.turn = turn, !.step = id]
           \/ Unsaved /\ run' = [Idle EXCEPT !.at = "dropped", !.turn = turn, !.step = id]

(***************************************************************************)
(* run_step: one round.                                                     *)
(***************************************************************************)
\* 1..=max_tool_calls.saturating_add(4).min(64)
Rounds(id) == IF Plan[id].calls + 4 < 64 THEN Plan[id].calls + 4 ELSE 64

\* Either limit ends the run; the second may be reached at any time.
Exhausted ==
    /\ run.at = "round"
    /\ Unchanged
    /\ Goto("failed")

RecordUse(d) ==
    Ledger!RecordProvider(ledger, ledger', exported, run.turn, d, d.auth, d.account)

\* check_destination and record_provider; a violation stops the step.  A
\* variant does not count the rounds.
AskUncounted ==
    /\ run.at = "round"
    /\ RecordUse(Service)
    /\ Saved
    /\ Goto(IF RunsIn(ledger') THEN "waiting" ELSE "failed")
Ask ==
    /\ run.at = "round"
    /\ run.round < Rounds(run.step)
    /\ RecordUse(Service)
    /\ \/ Saved /\ run' = [run EXCEPT !.round = @ + 1,
                                      !.at = IF RunsIn(ledger') THEN "waiting" ELSE "failed"]
       \/ Unsaved /\ Goto("failed")

NoProgress(r) == [r EXCEPT !.stale = @ + 1,
                           !.at = IF r.stale + 1 >= 3 THEN "failed" ELSE "round"]

\* A response of the service that was asked, with some actions or with none.
Respond ==
    /\ run.at = "waiting"
    /\ \/ /\ Unchanged
          /\ \/ run' = NoProgress(run)
             \/ \E n \in 1..MaxCalls :
                   run' = [run EXCEPT !.at = "actions", !.actions = n, !.progress = FALSE,
                                      !.invalid = FALSE]
       \/ RecordUse(Service) /\ Unsaved /\ Goto("failed")

\* A provider that fails, times out or is not the one that was asked, evidence
\* that changed, a tool that does not exist, an elapsed time, a database error.
Break ==
    /\ run.at \in {"round", "waiting", "actions", "permitted", "calling", "answered"}
    /\ Unchanged
    /\ Goto("failed")

(***************************************************************************)
(* run_step: the actions of a response.                                     *)
(***************************************************************************)
Acting == run.at = "actions" /\ run.actions > 0
Skip(r) == [r EXCEPT !.at = "actions", !.actions = @ - 1]

\* check_destination, of any registered tool: a violation stops the step.
CheckUse ==
    /\ Acting
    /\ \E tool \in Tools :
        /\ Uses[tool] # None
        /\ Ledger!CheckDestination(ledger, ledger', exported, Uses[tool])
    /\ Saved \/ Unsaved
    /\ Goto("failed")

\* authorize_tool, after it.  If the export of the reservation fails, the action counts
\* as refused although the reservation is in the row.  A variant goes on.
Request(tool, selected) ==
    [tool |-> tool, evidence |-> EvidenceIds, selected |-> selected,
     destination |-> Uses[tool]]
Reserved == Len(ledger'.executions) > Len(ledger.executions)
Permit == run' = [run EXCEPT !.at = "permitted", !.permit = Len(ledger'.executions)]

AuthorizeUnsaved ==
    /\ Acting
    /\ \E tool \in Tools, selected \in BOOLEAN :
        Ledger!AuthorizeTool(ledger, ledger', exported, run.turn, Request(tool, selected))
    /\ Saved \/ Unsaved
    /\ IF Reserved THEN Permit ELSE Goto("failed")
Authorize ==
    /\ Acting
    /\ \E tool \in Tools, selected \in BOOLEAN :
        Ledger!AuthorizeTool(ledger, ledger', exported, run.turn, Request(tool, selected))
    /\ \/ ~Reserved /\ (Saved \/ Unsaved) /\ Goto("failed")
       \/ Reserved /\ Saved /\ Permit
       \/ Reserved /\ Unsaved /\ run' = Skip(run)

\* The store refuses and records nothing: the model is told, if the step is
\* still running.
Refuse ==
    /\ Acting
    /\ Unchanged
    /\ run' = IF Running THEN Skip(run) ELSE [run EXCEPT !.at = "failed"]

\* The tool's own services are recorded before it runs.
RecordServices ==
    /\ run.at = "permitted"
    /\ LET d == Uses[ledger.executions[run.permit].tool]
       IN  \/ d = None /\ Unchanged /\ Goto("calling")
           \/ /\ d # None
              /\ RecordUse(d)
              /\ \/ Saved /\ Goto(IF RunsIn(ledger') THEN "calling" ELSE "failed")
                 \/ Unsaved /\ Goto("failed")

\* The response of a media service is recorded before the call is completed, so
\* a failure here leaves the call open, although its tool has run.
RecordResponse ==
    /\ run.at = "calling"
    /\ LET d == Uses[ledger.executions[run.permit].tool]
       IN  /\ d # None
           /\ RecordUse(d)
           /\ \/ Saved /\ Goto(IF RunsIn(ledger') THEN "calling" ELSE "failed")
              \/ Unsaved /\ Goto("failed")

\* The tool returns, fails or times out.  Evidence that changed meanwhile makes
\* the outcome unknown and ends the run; so does, in the step's favour, an
\* output beyond its bound.
Complete ==
    /\ run.at = "calling"
    /\ \E o \in Outcomes, big \in BOOLEAN :
        /\ Ledger!CompleteTool(ledger, ledger', run.permit, o, big)
        /\ LET useful == Ledger!Usable(o)
               next == Skip([run EXCEPT !.progress = @ \/ useful,
                                        !.stale = IF useful THEN 0 ELSE @])
           IN  \/ Saved /\ run' = IF RunsIn(ledger') THEN next ELSE [next EXCEPT !.at = "answered"]
               \/ Saved /\ o.status = "Unknown" /\ Goto("failed")
               \/ Unsaved /\ Goto("failed")

EndRound ==
    /\ run.at = "actions" /\ run.actions = 0
    /\ Unchanged
    /\ run' = IF run.invalid /\ ~run.progress THEN NoProgress(run)
              ELSE [run EXCEPT !.at = "round"]

(***************************************************************************)
(* finish: findings one by one, then the checkpoint, then the proposals.    *)
(***************************************************************************)
Invalid == run' = [Skip(run) EXCEPT !.invalid = TRUE]

StartFinish == Acting /\ Unchanged /\ Goto("finish")

\* A finding that was recorded by an earlier attempt is passed over.
RecordFinding ==
    /\ run.at = "finish"
    /\ \E f \in FindingIds, kind \in Ledger!FindingKind, limited \in BOOLEAN :
        \E cites \in SUBSET Ledger!Prior(ledger, run.step) :
            Ledger!RecordFinding(ledger, ledger', f, run.step, kind, cites,
                                 EvidenceIds, limited)
    /\ \/ Saved /\ UNCHANGED run
       \/ Unsaved /\ Invalid

\* An error counts as a rejected attempt, also behind a checkpoint.
RejectFinish ==
    /\ run.at \in {"finish", "propose", "amend"}
    /\ Unchanged
    /\ Invalid

Checkpoint == Ledger!EndStep(ledger, ledger', run.turn, "Checkpoint")

\* A variant answers although the checkpoint is not in the files.
SaveCheckpointUnexported ==
    /\ run.at = "finish" /\ Checkpoint
    /\ Saved \/ Unsaved
    /\ Goto("propose")
SaveCheckpoint ==
    /\ run.at = "finish" /\ Checkpoint
    /\ \/ Saved /\ Goto("propose")
       \/ Unsaved /\ Invalid

\* Proposals that are refused, or whose export fails, become a limitation of a
\* second checkpoint.  The state is read once more behind either; when that
\* fails the attempt is rejected.
Propose ==
    /\ run.at = "propose"
    /\ \/ Unchanged /\ Goto("answered")
       \/ Unchanged /\ Goto("amend")
       \/ /\ \E ids \in SUBSET StepIds : Ledger!ProposeSteps(ledger, ledger', ids)
          /\ \/ Saved /\ (Goto("answered") \/ Invalid)
             \/ Unsaved /\ Goto("amend")

Amend ==
    /\ run.at = "amend" /\ Checkpoint
    /\ \/ Saved /\ (Goto("answered") \/ Invalid)
       \/ Unsaved /\ Invalid

(***************************************************************************)
(* The end of a turn, whatever it was.                                      *)
(***************************************************************************)
Answer == run.at = "answered" /\ Unchanged /\ run' = Idle

\* chat's cleanup: an error interrupts the step, also one with a checkpoint.  A
\* variant changes the state and leaves the calls of the step.
InterruptStateOnly ==
    /\ run.at = "failed"
    /\ ledger' = Ledger!Move(ledger, {run.step}, "Interrupted")
    /\ Saved \/ Unsaved
    /\ run' = Idle
Interrupt ==
    /\ run.at = "failed"
    /\ \/ /\ Ledger!EndStep(ledger, ledger', run.turn, "Interrupted")
          /\ Saved \/ Unsaved
          /\ run' = Idle
       \/ /\ ledger.steps[run.step].state \notin {"Running", "Checkpoint"}
          /\ Unchanged /\ run' = Idle
       \/ Fault /\ Goto("dropped")

\* The session drops a turn that was cancelled or timed out.
Drop ==
    /\ run.at \notin {"idle", "objective", "dropped"}
    /\ Unchanged
    /\ Goto("dropped")

\* The session's sweep: it interrupts running steps only.
Sweep ==
    /\ run.at = "dropped"
    /\ \/ /\ Running
          /\ Ledger!EndStep(ledger, ledger', run.turn, "Interrupted")
          /\ Saved \/ Unsaved
       \/ ~Running /\ Unchanged
       \/ Fault
    /\ run' = Idle

(***************************************************************************)
(* Between turns, and restarts.                                             *)
(***************************************************************************)
Command ==
    /\ run.at = "idle"
    /\ \/ Ledger!InvestigatorStep(ledger, ledger') /\ (Saved \/ Unsaved)
       \/ exported' = TRUE /\ UNCHANGED <<ledger, faults>>
    /\ UNCHANGED run

Restart ==
    /\ \/ Ledger!Reopen(ledger, ledger') /\ (Saved \/ Unsaved)
       \/ Ledger!Live(ledger) = {} /\ Saved /\ UNCHANGED ledger
    /\ run' = Idle

Chat == SaveObjective \/ ProposeInventory \/ \E turn \in TurnIds : Begin(turn)
Work ==
    \/ Exhausted \/ Ask \/ Respond \/ Break
    \/ CheckUse \/ Authorize \/ Refuse \/ RecordServices
    \/ RecordResponse \/ Complete \/ EndRound \/ StartFinish \/ RecordFinding \/ RejectFinish
    \/ SaveCheckpoint \/ Propose \/ Amend
    \/ Answer \/ Interrupt \/ Sweep
Next == Chat \/ Work \/ Drop \/ Command \/ Restart

Spec == Init /\ [][Next]_vars

\* A turn that is polled goes on.
FairSpec == Spec /\ WF_vars(Work)

-----------------------------------------------------------------------------
TypeOK ==
    /\ ledger \in Ledger!Snapshot /\ exported \in BOOLEAN
    /\ run \in Run /\ faults \in 0..MaxFaults

\* What a tool does is on record, in the files too, before it does it: its call
\* is the last reserved by this turn, is open, and its service is recorded.
ToolRunsOnRecord ==
    run.at = "calling" =>
        /\ exported /\ Running
        /\ run.permit = Len(ledger.executions)
        /\ LET call == ledger.executions[run.permit]
           IN  /\ call.step = run.step /\ call.turn = run.turn /\ call.outcome = None
               /\ call.destination # None =>
                   [turn |-> run.turn, destination |-> call.destination] \in ledger.providers

\* "A caller must not claim a report was saved after an error": the turn that
\* answers has left its step with a checkpoint, and the files show it.
AnswerIsSaved ==
    run.at = "answered" => exported /\ ledger.steps[run.step].state = "Checkpoint"

\* A call that was permitted is closed when its turn ends, however it ends,
\* unless the step still runs because its interruption could not be saved.  (A
\* call whose reservation could not be exported is refused, and may stay open.)
PermittedCallIsClosed ==
    [][run.at # "idle" /\ run'.at = "idle" /\ run.permit # 0
       => \/ ledger'.executions[run.permit].outcome # None
          \/ RunsIn(ledger')]_vars

\* The runtime only ever takes steps that the ledger allows, although it acts
\* on what it read before: what is proved of Investigation holds here.
ImplementsLedger == Ledger!Spec

\* A turn that has begun a step ends, whatever the provider answers and the store
\* refuses.
RunEnds == run.turn # None ~> run.at = "idle"
=============================================================================
