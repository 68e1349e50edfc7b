------------------------------- MODULE Session -------------------------------
(***************************************************************************)
(* One AgentSession (src/src/session.rs) and the calls that share it: turns, *)
(* investigator commands, cancellation and close.                           *)
(*                                                                          *)
(* Every call is a task.  A label of pc is a point where the task may be     *)
(* preempted, dropped with its future, or lost with the process.  turn_gate  *)
(* is a fair mutex: turns and commands only try it, close queues for it, and *)
(* a released gate goes to the first in the queue.                          *)
(*                                                                          *)
(* Of the investigation only the step that could run is kept, of the runtime *)
(* what it does to that step.                                               *)
(***************************************************************************)
EXTENDS Integers, Sequences, SequencesExt

CONSTANTS
    Turns,          \* calls of submit with an instruction: also their turn ids
    Commands,       \* investigator commands, and calls of clear_history
    Closers,        \* calls of close
    Droppable,      \* the calls whose future its owner may drop
    MaxFailures,    \* bound: database statements that fail
    MaxRestarts,    \* bound: restarts of the process
    None

Calls == Turns \cup Commands \cup Closers

ASSUME SessionAssumption ==
    /\ None \notin Calls \cup {"Completed", "Cancelled", "Failed", "Unswept"}
    /\ Turns \cap Commands = {} /\ (Turns \cup Commands) \cap Closers = {}
    /\ Droppable \subseteq Calls
    /\ MaxFailures \in Nat /\ MaxRestarts \in Nat

VARIABLES
    status, active, history,        \* memory; active is the id of active_turn
    cancelled,                      \* the turns whose token is cancelled
    gate, queue,                    \* the owner of turn_gate, and who waits
    pc, outcome,                    \* of each call; of each turn
    step, runner,                   \* the step that could run, and its turn
    messages,                       \* rows of agent_messages
    uiTurn, events,                 \* the turn that events are labelled with
    failures, restarts              \* counters of the bounds

memory == <<status, active, history, cancelled, gate, queue>>
investigation == <<step, runner>>
ui == <<uiTurn, events>>
bounds == <<failures, restarts>>
vars == <<memory, pc, outcome, investigation, messages, ui, bounds>>

Statuses == {"Idle", "Running", "Closed"}
\* "unsettled": submit returned early because the status could not be saved.
Final == {"done", "unsettled", "dropped", "lost"}
Points == Final \cup
    {"new", "checked", "gated", "active", "started", "unsaved", "saved",
     "select", "chat", "ended", "swept", "cleared", "idle", "answered",
     "wiped", "waiting"}
\* "Unswept": the interruption of the step could not be saved or exported.
Outcomes == {"Completed", "Cancelled", "Failed", "Unswept", None}
Message == [turn : Turns, role : {"user", "assistant"}]
Event == [turn : Turns \cup {None}, kind : {"Started", "Completed", "Cancelled", "Failed"}]

Init ==
    /\ status = "Idle" /\ active = None /\ cancelled = {}
    /\ gate = None /\ queue = <<>>
    /\ history = <<>> /\ messages = <<>>
    /\ pc = [c \in Calls |-> "new"] /\ outcome = [t \in Turns |-> None]
    /\ step \in {"Ended", "PendingApproval"} /\ runner = None
    /\ uiTurn = None /\ events = <<>>
    /\ failures = 0 /\ restarts = 0

Goto(c, from, to) == pc[c] = from /\ pc' = [pc EXCEPT ![c] = to]

\* A statement that succeeds, or fails within the bound.
Statement(ok) ==
    /\ ok \/ failures < MaxFailures
    /\ failures' = IF ok THEN failures ELSE failures + 1
    /\ UNCHANGED restarts

\* A variant forgets the calls that wait.
ReleaseToNobody == gate' = None /\ UNCHANGED queue
Release ==
    IF queue = <<>> THEN gate' = None /\ UNCHANGED queue
                    ELSE gate' = Head(queue) /\ queue' = Tail(queue)

TryLock(c) == gate = None /\ gate' = c /\ UNCHANGED queue
KeepGate == UNCHANGED <<gate, queue>>

\* set_status changes memory first; nothing here reads the row of agent_sessions
\* that it changes next.
SetStatus(value, ok) ==
    /\ status' = value
    /\ Statement(ok)

ClearActive(t) == active' = IF active = t THEN None ELSE active
Emit(kind) == events' = Append(events, [turn |-> uiTurn, kind |-> kind])

(***************************************************************************)
(* submit.                                                                  *)
(***************************************************************************)
Check(t) ==
    /\ pc[t] = "new"
    /\ pc' = [pc EXCEPT ![t] = IF status = "Closed" THEN "done" ELSE "checked"]
    /\ UNCHANGED <<memory, outcome, investigation, messages, ui, bounds>>

\* The gate is tried and the status is checked again under it: only its owner
\* changes the status.  A variant relies on the first check.
EnterUnchecked(t) ==
    /\ \/ TryLock(t) /\ Goto(t, "checked", "gated")
       \/ gate # None /\ KeepGate /\ Goto(t, "checked", "done")
    /\ UNCHANGED <<status, active, history, cancelled, outcome, investigation, messages, ui, bounds>>
Enter(t) ==
    /\ \/ status # "Closed" /\ TryLock(t) /\ Goto(t, "checked", "gated")
       \/ /\ status = "Closed" \/ gate # None
          /\ KeepGate /\ Goto(t, "checked", "done")
    /\ UNCHANGED <<status, active, history, cancelled, outcome, investigation, messages, ui, bounds>>

Activate(t) ==
    /\ Goto(t, "gated", "active")
    /\ active' = t
    /\ UNCHANGED <<status, history, cancelled, gate, queue, outcome, investigation, messages, ui, bounds>>

\* Variants publish the start before they set the turn's id, and make the token
\* of the turn anew although it may be cancelled already.
StartUnlabelled(t) ==
    /\ \/ /\ SetStatus("Running", TRUE) /\ Goto(t, "active", "started")
          /\ Emit("Started") /\ uiTurn' = t
          /\ KeepGate /\ UNCHANGED active
       \/ /\ SetStatus("Running", FALSE) /\ Goto(t, "active", "unsettled")
          /\ ClearActive(t) /\ Release
          /\ UNCHANGED ui
    /\ UNCHANGED <<history, cancelled, outcome, investigation, messages>>
StartAfresh(t) ==
    /\ SetStatus("Running", TRUE) /\ Goto(t, "active", "started")
    /\ uiTurn' = t
    /\ events' = Append(events, [turn |-> t, kind |-> "Started"])
    /\ cancelled' = cancelled \ {t}
    /\ KeepGate /\ UNCHANGED <<active, history, outcome, investigation, messages>>
Start(t) ==
    /\ \/ /\ SetStatus("Running", TRUE) /\ Goto(t, "active", "started")
          /\ uiTurn' = t
          /\ events' = Append(events, [turn |-> t, kind |-> "Started"])
          /\ KeepGate /\ UNCHANGED active
       \/ /\ SetStatus("Running", FALSE) /\ Goto(t, "active", "unsettled")
          /\ ClearActive(t) /\ Release
          /\ UNCHANGED ui
    /\ UNCHANGED <<history, cancelled, outcome, investigation, messages>>

SaveInstruction(t) ==
    /\ \/ /\ Statement(TRUE) /\ Goto(t, "started", "saved")
          /\ messages' = Append(messages, [turn |-> t, role |-> "user"])
       \/ /\ Statement(FALSE) /\ Goto(t, "started", "unsaved")
          /\ UNCHANGED messages
    /\ UNCHANGED <<memory, outcome, investigation, ui>>

\* The error path of the above ignores whether the status is saved.
Refuse(t) ==
    /\ Goto(t, "unsaved", "done")
    /\ ClearActive(t) /\ \E ok \in BOOLEAN : SetStatus("Idle", ok)
    /\ Emit("Failed") /\ uiTurn' = None
    /\ Release
    /\ UNCHANGED <<history, cancelled, outcome, investigation, messages>>

Remember(t) ==
    /\ Goto(t, "saved", "select")
    /\ history' = Append(history, [turn |-> t, role |-> "user"])
    /\ UNCHANGED <<status, active, cancelled, gate, queue, outcome, investigation, messages, ui, bounds>>

\* The biased select: cancellation is looked at first, on every poll.
Poll(t) ==
    /\ t \notin cancelled
    /\ Goto(t, "select", "chat")
    /\ UNCHANGED <<memory, outcome, investigation, messages, ui, bounds>>

End(t, from, result) ==
    /\ Goto(t, from, "ended")
    /\ outcome' = [outcome EXCEPT ![t] = result]

ObserveCancel(t) ==
    /\ t \in cancelled
    /\ End(t, "select", "Cancelled")
    /\ UNCHANGED <<memory, investigation, messages, ui, bounds>>

(***************************************************************************)
(* What one poll of the runtime does to the step.                           *)
(***************************************************************************)
BeginStep(t) ==
    /\ pc[t] = "chat"
    /\ step = "Approved"
    /\ step' = "Running" /\ runner' = t
    /\ UNCHANGED <<memory, pc, outcome, messages, ui, bounds>>

Wait(t) ==
    /\ Goto(t, "chat", "select")
    /\ UNCHANGED <<memory, outcome, investigation, messages, ui, bounds>>

EndStep(t, states) == runner = t /\ runner' = None /\ step' \in states

\* A checkpoint, a violation or a limit ends the step before the answer.
StopStep(t) ==
    /\ pc[t] = "chat"
    /\ EndStep(t, {"Ended"})
    /\ UNCHANGED <<memory, pc, outcome, messages, ui, bounds>>

\* The runtime answers only when its step has ended.  Whether or not it had
\* one, it may have proposed the next.
Answer(t) ==
    /\ End(t, "chat", "Completed")
    /\ \/ EndStep(t, {"Ended", "PendingApproval"})
       \/ runner # t /\ step # "Approved" /\ UNCHANGED investigation
       \/ runner = None /\ step = "Ended" /\ step' = "PendingApproval" /\ UNCHANGED runner
    /\ UNCHANGED <<memory, messages, ui, bounds>>

\* An error interrupts the step, if that can be persisted.
Err(t) ==
    /\ End(t, "chat", "Failed")
    /\ \E ok \in BOOLEAN :
        /\ Statement(ok)
        /\ \/ EndStep(t, {"Ended"})
           \/ (ok => runner # t) /\ UNCHANGED investigation
    /\ UNCHANGED <<memory, messages, ui>>

\* turn_timeout_secs have passed: the runtime's future is dropped.  A variant
\* bounds only the time up to the step.
TimeOutBeforeStep(t) ==
    /\ runner # t
    /\ End(t, "chat", "Failed")
    /\ UNCHANGED <<memory, investigation, messages, ui, bounds>>
TimeOut(t) ==
    /\ End(t, "chat", "Failed")
    /\ UNCHANGED <<memory, investigation, messages, ui, bounds>>

(***************************************************************************)
(* The end of submit.                                                       *)
(***************************************************************************)
\* Every running step is interrupted unless the turn completed; what fails is
\* reported, also when the interruption was saved and only its export failed.  A
\* variant interrupts only after a cancellation.
SweepCancelled(t) ==
    /\ Goto(t, "ended", "swept")
    /\ IF outcome[t] = "Cancelled" /\ step = "Running"
       THEN step' = "Ended" /\ runner' = None ELSE UNCHANGED investigation
    /\ UNCHANGED <<memory, outcome, messages, ui, bounds>>
Sweep(t) ==
    /\ Goto(t, "ended", "swept")
    /\ \/ /\ outcome[t] = "Completed" \/ step # "Running"
          /\ UNCHANGED <<investigation, outcome, bounds>>
       \/ /\ outcome[t] # "Completed" /\ step = "Running"
          /\ step' = "Ended" /\ runner' = None
          /\ UNCHANGED <<outcome, bounds>>
       \/ /\ outcome[t] # "Completed" /\ Statement(FALSE)
          /\ outcome' = [outcome EXCEPT ![t] = "Unswept"]
          /\ \/ UNCHANGED investigation
             \/ step = "Running" /\ step' = "Ended" /\ runner' = None
    /\ UNCHANGED <<memory, messages, ui>>

Deactivate(t) ==
    /\ Goto(t, "swept", "cleared")
    /\ ClearActive(t)
    /\ UNCHANGED <<status, history, cancelled, gate, queue, outcome, investigation, messages, ui, bounds>>

\* A failure returns at once: no event, no answer, and ui keeps the turn's id.  A
\* variant gives the gate back with the status.
BecomeIdleUngated(t) ==
    /\ \E ok \in BOOLEAN :
        /\ SetStatus("Idle", ok)
        /\ Goto(t, "cleared", IF ok THEN "idle" ELSE "unsettled")
    /\ Release
    /\ UNCHANGED <<active, history, cancelled, outcome, investigation, messages, ui>>
BecomeIdle(t) ==
    /\ \/ SetStatus("Idle", TRUE) /\ Goto(t, "cleared", "idle") /\ KeepGate
       \/ SetStatus("Idle", FALSE) /\ Goto(t, "cleared", "unsettled") /\ Release
    /\ UNCHANGED <<active, history, cancelled, outcome, investigation, messages, ui>>

Return(t, from) == Goto(t, from, "done") /\ uiTurn' = None /\ Release

\* The answer is saved, then remembered and published.  A variant publishes it
\* whether or not it was saved.
SaveAnswerUnchecked(t) ==
    /\ outcome[t] = "Completed"
    /\ \E ok \in BOOLEAN :
        /\ Statement(ok) /\ Goto(t, "idle", "answered")
        /\ messages' = IF ok THEN Append(messages, [turn |-> t, role |-> "assistant"])
                             ELSE messages
    /\ UNCHANGED <<memory, outcome, investigation, ui>>
SaveAnswer(t) ==
    /\ outcome[t] = "Completed"
    /\ \/ /\ Statement(TRUE) /\ Goto(t, "idle", "answered")
          /\ messages' = Append(messages, [turn |-> t, role |-> "assistant"])
          /\ KeepGate /\ UNCHANGED ui
       \/ /\ Statement(FALSE) /\ Return(t, "idle") /\ Emit("Failed")
          /\ UNCHANGED messages
    /\ UNCHANGED <<status, active, history, cancelled, outcome, investigation>>

Publish(t) ==
    /\ Return(t, "answered")
    /\ history' = Append(history, [turn |-> t, role |-> "assistant"])
    /\ Emit("Completed")
    /\ UNCHANGED <<status, active, cancelled, outcome, investigation, messages, bounds>>

Report(t) ==
    /\ outcome[t] # "Completed"
    /\ Return(t, "idle")
    /\ Emit(IF outcome[t] = "Cancelled" THEN "Cancelled" ELSE "Failed")
    /\ UNCHANGED <<status, active, history, cancelled, outcome, investigation, messages, bounds>>

Submit(t) ==
    \/ Check(t) \/ Enter(t) \/ Activate(t) \/ Start(t)
    \/ SaveInstruction(t) \/ Refuse(t) \/ Remember(t)
    \/ Poll(t) \/ ObserveCancel(t)
    \/ BeginStep(t) \/ Wait(t) \/ StopStep(t) \/ Answer(t) \/ Err(t) \/ TimeOut(t)
    \/ Sweep(t) \/ Deactivate(t) \/ BecomeIdle(t)
    \/ SaveAnswer(t) \/ Publish(t) \/ Report(t)

(***************************************************************************)
(* Commands, cancellation and close.                                        *)
(***************************************************************************)
\* A variant looks at the status instead of the gate.
TakeUngated(c) ==
    /\ \/ status = "Idle" /\ gate' = c /\ UNCHANGED queue /\ Goto(c, "new", "gated")
       \/ status # "Idle" /\ KeepGate /\ Goto(c, "new", "done")
    /\ UNCHANGED <<status, active, history, cancelled, outcome, investigation, messages, ui, bounds>>
Take(c) ==
    /\ \/ status # "Closed" /\ TryLock(c) /\ Goto(c, "new", "gated")
       \/ /\ status = "Closed" \/ gate # None
          /\ KeepGate /\ Goto(c, "new", "done")
    /\ UNCHANGED <<status, active, history, cancelled, outcome, investigation, messages, ui, bounds>>

\* prepare_case, propose_steps, decide_step, review_finding, repair_exports: the
\* investigation refuses the first three while a step runs.
Manage(c) ==
    /\ Goto(c, "gated", "done")
    /\ \/ UNCHANGED investigation
       \/ /\ step # "Running"
          /\ step' \in {"PendingApproval", "Ended"}
                \cup (IF step = "PendingApproval" THEN {"Approved"} ELSE {})
          /\ UNCHANGED runner
    /\ Release
    /\ UNCHANGED <<status, active, history, cancelled, outcome, messages, ui, bounds>>

\* clear_history: the rows first.  It may fail after it deleted them, on the
\* older table of the default session.
WipeRows(c) ==
    /\ \/ /\ Statement(TRUE) /\ Goto(c, "gated", "wiped") /\ KeepGate
          /\ messages' = <<>>
       \/ /\ Statement(FALSE) /\ Goto(c, "gated", "done") /\ Release
          /\ messages' \in {messages, <<>>}
    /\ UNCHANGED <<status, active, history, cancelled, outcome, investigation, ui>>
\* A variant forgets the history in memory.
WipeRowsOnly(c) ==
    /\ Goto(c, "wiped", "done") /\ Release
    /\ UNCHANGED <<status, active, history, cancelled, outcome, investigation, messages, ui, bounds>>
WipeMemory(c) ==
    /\ Goto(c, "wiped", "done") /\ Release
    /\ history' = <<>>
    /\ UNCHANGED <<status, active, cancelled, outcome, investigation, messages, ui, bounds>>

Command(c) == Take(c) \/ Manage(c) \/ WipeRows(c) \/ WipeMemory(c)

\* cancel, of whatever turn is active or of a given one.
Cancel ==
    /\ active # None
    /\ cancelled' = cancelled \cup {active}
    /\ UNCHANGED <<status, active, history, gate, queue, pc, outcome, investigation, messages, ui, bounds>>

\* close cancels, then waits for the gate.
StartClose(k) ==
    /\ Goto(k, "new", "waiting")
    /\ cancelled' = cancelled \cup ({active} \ {None})
    /\ IF gate = None THEN gate' = k /\ UNCHANGED queue
                      ELSE UNCHANGED gate /\ queue' = Append(queue, k)
    /\ UNCHANGED <<status, active, history, outcome, investigation, messages, ui, bounds>>

EndClose(k) ==
    /\ gate = k
    /\ Release
    /\ \E ok \in BOOLEAN :
        /\ Goto(k, "waiting", IF ok THEN "done" ELSE "unsettled")
        /\ SetStatus("Closed", ok)
    /\ UNCHANGED <<active, history, cancelled, outcome, investigation, messages, ui>>

Close(k) == StartClose(k) \/ EndClose(k)

(***************************************************************************)
(* Dropped futures and restarts.                                            *)
(***************************************************************************)
\* Nothing of a dropped call runs again: only its guard is released.
Drop(c) ==
    /\ c \in Droppable
    /\ pc[c] \notin Final \cup {"new"}
    /\ pc' = [pc EXCEPT ![c] = "dropped"]
    /\ IF gate = c THEN Release
                   ELSE UNCHANGED gate /\ queue' = SelectSeq(queue, LAMBDA d : d # c)
    /\ UNCHANGED <<status, active, history, cancelled, outcome, investigation, messages, ui, bounds>>

\* The process ends and the session is opened again: ensure_session keeps the
\* status of the row, the investigation interrupts a step that was live.
Reopen ==
    /\ restarts < MaxRestarts
    /\ restarts' = restarts + 1
    /\ status' = "Idle" /\ active' = None /\ history' = messages
    /\ gate' = None /\ queue' = <<>>
    /\ pc' = [c \in Calls |-> IF pc[c] \in Final \cup {"new"} THEN pc[c] ELSE "lost"]
    /\ step' = IF step = "PendingApproval" THEN step ELSE "Ended"
    /\ runner' = None /\ uiTurn' = None
    /\ UNCHANGED <<cancelled, outcome, messages, events, failures>>

Next ==
    \/ \E t \in Turns : Submit(t)
    \/ \E c \in Commands : Command(c)
    \/ \E k \in Closers : Close(k)
    \/ \E c \in Calls : Drop(c)
    \/ Cancel \/ Reopen

Spec == Init /\ [][Next]_vars

\* The runtime of the futures polls every task that is ready, and the timer of
\* a turn fires.  A client may leave a call at "new", and nobody need cancel.
Fairness ==
    /\ \A t \in Turns : WF_vars(pc[t] # "new" /\ Submit(t)) /\ SF_vars(TimeOut(t))
    /\ \A c \in Commands : WF_vars(pc[c] # "new" /\ Command(c))
    /\ \A k \in Closers : WF_vars(EndClose(k))
FairSpec == Spec /\ Fairness

-----------------------------------------------------------------------------
TypeOK ==
    /\ status \in Statuses /\ active \in Turns \cup {None} /\ cancelled \subseteq Turns
    /\ gate \in Calls \cup {None} /\ queue \in Seq(Closers)
    /\ history \in Seq(Message) /\ messages \in Seq(Message)
    /\ pc \in [Calls -> Points] /\ outcome \in [Turns -> Outcomes]
    /\ step \in {"Ended", "PendingApproval", "Approved", "Running"}
    /\ runner \in Turns \cup {None}
    /\ uiTurn \in Turns \cup {None} /\ events \in Seq(Event)
    /\ failures \in 0..MaxFailures /\ restarts \in 0..MaxRestarts

\* What a session has when no call is inside it.
Quiet == gate = None

\* A closed session changes nothing any more, whatever was under way.
ClosedForGood ==
    [][status = "Closed" /\ restarts' = restarts
       => /\ status' = "Closed" /\ active' = active
          /\ UNCHANGED <<history, messages, investigation, ui>>]_vars

\* No step runs unless its turn is still inside the session, was told that the
\* interruption was not saved, or had its future dropped by its owner.
NoStrayStep ==
    step = "Running" =>
        \/ gate = runner
        \/ outcome[runner] = "Unswept"
        \/ pc[runner] = "dropped"

\* While a turn waits for the runtime, which has read the step and the history,
\* nobody decides, proposes or clears anything.
TurnsWorkAlone ==
    [][\A t \in Turns : pc[t] = "select" /\ restarts' = restarts
        => UNCHANGED <<investigation, history, messages>>]_vars

\* Between calls the model is shown the conversation that is stored: memory has
\* it all, and has more only after a clear_history that reported a failure.
HistoryIsStored ==
    Quiet /\ (\A c \in Calls : pc[c] # "dropped") =>
        /\ IsSuffix(messages, history)
        /\ failures = 0 => messages = history

\* A turn publishes its start and then one end, under its own id; the end is
\* missing only if submit failed to save the status, or never returned.
OfTurn(t) == {i \in DOMAIN events : events[i].turn = t}
Ends == {"Completed", "Cancelled", "Failed"}
EventsOfATurn ==
    /\ \A i \in DOMAIN events : events[i].turn # None
    /\ \A t \in Turns :
        \/ OfTurn(t) = {} /\ pc[t] # "answered"
        \/ \E i \in DOMAIN events :
            /\ events[i].kind = "Started"
            /\ \/ OfTurn(t) = {i} /\ pc[t] # "done"
               \/ \E j \in DOMAIN events :
                   /\ OfTurn(t) = {i, j} /\ i < j
                   /\ events[j].kind \in Ends /\ pc[t] = "done"

\* Whoever is told that a turn completed finds its answer at the end of the
\* conversation, in memory and stored.
AnswerStored ==
    [][\A t \in Turns :
        Len(events') > Len(events) /\ Last(events') = [turn |-> t, kind |-> "Completed"]
        => /\ Last(messages') = [turn |-> t, role |-> "assistant"]
           /\ Last(history') = Last(messages')]_vars

\* In the rows and in memory every answer follows its own instruction directly,
\* whatever was cleared, failed, was dropped or lost between the two.
AnswersFollowInstructions ==
    \A talk \in {messages, history} : \A i \in DOMAIN talk :
        talk[i].role = "assistant" =>
            i > 1 /\ talk[i - 1] = [turn |-> talk[i].turn, role |-> "user"]

\* A turn that is cancelled while its runtime is not being polled, and that has
\* not completed, stays so for good: no request leaves any more, no step begins,
\* and no answer is stored, remembered or announced, whatever happens next.
Answered(t) ==
    \/ \E talk \in {messages, history} : \E i \in DOMAIN talk :
            talk[i] = [turn |-> t, role |-> "assistant"]
    \/ \E i \in DOMAIN events : events[i] = [turn |-> t, kind |-> "Completed"]
Unserved(t) ==
    /\ t \in cancelled /\ outcome[t] # "Completed" /\ ~Answered(t)
    /\ pc[t] \notin {"new", "checked", "gated", "chat"}
CancelledIsHeeded == [][\A t \in Turns : Unserved(t) => Unserved(t)']_vars

\* Whoever submits gets an answer; close closes, even if its cancellation came
\* before the turn could be cancelled.
TurnsEnd == \A t \in Turns : pc[t] = "checked" ~> pc[t] \in Final
CloseCloses == \A k \in Closers : pc[k] = "waiting" ~> status = "Closed" \/ pc[k] \in {"dropped", "lost"}
=============================================================================
