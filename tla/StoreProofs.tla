----------------------------- MODULE StoreProofs -----------------------------
(***************************************************************************)
(* Theorems about InvestigationStore, for any number of stores, any plan    *)
(* and any bound on revisions: the stores implement the ledger, so that what *)
(* is proved of the ledger holds of the row they share, and the files are    *)
(* what the row's exported revision says they are.                          *)
(*                                                                          *)
(* The argument: a snapshot that a call holds at the row's revision is the  *)
(* row, or the row with its lost calls closed (Current); the write lock is  *)
(* held exactly by the one call that writes files (CallOf); a row that is   *)
(* marked as exported, or was when a call loaded it, has its files          *)
(* (MarkedFiles).                                                           *)
(***************************************************************************)
EXTENDS InvestigationStore, SequenceTheorems, TLAPS

Proven == INSTANCE InvestigationProofs WITH ledger <- db, exported <- TRUE

(***************************************************************************)
(* The ledger of the model and the one the lemmas are about are the same.   *)
(***************************************************************************)
\* The constants satisfy what the lemmas of InvestigationProofs assume.
LEMMA ProvenAssumptions ==
  /\ StepIds \cap FindingIds = {} /\ None \notin TurnIds /\ Proven!IsFiniteSet(StepIds)
  /\ Briefs \subseteq Proven!CaseBrief /\ None \notin Briefs
  /\ Plan \in [StepIds -> Proven!StepProposal]
  /\ Outcomes \subseteq Proven!ToolOutcome
  /\ None \notin Proven!ToolOutcome /\ None \notin Destinations /\ MaxReviews \in Nat
  BY LedgerAssumption
     DEF IsFiniteSet, Proven!IsFiniteSet, Ledger!CaseBrief, Proven!CaseBrief,
         Ledger!StepProposal, Proven!StepProposal, Ledger!ToolOutcome, Proven!ToolOutcome,
         Ledger!ToolStatus, Proven!ToolStatus

\* Types, operations and invariants of the two instances expand to the same.
LEMMA SameLedger ==
  /\ Ledger!Snapshot = Proven!Snapshot
  /\ \A s, t, ready : Ledger!Transition(s, t, ready) <=> Proven!Transition(s, t, ready)
  /\ \A s : Ledger!RunningSteps(s) = Proven!RunningSteps(s)
  /\ \A s, calls : Ledger!CloseCalls(s, calls) = Proven!CloseCalls(s, calls)
  /\ \A s, ids, state : Ledger!Move(s, ids, state) = Proven!Move(s, ids, state)
  /\ Ledger!Init <=> Proven!Init
  /\ [Ledger!Next]_(Ledger!vars) <=> [Proven!Next]_(Proven!vars)
  BY DEF
    Ledger!StepStates, Proven!StepStates, Ledger!HumanDecision,
    Proven!HumanDecision, Ledger!ToolStatus, Proven!ToolStatus, Ledger!FindingKind,
    Proven!FindingKind, Ledger!ReviewStatus, Proven!ReviewStatus, Ledger!CaseBrief,
    Proven!CaseBrief, Ledger!StepProposal, Proven!StepProposal, Ledger!ToolOutcome,
    Proven!ToolOutcome, Ledger!StepRecord, Proven!StepRecord,
    Ledger!ExecutionRecord, Proven!ExecutionRecord, Ledger!DecisionRecord,
    Proven!DecisionRecord, Ledger!ProviderRecord, Proven!ProviderRecord,
    Ledger!FindingRecord, Proven!FindingRecord, Ledger!Snapshot, Proven!Snapshot,
    Ledger!StepsIn, Proven!StepsIn, Ledger!RunningSteps, Proven!RunningSteps,
    Ledger!Prior, Proven!Prior, Ledger!Calls, Proven!Calls, Ledger!Usable,
    Proven!Usable, Ledger!Spent, Proven!Spent, Ledger!Failures, Proven!Failures,
    Ledger!InFlight, Proven!InFlight, Ledger!ValidOutcome, Proven!ValidOutcome,
    Ledger!Lost, Proven!Lost, Ledger!Covers, Proven!Covers, Ledger!Allowed,
    Proven!Allowed, Ledger!Move, Proven!Move, Ledger!Retire, Proven!Retire,
    Ledger!Stop, Proven!Stop, Ledger!CloseCalls, Proven!CloseCalls,
    Ledger!SetCaseBrief, Proven!SetCaseBrief, Ledger!WellFormed, Proven!WellFormed,
    Ledger!ProposeSteps, Proven!ProposeSteps, Ledger!Decide, Proven!Decide,
    Ledger!Approve, Proven!Approve, Ledger!Reject, Proven!Reject, Ledger!DecideStep,
    Proven!DecideStep, Ledger!TurnIsNew, Proven!TurnIsNew, Ledger!MayBegin,
    Proven!MayBegin, Ledger!BeginStep, Proven!BeginStep, Ledger!Active,
    Proven!Active, Ledger!InScope, Proven!InScope, Ledger!Needs, Proven!Needs,
    Ledger!NeedsMet, Proven!NeedsMet, Ledger!WithinLimits, Proven!WithinLimits,
    Ledger!Reserve, Proven!Reserve, Ledger!AuthorizeTool, Proven!AuthorizeTool,
    Ledger!RecordProvider, Proven!RecordProvider, Ledger!CheckDestination,
    Proven!CheckDestination, Ledger!CompleteTool, Proven!CompleteTool,
    Ledger!EndStep, Proven!EndStep, Ledger!Observed, Proven!Observed,
    Ledger!Citable, Proven!Citable, Ledger!RecordFinding, Proven!RecordFinding,
    Ledger!ReviewFinding, Proven!ReviewFinding, Ledger!Live, Proven!Live,
    Ledger!Reopen, Proven!Reopen, Ledger!RepairExports, Proven!RepairExports,
    Ledger!Empty, Proven!Empty, Ledger!ToolCall, Proven!ToolCall, Ledger!Reviews,
    Proven!Reviews, Ledger!InvestigatorStep, Proven!InvestigatorStep,
    Ledger!ExecutionStep, Proven!ExecutionStep, Ledger!FindingStep,
    Proven!FindingStep, Ledger!RecoveryStep, Proven!RecoveryStep, Ledger!Transition,
    Proven!Transition, Ledger!Init, Proven!Init, Ledger!Next, Proven!Next,
    Ledger!vars, Proven!vars, Ledger!Cardinality, Proven!Cardinality,
    Ledger!IsFiniteSet, Proven!IsFiniteSet

\* The invariants of the two instances, before and after a step.
LEMMA SameInvariants ==
  /\ Ledger!Authority <=> Proven!Authority
  /\ Ledger!Authority' <=> Proven!Authority'
  BY DEF Ledger!Authority, Proven!Authority, Ledger!OneLiveStep, Proven!OneLiveStep,
         Ledger!HumanGranted, Proven!HumanGranted, Ledger!DecidedOnce, Proven!DecidedOnce,
         Ledger!TurnBinding, Proven!TurnBinding, Ledger!Decided, Proven!Decided,
         Ledger!Live, Proven!Live, Ledger!StepsIn, Proven!StepsIn

(***************************************************************************)
(* What the proofs below need of the ledger.                                *)
(***************************************************************************)
\* The first row is a well-typed ledger.
LEMMA EmptyRow ==
  ASSUME db = Ledger!Empty
  PROVE  db \in Ledger!Snapshot /\ Ledger!Authority
<1>1. Ledger!Init
  BY DEF Ledger!Init
<1>2. Proven!TypeOK /\ Proven!Authority
  BY <1>1, SameLedger, ProvenAssumptions, Proven!InitAuthority
<1>3. QED
  BY <1>2, SameLedger, SameInvariants DEF Proven!TypeOK

\* A step of the ledger keeps the row well typed and its authority whole.
LEMMA LedgerStep ==
  ASSUME db \in Ledger!Snapshot, Ledger!Authority, [Ledger!Next]_(Ledger!vars)
  PROVE  (db \in Ledger!Snapshot)' /\ Ledger!Authority'
<1>1. Proven!TypeOK /\ Proven!Authority /\ [Proven!Next]_(Proven!vars)
  BY SameLedger, SameInvariants DEF Proven!TypeOK
<1>2. Proven!TypeOK' /\ Proven!Authority'
  BY <1>1, ProvenAssumptions, Proven!NextAuthority
<1>3. (db \in Proven!Snapshot)'
  BY <1>2 DEF Proven!TypeOK
<1>4. (Ledger!Snapshot)' = (Proven!Snapshot)'
  BY SameLedger
<1>5. QED
  BY <1>2, <1>3, <1>4, SameInvariants

\* A change that begins a step or reserves a call was allowed to.
LEMMA ReservingNeedsReady ==
  ASSUME NEW s \in Ledger!Snapshot, s = db, Ledger!Authority, NEW t, NEW ready,
         Ledger!Transition(s, t, ready),
         \/ Len(t.executions) > Len(s.executions)
         \/ Ledger!RunningSteps(t) \ Ledger!RunningSteps(s) # {}
  PROVE  ready
<1>1. Proven!Bound(s)
  <2>1. Proven!TypeOK /\ Proven!Authority
    BY SameLedger, SameInvariants DEF Proven!TypeOK
  <2>2. QED
    BY <2>1, ProvenAssumptions, Proven!AuthorityBound
<1>2. s \in Proven!Snapshot /\ Proven!Transition(s, t, ready)
  BY SameLedger
<1>3. CASE Len(t.executions) > Len(s.executions)
  BY <1>2, <1>3, ProvenAssumptions, Proven!ReservedReady
<1>4. CASE Ledger!RunningSteps(t) \ Ledger!RunningSteps(s) # {}
  <2>1. Proven!RunningSteps(t) \ Proven!RunningSteps(s) # {}
    BY <1>4, SameLedger
  <2>2. QED
    BY <1>1, <1>2, <2>1, ProvenAssumptions, Proven!BegunReady
<1>5. QED
  BY <1>3, <1>4

\* Calls of e were closed as lost since f, or e is f.
Shows(e, f) ==
  /\ Len(e) = Len(f)
  /\ \A i \in DOMAIN e :
      \/ e[i] = f[i]
      \/ /\ f[i].outcome = None
         /\ [e[i] EXCEPT !.outcome = None] = f[i]

LEMMA ShowsItself ==
  ASSUME NEW e PROVE Shows(e, e)
  BY DEF Shows

\* open leaves a well-typed row in which only unfinished calls differ.
LEMMA InterruptedEffect ==
  ASSUME NEW s \in Ledger!Snapshot
  PROVE  Interrupted(s) \in Ledger!Snapshot /\ Shows(Interrupted(s).executions, s.executions)
<1> DEFINE m == Proven!Move(s, Ledger!Live(s), "Interrupted")
           c == Proven!CloseCalls(m, DOMAIN s.executions)
<1>1. m \in Proven!Snapshot /\ m.executions = s.executions
  BY SameLedger, ProvenAssumptions, Proven!MoveFrame DEF Proven!StepStates
<1>2. Interrupted(s) = c
  BY SameLedger DEF Interrupted
<1> HIDE DEF m
<1>3. /\ c \in Proven!Snapshot
      /\ DOMAIN c.executions = DOMAIN s.executions /\ Len(c.executions) = Len(s.executions)
      /\ \A i \in DOMAIN s.executions : c.executions[i] =
            IF i \in DOMAIN s.executions /\ s.executions[i].outcome = None
            THEN [s.executions[i] EXCEPT !.outcome = Proven!Lost] ELSE s.executions[i]
  BY <1>1, ProvenAssumptions, Proven!CloseCallsEffect
<1> HIDE DEF c
<1>4. ASSUME NEW i \in DOMAIN c.executions, s.executions[i].outcome = None
      PROVE  [c.executions[i] EXCEPT !.outcome = None] = s.executions[i]
  <2>1. s.executions[i] \in Proven!ExecutionRecord
    BY <1>3, SameLedger, ProvenAssumptions, Proven!ExecutionsType
  <2>2. QED
    BY <1>3, <1>4, <2>1 DEF Proven!ExecutionRecord
<1>5. QED
  BY <1>2, <1>3, <1>4, SameLedger DEF Shows

\* What may be done without ready files may be done with them.
LEMMA ReadyAllowsMore ==
  ASSUME NEW s, NEW t, NEW ready, Ledger!Transition(s, t, ready)
  PROVE  Ledger!Transition(s, t, TRUE)
<1>1. CASE Ledger!ExecutionStep(s, t, ready)
  <2>1. Ledger!ExecutionStep(s, t, TRUE)
    BY <1>1 DEF Ledger!ExecutionStep, Ledger!BeginStep, Ledger!AuthorizeTool,
                Ledger!RecordProvider, Ledger!CheckDestination
  <2>2. QED
    BY <2>1 DEF Ledger!Transition
<1>2. CASE ~Ledger!ExecutionStep(s, t, ready)
  BY <1>2 DEF Ledger!Transition
<1>3. QED
  BY <1>1, <1>2

(***************************************************************************)
(* The inductive invariant.                                                 *)
(***************************************************************************)
Locked == {"report", "log", "mark", "failed"}

\* Both files are those of the row.
Files == report = rev /\ Shows(log, db.executions)

\* What a call holds is what the row holds, while the row has its revision.
Current(c) ==
  /\ c.at \in {"change", "reopen"} /\ c.ready => Files
  /\ c.at = "change" => c.snap = db
  /\ c.at = "reopen" => c.snap = Interrupted(db) /\ (Ledger!Live(db) # {} \/ rev = 0)
  /\ c.at \in {"export"} \cup Locked => Shows(c.snap.executions, db.executions)
  /\ c.at \in {"log", "mark"} => report = rev
  /\ c.at = "mark" => log = c.snap.executions

\* Nobody commits while a call holds the lock: its revision is the row's.
CallOf(p) ==
  /\ call[p].rev <= rev
  /\ call[p].at \in Locked <=> lock = p
  /\ lock = p => call[p].rev = rev
  /\ call[p].rev = rev => Current(call[p])

FirstRow == rev = 0 => db = Ledger!Empty
MarkedFiles == report <= rev /\ mark <= rev /\ (mark = rev => Files)

StoreInv ==
  /\ TypeOK /\ Ledger!Authority
  /\ FirstRow /\ MarkedFiles
  /\ \A p \in Stores : CallOf(p)

(***************************************************************************)
(* The first state, and what a step of one store leaves to the others.      *)
(***************************************************************************)
\* Nobody is on the lock, and there is nothing to show.
LEMMA InitStore == Init => StoreInv
<1> SUFFICES ASSUME Init PROVE StoreInv
  OBVIOUS
<1>1. db \in Ledger!Snapshot /\ Ledger!Authority
  BY EmptyRow DEF Init
<1>2. At("closed") \in Call
  BY <1>1, StoresAssumption DEF At, Call, Points, Init
<1>3. TypeOK
  BY <1>1, <1>2, StoresAssumption, EmptySeq DEF TypeOK, Init
<1>4. ASSUME NEW p \in Stores PROVE CallOf(p)
  BY <1>4, StoresAssumption DEF CallOf, Current, Locked, Init, At
<1>5. FirstRow /\ MarkedFiles
  BY DEF FirstRow, MarkedFiles, Init
<1>6. QED
  BY <1>1, <1>3, <1>4, <1>5 DEF StoreInv

\* A call that is replaced is typed as what replaces it.
LEMMA CallReplaced ==
  ASSUME call \in [Stores -> Call], NEW p \in Stores, NEW c \in Call,
         call' = [call EXCEPT ![p] = c]
  PROVE  /\ call' \in [Stores -> Call] /\ call'[p] = c
         /\ \A q \in Stores \ {p} : call'[q] = call[q]
  OBVIOUS

\* The fields of a call in progress.
LEMMA CallFields ==
  ASSUME TypeOK, NEW p \in Stores
  PROVE  /\ call[p] \in Call /\ call[p].at \in Points /\ call[p].snap \in Ledger!Snapshot
         /\ call[p].rev \in 0..MaxRevision
         /\ call[p].ready \in BOOLEAN /\ call[p].opening \in BOOLEAN
  BY DEF TypeOK, Call

\* While the row stays, the other calls hold what they held: files that are
\* the row's stay so, and only the owner of the lock replaces them.
LEMMA OthersKept ==
  ASSUME StoreInv, NEW p \in Stores, NEW q \in Stores \ {p},
         call'[q] = call[q], lock' = q <=> lock = q, UNCHANGED <<db, rev>>,
         Files => Files', UNCHANGED <<report, log>> \/ lock = p
  PROVE  CallOf(q)'
<1>1. CallOf(q) /\ CallOf(p)
  BY DEF StoreInv
<1>2. call[q].rev = rev => Current(call[q])'
  <2>1. SUFFICES ASSUME Current(call[q]) PROVE Current(call[q])'
    BY <1>1 DEF CallOf
  <2>2. Interrupted(db)' = Interrupted(db) /\ Ledger!Live(db)' = Ledger!Live(db)
    BY DEF Interrupted, Ledger!CloseCalls, Ledger!Move, Ledger!Lost, Ledger!Live, Ledger!StepsIn
  <2>3. call[q].at \in {"log", "mark"} => UNCHANGED <<report, log>>
    BY <1>1 DEF CallOf, Locked
  <2>4. QED
    BY <2>1, <2>2, <2>3 DEF Current
<1>3. QED
  BY <1>1, <1>2 DEF CallOf

\* A step that leaves the row and the files alone needs to be right about its
\* own call only.
LEMMA QuietStep ==
  ASSUME StoreInv, UNCHANGED <<db, rev, report, log>>, NEW p \in Stores,
         NEW c \in Call, call' = [call EXCEPT ![p] = c],
         \A q \in Stores \ {p} : lock' = q <=> lock = q,
         lock' \in Stores \cup {None},
         mark' \in -1..MaxRevision, mark' <= rev, mark' = rev => Files,
         CallOf(p)'
  PROVE  StoreInv'
<1>1. TypeOK' /\ \A q \in Stores \ {p} : call'[q] = call[q]
  BY CallReplaced DEF StoreInv, TypeOK
<1>2. Ledger!Authority' /\ FirstRow'
  BY DEF StoreInv, FirstRow, Ledger!Authority, Ledger!OneLiveStep, Ledger!HumanGranted,
         Ledger!DecidedOnce, Ledger!TurnBinding
<1>3. Files <=> Files'
  BY DEF Files
<1>4. \A q \in Stores \ {p} : CallOf(q)'
  BY <1>1, <1>3, OthersKept
<1>5. MarkedFiles'
  BY <1>3 DEF StoreInv, MarkedFiles
<1>6. QED
  BY <1>1, <1>2, <1>4, <1>5 DEF StoreInv

(***************************************************************************)
(* One lemma per action.                                                    *)
(***************************************************************************)
\* A call that begins holds the row, or the row interrupted.
LEMMA BeginKeeps ==
  ASSUME StoreInv, NEW p \in Stores, call[p].at \notin Locked,
         NEW point \in {"change", "reopen", "export"}, NEW snap, NEW opening \in BOOLEAN,
         point = "reopen" => Ledger!Live(db) # {} \/ rev = 0,
         snap = IF opening THEN Interrupted(db) ELSE db,
         point = "change" => ~opening, point = "reopen" => opening,
         Begin(p, point, snap, opening)
  PROVE  StoreInv'
<1> DEFINE c == [at |-> point, snap |-> snap, rev |-> rev, ready |-> mark = rev,
                 opening |-> opening]
<1>1. snap \in Ledger!Snapshot /\ Shows(snap.executions, db.executions)
  BY InterruptedEffect, ShowsItself DEF StoreInv, TypeOK
<1>2. c \in Call
  BY <1>1 DEF StoreInv, TypeOK, Call, Points
<1>3. call' = [call EXCEPT ![p] = c] /\ UNCHANGED <<db, rev, mark, report, log, lock>>
  BY DEF Begin
<1>4. call'[p] = c
  BY <1>2, <1>3, CallReplaced DEF StoreInv, TypeOK
<1>5. lock # p
  BY DEF StoreInv, CallOf
<1>6. Current(c)'
  <2>1. Files => Files'
    BY <1>3 DEF Files
  <2>2. c.ready => Files
    BY DEF StoreInv, MarkedFiles
  <2>3. /\ Interrupted(db)' = Interrupted(db)
        /\ Ledger!Live(db)' = Ledger!Live(db)
    BY <1>3 DEF Interrupted, Ledger!CloseCalls, Ledger!Move, Ledger!Lost, Ledger!Live,
                Ledger!StepsIn
  <2>4. QED
    BY <1>1, <1>3, <2>1, <2>2, <2>3 DEF Current, Locked
<1>7. CallOf(p)'
  BY <1>3, <1>4, <1>5, <1>6 DEF CallOf, Locked, StoreInv, TypeOK
<1> HIDE DEF c
<1>8. QED
  BY <1>2, <1>3, <1>7, QuietStep DEF StoreInv, TypeOK, MarkedFiles

\* A call that ends holds nothing.
LEMMA EndKeeps ==
  ASSUME StoreInv, NEW p \in Stores, NEW point \in {"closed", "idle"},
         call' = [call EXCEPT ![p] = At(point)],
         UNCHANGED <<db, rev, report, log>>,
         lock' = IF lock = p THEN None ELSE lock,
         mark' \in -1..MaxRevision, mark' <= rev, mark' = rev => Files
  PROVE  StoreInv'
<1>1. At(point) \in Call
  <2>1. Ledger!Empty \in Ledger!Snapshot
    BY EmptySeq DEF Ledger!Empty, Ledger!Snapshot, Ledger!StepRecord, Ledger!ExecutionRecord,
                    Ledger!DecisionRecord
  <2>2. QED
    BY <2>1, StoresAssumption DEF At, Call, Points
<1>2. call'[p] = At(point)
  BY <1>1, CallReplaced DEF StoreInv, TypeOK
<1>3. lock' # p
  BY StoresAssumption
<1>4. CallOf(p)'
  BY <1>2, <1>3 DEF CallOf, Current, Locked, At, StoreInv, TypeOK
<1>5. QED
  BY <1>1, <1>4, QuietStep, StoresAssumption DEF StoreInv, TypeOK

LEMMA OpenKeeps ==
  ASSUME StoreInv, NEW p \in Stores, Open(p)
  PROVE  StoreInv'
<1>1. call[p].at = "closed" /\ call[p].at \notin Locked
  BY DEF Open, Locked
<1>2. CASE Begin(p, "reopen", Interrupted(db), TRUE) /\ (Ledger!Live(db) # {} \/ rev = 0)
  BY <1>1, <1>2, BeginKeeps
<1>3. CASE Begin(p, "export", Interrupted(db), TRUE)
  BY <1>1, <1>3, BeginKeeps
<1>4. CASE /\ call' = [call EXCEPT ![p] = At("idle")]
           /\ UNCHANGED <<db, rev, mark, report, log, lock>>
  <2>1. lock # p
    BY <1>1 DEF StoreInv, CallOf
  <2>2. QED
    BY <1>4, <2>1, EndKeeps DEF StoreInv, TypeOK, MarkedFiles
<1>5. QED
  BY <1>2, <1>3, <1>4 DEF Open

LEMMA LoadKeeps ==
  ASSUME StoreInv, NEW p \in Stores, Load(p) \/ RepairExports(p)
  PROVE  StoreInv'
<1>1. call[p].at \notin Locked
  BY DEF Load, RepairExports, Locked
<1>2. CASE Load(p)
  BY <1>1, <1>2, BeginKeeps DEF Load
<1>3. CASE RepairExports(p)
  BY <1>1, <1>3, BeginKeeps DEF RepairExports
<1>4. QED
  BY <1>2, <1>3

\* There is nothing to interrupt or to close in the first row.
LEMMA EmptyStays ==
  ASSUME NEW s, s = Ledger!Empty
  PROVE  /\ Ledger!Move(s, {}, "Interrupted") = s
         /\ Ledger!CloseCalls(s, DOMAIN s.executions) = s
<1> DEFINE steps == [id \in StepIds |->
                IF id \in {} THEN [s.steps[id] EXCEPT !.state = "Interrupted"]
                ELSE s.steps[id]]
           closed == [i \in DOMAIN s.executions |->
                IF i \in DOMAIN s.executions /\ s.executions[i].outcome = None
                THEN [s.executions[i] EXCEPT !.outcome = Ledger!Lost] ELSE s.executions[i]]
<1>1. steps = s.steps
  <2>1. s.steps = [id \in StepIds |-> [state |-> "Absent", turn |-> None]]
    BY DEF Ledger!Empty
  <2>2. QED
    BY <2>1
<1>2. closed = s.executions
  <2>1. s.executions = <<>>
    BY DEF Ledger!Empty
  <2>2. QED
    BY <2>1
<1> HIDE DEF steps, closed
<1>3. [s EXCEPT !.steps = steps] = s /\ [s EXCEPT !.executions = closed] = s
  BY <1>1, <1>2 DEF Ledger!Empty
<1>4. QED
  BY <1>3 DEF Ledger!Move, Ledger!CloseCalls, steps, closed

\* What is committed is a step of the ledger from the row: the snapshot was
\* taken from the revision that the row still has.
LEMMA CommitIsTransition ==
  ASSUME StoreInv, NEW p \in Stores, Commit(p)
  PROVE  Ledger!Transition(db, db', call[p].ready) /\ (call[p].ready => Files)
<1>1. Current(call[p])
  BY DEF Commit, Fresh, StoreInv, CallOf
<1>2. CASE call[p].at = "change" /\ Change(call[p].snap, db', call[p].ready)
  <2>1. Change(db, db', call[p].ready) /\ (call[p].ready => Files)
    BY <1>1, <1>2 DEF Current
  <2>2. QED
    BY <2>1 DEF Change, Ledger!Transition
<1>3. CASE call[p].at = "reopen" /\ db' = call[p].snap
  <2>1. db' = Interrupted(db) /\ (Ledger!Live(db) # {} \/ rev = 0) /\ (call[p].ready => Files)
    BY <1>1, <1>3 DEF Current
  <2>2. CASE Ledger!Live(db) # {}
    BY <2>1, <2>2 DEF Interrupted, Ledger!Transition, Ledger!RecoveryStep, Ledger!Reopen
  <2>3. CASE rev = 0
    <3>1. db = Ledger!Empty
      BY <2>3 DEF StoreInv, FirstRow
    <3>2. Ledger!Live(db) = {}
      BY <3>1 DEF Ledger!Live, Ledger!StepsIn, Ledger!Empty
    <3>3. Interrupted(db) = db
      BY <3>1, <3>2, EmptyStays DEF Interrupted
    <3>4. QED
      BY <2>1, <3>3 DEF Ledger!Transition, Ledger!RecoveryStep, Ledger!RepairExports
  <2>4. QED
    BY <2>1, <2>2, <2>3
<1>4. QED
  BY <1>2, <1>3 DEF Commit

\* Every step of the stores is a step of the ledger, or leaves it alone.
LEMMA NextIsLedgerStep ==
  ASSUME StoreInv, [Next]_vars
  PROVE  [Ledger!Next]_(Ledger!vars)
<1>1. ASSUME NEW p \in Stores, Commit(p)
      PROVE  Ledger!Next
  <2>1. Ledger!Transition(db, db', TRUE)
    BY <1>1, CommitIsTransition, ReadyAllowsMore
  <2>2. QED
    BY <2>1 DEF Ledger!Next
<1>2. \/ \E p \in Stores : Commit(p)
      \/ UNCHANGED db
  BY DEF Next, vars, Open, Begin, Load, RepairExports, Lock, WriteReport, WriteLog,
         CommitExport, Fail, Crash
<1>3. QED
  BY <1>1, <1>2 DEF Ledger!vars

\* The call after its commit; of the rest it keeps what it knew.
Committed(r, snap, n) == [r EXCEPT !.at = "export", !.snap = snap, !.rev = n]

LEMMA CommittedFields ==
  ASSUME NEW r \in Call, NEW snap \in Ledger!Snapshot, NEW n \in 0..MaxRevision
  PROVE  /\ Committed(r, snap, n) \in Call /\ Committed(r, snap, n).at = "export"
         /\ Committed(r, snap, n).snap = snap /\ Committed(r, snap, n).rev = n
  BY DEF Committed, Call, Points

\* The revision moves on, so that every other call is overtaken.
LEMMA CommitKeeps ==
  ASSUME StoreInv, NEW p \in Stores, Commit(p)
  PROVE  StoreInv'
<1> DEFINE c == Committed(call[p], db', rev + 1)
<1>1. /\ lock = None /\ rev < MaxRevision /\ rev' = rev + 1
      /\ UNCHANGED <<mark, report, log, lock>>
      /\ call' = [call EXCEPT ![p] = c]
  BY DEF Commit, Committed
<1>2. (db \in Ledger!Snapshot)' /\ Ledger!Authority'
  <2>1. [Ledger!Next]_(Ledger!vars)
    BY NextIsLedgerStep DEF Next
  <2>2. QED
    BY <2>1, LedgerStep DEF StoreInv, TypeOK
<1>3. c \in Call /\ c.at = "export" /\ c.snap = db' /\ c.rev = rev'
  <2>1. call[p] \in Call /\ "export" \in Points
    BY CallFields DEF StoreInv, Points
  <2>2. db' \in Ledger!Snapshot
    BY <1>2 DEF Ledger!Snapshot, Ledger!CaseBrief, Ledger!StepRecord, Ledger!ExecutionRecord,
                Ledger!ProviderRecord, Ledger!FindingRecord, Ledger!DecisionRecord
  <2>3. rev + 1 \in 0..MaxRevision
    BY <1>1, StoresAssumption DEF StoreInv, TypeOK
  <2>4. QED
    BY <1>1, <2>1, <2>2, <2>3, CommittedFields
<1> HIDE DEF c
<1>5. /\ call' \in [Stores -> Call] /\ call'[p] = c
      /\ \A q \in Stores \ {p} : call'[q] = call[q]
  BY <1>1, <1>3, CallReplaced DEF StoreInv, TypeOK
<1>6. TypeOK'
  BY <1>1, <1>2, <1>5, StoresAssumption DEF StoreInv, TypeOK
<1>7. CallOf(p)'
  <2>1. call'[p].at = "export" /\ call'[p].snap = db' /\ call'[p].rev = rev'
    BY <1>3, <1>5
  <2>2. Current(call[p])'
    BY <2>1, ShowsItself DEF Current, Locked
  <2>3. lock' # p
    BY <1>1, StoresAssumption
  <2>4. QED
    BY <2>1, <2>2, <2>3, <1>6 DEF CallOf, Locked, TypeOK
<1>8. ASSUME NEW q \in Stores \ {p} PROVE CallOf(q)'
  BY <1>1, <1>5, CallFields, StoresAssumption DEF CallOf, Locked, StoreInv, TypeOK
<1>9. FirstRow' /\ MarkedFiles'
  BY <1>1 DEF FirstRow, MarkedFiles, StoreInv, TypeOK
<1>10. QED
  BY <1>2, <1>6, <1>7, <1>8, <1>9 DEF StoreInv

\* Moving a call on to another point keeps the rest of it.
LEMMA PointMoved ==
  ASSUME NEW r \in Call, NEW point \in Points
  PROVE  /\ [r EXCEPT !.at = point] \in Call /\ [r EXCEPT !.at = point].at = point
         /\ [r EXCEPT !.at = point].snap = r.snap /\ [r EXCEPT !.at = point].rev = r.rev
  BY DEF Call

\* The lock is taken at the row's revision.
LEMMA LockKeeps ==
  ASSUME StoreInv, NEW p \in Stores, Lock(p)
  PROVE  StoreInv'
<1> DEFINE c == [call[p] EXCEPT !.at = "report"]
<1>1. /\ call[p].at = "export" /\ lock = None /\ call[p].rev = rev /\ lock' = p
      /\ call' = [call EXCEPT ![p] = c] /\ UNCHANGED <<db, rev, mark, report, log>>
  BY DEF Lock, Fresh
<1>2. c \in Call /\ c.at = "report" /\ c.snap = call[p].snap /\ c.rev = rev
  BY <1>1, CallFields, PointMoved DEF StoreInv, Points
<1> HIDE DEF c
<1>3. call'[p] = c
  BY <1>1, <1>2, CallReplaced DEF StoreInv, TypeOK
<1>4. Shows(call[p].snap.executions, db.executions)
  BY <1>1 DEF StoreInv, CallOf, Current
<1>5. CallOf(p)'
  BY <1>1, <1>2, <1>3, <1>4 DEF CallOf, Current, Locked, StoreInv, TypeOK
<1>6. QED
  BY <1>1, <1>2, <1>5, QuietStep, StoresAssumption DEF StoreInv, TypeOK, MarkedFiles

\* The owner of the lock writes its own revision and its own executions, which
\* are the row's.
LEMMA WritingKeeps ==
  ASSUME StoreInv, NEW p \in Stores, call[p].at \in {"report", "log"},
         UNCHANGED <<db, rev, mark, lock>>,
         NEW point \in Locked, call' = [call EXCEPT ![p] = [call[p] EXCEPT !.at = point]],
         report' \in {report, call[p].rev},
         log' \in {log, call[p].snap.executions},
         point \in {"log", "mark"} => report' = call[p].rev,
         point = "mark" => log' = call[p].snap.executions
  PROVE  StoreInv'
<1> DEFINE c == [call[p] EXCEPT !.at = point]
<1>1. c \in Call /\ c.at = point /\ c.snap = call[p].snap /\ c.rev = call[p].rev
  <2>1. call[p] \in Call /\ point \in Points
    BY CallFields DEF StoreInv, Points, Locked
  <2>2. QED
    BY <2>1, PointMoved
<1>2. call' = [call EXCEPT ![p] = c]
  OBVIOUS
<1> HIDE DEF c
<1>3. /\ call' \in [Stores -> Call] /\ call'[p] = c
      /\ \A q \in Stores \ {p} : call'[q] = call[q]
  BY <1>1, <1>2, CallReplaced DEF StoreInv, TypeOK
<1>4. /\ lock = p /\ call[p].rev = rev
      /\ Shows(call[p].snap.executions, db.executions)
  BY DEF StoreInv, CallOf, Current, Locked
<1>5. Files => Files'
  BY <1>4 DEF Files
<1>6. TypeOK'
  <2>1. call[p].snap.executions \in Seq(Ledger!ExecutionRecord)
    BY CallFields DEF StoreInv, Ledger!Snapshot
  <2>2. QED
    BY <1>3, <1>4, <2>1 DEF StoreInv, TypeOK
<1>7. \A q \in Stores \ {p} : CallOf(q)'
  BY <1>3, <1>4, <1>5, OthersKept
<1>8. CallOf(p)'
  BY <1>1, <1>3, <1>4, <1>6 DEF CallOf, Current, Locked, TypeOK
<1>9. FirstRow' /\ MarkedFiles'
  BY <1>4, <1>5 DEF StoreInv, FirstRow, MarkedFiles, TypeOK
<1>10. Ledger!Authority'
  BY DEF StoreInv, Ledger!Authority, Ledger!OneLiveStep, Ledger!HumanGranted,
         Ledger!DecidedOnce, Ledger!TurnBinding
<1>11. QED
  BY <1>6, <1>7, <1>8, <1>9, <1>10 DEF StoreInv

LEMMA WriteReportKeeps ==
  ASSUME StoreInv, NEW p \in Stores, WriteReport(p)
  PROVE  StoreInv'
<1>1. CASE report' = call[p].rev /\ call' = [call EXCEPT ![p].at = "log"]
  BY <1>1, WritingKeeps DEF WriteReport, Locked
<1>2. CASE report' \in {report, call[p].rev} /\ call' = [call EXCEPT ![p].at = "failed"]
  BY <1>2, WritingKeeps DEF WriteReport, Locked
<1>3. QED
  BY <1>1, <1>2 DEF WriteReport

LEMMA WriteLogKeeps ==
  ASSUME StoreInv, NEW p \in Stores, WriteLog(p)
  PROVE  StoreInv'
<1>1. report = call[p].rev
  BY DEF WriteLog, StoreInv, CallOf, Current, Locked
<1>2. CASE log' = call[p].snap.executions /\ call' = [call EXCEPT ![p].at = "mark"]
  BY <1>1, <1>2, WritingKeeps DEF WriteLog, Locked
<1>3. CASE /\ log' \in {log, call[p].snap.executions}
           /\ call' = [call EXCEPT ![p].at = "failed"]
  BY <1>3, WritingKeeps DEF WriteLog, Locked
<1>4. QED
  BY <1>2, <1>3 DEF WriteLog

\* The revision is marked by the call that wrote both of its files.
LEMMA CommitExportKeeps ==
  ASSUME StoreInv, NEW p \in Stores, CommitExport(p)
  PROVE  StoreInv'
<1>1. /\ lock = p /\ call[p].rev = rev /\ Current(call[p])
      /\ lock' = None /\ UNCHANGED <<db, rev, report, log>>
  BY DEF CommitExport, StoreInv, CallOf, Locked
<1>2. \E point \in {"closed", "idle"} : call' = [call EXCEPT ![p] = At(point)]
  BY DEF CommitExport, Left
<1>3. /\ mark' \in -1..MaxRevision /\ mark' <= rev
      /\ mark' = rev => Files
  <2>1. CASE call[p].at = "mark" /\ mark' = call[p].rev
    BY <1>1, <2>1 DEF Current, Files, Locked, StoreInv, TypeOK
  <2>2. CASE call[p].at = "failed" /\ mark' = -1
    BY <2>2, StoresAssumption DEF StoreInv, TypeOK
  <2>3. QED
    BY <2>1, <2>2 DEF CommitExport
<1>4. QED
  BY <1>1, <1>2, <1>3, EndKeeps

\* A call that fails or dies leaves the row, the mark and the files.
LEMMA FailKeeps ==
  ASSUME StoreInv, NEW p \in Stores, Fail(p) \/ Crash(p)
  PROVE  StoreInv'
<1>1. /\ UNCHANGED <<db, rev, mark, report, log>>
      /\ lock' = IF lock = p THEN None ELSE lock
  BY DEF Fail, Crash, Unlocked
<1>2. \E point \in {"closed", "idle"} : call' = [call EXCEPT ![p] = At(point)]
  BY DEF Fail, Crash, Left
<1>3. QED
  BY <1>1, <1>2, EndKeeps DEF StoreInv, TypeOK, MarkedFiles

\* The invariant is inductive.
LEMMA NextStore ==
  ASSUME StoreInv, [Next]_vars
  PROVE  StoreInv'
<1>1. CASE UNCHANGED vars
  <2>1. Ledger!Authority' /\ FirstRow' /\ TypeOK'
    BY <1>1 DEF vars, StoreInv, TypeOK, FirstRow, Ledger!Authority, Ledger!OneLiveStep,
                Ledger!HumanGranted, Ledger!DecidedOnce, Ledger!TurnBinding
  <2>2. Files <=> Files'
    BY <1>1 DEF vars, Files
  <2>3. ASSUME NEW q \in Stores PROVE CallOf(q)'
    <3>1. CallOf(q)
      BY DEF StoreInv
    <3>2. Interrupted(db)' = Interrupted(db) /\ Ledger!Live(db)' = Ledger!Live(db)
      BY <1>1 DEF vars, Interrupted, Ledger!CloseCalls, Ledger!Move, Ledger!Lost, Ledger!Live,
                  Ledger!StepsIn
    <3>3. Current(call[q]) => Current(call[q])'
      BY <1>1, <2>2, <3>2 DEF vars, Current
    <3>4. QED
      BY <1>1, <3>1, <3>3 DEF vars, CallOf
  <2>4. QED
    BY <1>1, <2>1, <2>2, <2>3 DEF vars, StoreInv, MarkedFiles
<1>2. CASE Next
  <2>1. PICK p \in Stores :
          \/ Open(p) \/ Load(p) \/ RepairExports(p) \/ Commit(p)
          \/ Lock(p) \/ WriteReport(p) \/ WriteLog(p) \/ CommitExport(p)
          \/ Fail(p) \/ Crash(p)
    BY <1>2 DEF Next
  <2>2. QED
    BY <2>1, OpenKeeps, LoadKeeps, CommitKeeps, LockKeeps, WriteReportKeeps, WriteLogKeeps,
       CommitExportKeeps, FailKeeps
<1>3. QED
  BY <1>1, <1>2

LEMMA StoreInvHolds == Spec => []StoreInv
<1>1. QED
  BY InitStore, NextStore, PTL DEF Spec

(***************************************************************************)
(* Theorems.                                                                *)
(***************************************************************************)
\* The row, the files and the calls stay well typed.
THEOREM StoreTypes == Spec => []TypeOK
<1>1. StoreInv => TypeOK
  BY DEF StoreInv
<1>2. QED
  BY <1>1, StoreInvHolds, PTL

\* However the steps of their calls interleave, and wherever one fails or dies,
\* the stores behave as one ledger whose operations are atomic (persist's
\* optimistic write, open).
THEOREM StoresImplementLedger == Spec => Refinement
<1>1. Init => Ledger!Init
  BY DEF Init, Ledger!Init
<1>2. StoreInv /\ [Next]_vars => [Ledger!Next]_(Ledger!vars)
  BY NextIsLedgerStep
<1>3. QED
  BY <1>1, <1>2, StoreInvHolds, PTL DEF Spec, Refinement, Ledger!Spec

\* The authority that is proved of the atomic ledger is that of the row which
\* the stores share.
THEOREM StoresKeepAuthority == Spec => []Ledger!Authority
<1>1. StoreInv => Ledger!Authority
  BY DEF StoreInv
<1>2. QED
  BY <1>1, StoreInvHolds, PTL

\* So is everything else that is proved of it: its budgets and prerequisites,
\* the grounds of its findings, the outcomes it never rewrites.
THEOREM StoresKeepRecord ==
  Spec => /\ [](Ledger!PlanIsKept /\ Ledger!FindingsGrounded)
          /\ Ledger!OutcomesImmutable
<1>1. Ledger!Spec => Proven!Spec
  BY SameLedger, PTL DEF Ledger!Spec, Proven!Spec
<1>2. /\ Proven!Spec => []Proven!PlanIsKept
      /\ Proven!Spec => []Proven!FindingsGrounded
      /\ Proven!Spec => Proven!OutcomesImmutable
  BY ProvenAssumptions, Proven!PlanHolds, Proven!FindingsHold, Proven!OutcomesHold
<1>3. Proven!PlanIsKept /\ Proven!FindingsGrounded => Ledger!PlanIsKept /\ Ledger!FindingsGrounded
  BY Zenon DEF Ledger!PlanIsKept, Proven!PlanIsKept, Ledger!WithinBudget, Proven!WithinBudget,
         Ledger!DependenciesObserved, Proven!DependenciesObserved, Ledger!FindingsGrounded,
         Proven!FindingsGrounded, Ledger!Prior, Proven!Prior, Ledger!Calls, Proven!Calls,
         Ledger!Failures, Proven!Failures, Ledger!InFlight, Proven!InFlight, Ledger!Spent,
         Proven!Spent, Ledger!Usable, Proven!Usable, Ledger!Needs, Proven!Needs,
         Ledger!Citable, Proven!Citable, Ledger!Decided, Proven!Decided,
         Ledger!Cardinality, Proven!Cardinality, Ledger!IsFiniteSet, Proven!IsFiniteSet
<1>4. Proven!OutcomesImmutable => Ledger!OutcomesImmutable
  BY PTL DEF Ledger!OutcomesImmutable, Proven!OutcomesImmutable, Ledger!vars, Proven!vars
<1>5. Spec => Ledger!Spec
  BY StoresImplementLedger DEF Refinement
<1>6. QED
  BY <1>1, <1>2, <1>3, <1>4, <1>5, PTL

\* A row is marked as exported only while both files are its own: the log may
\* show a call as lost that the row still has as unfinished, and nothing else.
THEOREM ExportedHolds == Spec => []ExportedMeansWritten
<1>1. StoreInv => ExportedMeansWritten
  BY DEF StoreInv, MarkedFiles, ExportedMeansWritten, Exported, Files, Shows
<1>2. QED
  BY <1>1, StoreInvHolds, PTL

\* No exporter that was overtaken puts an older report over a newer one.
THEOREM ReportHolds == Spec => ReportNeverOlder
<1>1. ASSUME StoreInv, [Next]_vars PROVE report' >= report
  <2>1. ASSUME NEW p \in Stores, WriteReport(p) PROVE report' >= report
    <3>1. call[p].rev = rev
      BY <1>1, <2>1 DEF WriteReport, StoreInv, CallOf, Locked
    <3>2. report <= rev /\ report \in Nat /\ rev \in Nat
      BY <1>1 DEF StoreInv, MarkedFiles, TypeOK
    <3>3. QED
      BY <2>1, <3>1, <3>2 DEF WriteReport
  <2>2. (\E p \in Stores : WriteReport(p)) \/ report' = report
    BY <1>1 DEF Next, vars, Open, Begin, Load, RepairExports, Commit, Lock, WriteLog,
                CommitExport, Fail, Crash
  <2>3. QED
    BY <1>1, <2>1, <2>2 DEF StoreInv, TypeOK
<1>2. StoreInv /\ [Next]_vars => [report' >= report]_vars
  BY <1>1
<1>3. QED
  BY <1>2, StoreInvHolds, PTL DEF Spec, ReportNeverOlder

\* Execution moves on only from a revision whose report and log were written,
\* even if a repair of them failed meanwhile (ensure_exported).
THEOREM ReservedHolds == Spec => ReservedOnFiles
<1> DEFINE Moves == \/ Len(db'.executions) > Len(db.executions)
                    \/ Ledger!RunningSteps(db') \ Ledger!RunningSteps(db) # {}
<1>1. ASSUME StoreInv, [Next]_vars, Moves
      PROVE  report = rev /\ Len(log) = Len(db.executions)
  <2>1. ASSUME NEW p \in Stores, Commit(p) PROVE Files
    <3>1. Ledger!Transition(db, db', call[p].ready) /\ (call[p].ready => Files)
      BY <1>1, <2>1, CommitIsTransition
    <3>2. call[p].ready
      BY <1>1, <3>1, ReservingNeedsReady DEF StoreInv, TypeOK
    <3>3. QED
      BY <3>1, <3>2
  <2>2. (\E p \in Stores : Commit(p)) \/ db' = db
    BY <1>1 DEF Next, vars, Open, Begin, Load, RepairExports, Lock, WriteReport, WriteLog,
                CommitExport, Fail, Crash
  <2>3. Len(db.executions) \in Nat
    BY <1>1 DEF StoreInv, TypeOK, Ledger!Snapshot
  <2>4. db' # db
    BY <1>1, <2>3
  <2>5. QED
    BY <2>1, <2>2, <2>4 DEF Files, Shows
<1>2. StoreInv /\ [Next]_vars
      => [Moves => report = rev /\ Len(log) = Len(db.executions)]_vars
  BY <1>1
<1>3. QED
  BY <1>2, StoreInvHolds, PTL DEF Spec, ReservedOnFiles
=============================================================================
