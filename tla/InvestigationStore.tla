-------------------------- MODULE InvestigationStore --------------------------
(***************************************************************************)
(* Several InvestigationStores, in one process or in several, on the row of *)
(* one session and on the two files it is exported to (src/src/             *)
(* investigation.rs: open, load, persist, export, repair_exports).          *)
(*                                                                          *)
(* A call of a store takes several steps: it loads the row, commits a new   *)
(* revision of it if nobody else has, and exports that revision under the   *)
(* SQLite write lock.  Between any two of them another store may act, the   *)
(* future may be dropped or its process may die.  What a change may be is   *)
(* Investigation's; this module implements that ledger.                     *)
(***************************************************************************)
EXTENDS Integers, Sequences, FiniteSets

CONSTANTS StepIds, TurnIds, FindingIds, Tools, EvidenceIds, Destinations,
          Briefs, Plan, Outcomes, MaxReviews, ANY, None   \* see Investigation
CONSTANTS
    Stores,         \* instances that share the row and the files
    MaxRevision     \* bound: revisions committed

ASSUME StoresAssumption == None \notin Stores /\ MaxRevision \in Nat

VARIABLES
    db,         \* state_json of the row, empty while there is no row
    rev,        \* its revision, 0 while there is no row
    mark,       \* its exported_revision
    report,     \* the revision that the report file shows, 0 if there is none
    log,        \* the executions in the execution log file
    lock,       \* the store whose transaction holds the write lock, or None
    call        \* the call in progress of each store: its gate admits one

vars == <<db, rev, mark, report, log, lock, call>>

\* The ledger's ready flag is what a call read when it loaded; a repair that
\* fails meanwhile clears the mark without a new revision.  So the ledger is
\* implemented with its flag left free, and ReservedOnFiles says what the
\* flag is for.
Ledger == INSTANCE Investigation WITH ledger <- db, exported <- TRUE

\* The ledger's own assumptions on the constants it is given.
ASSUME LedgerAssumption ==
    /\ StepIds \cap FindingIds = {} /\ None \notin TurnIds /\ IsFiniteSet(StepIds)
    /\ Briefs \subseteq Ledger!CaseBrief /\ None \notin Briefs
    /\ Plan \in [StepIds -> Ledger!StepProposal]
    /\ Outcomes \subseteq Ledger!ToolOutcome /\ None \notin Ledger!ToolOutcome
    /\ None \notin Destinations /\ MaxReviews \in Nat

Points == {"closed", "idle",        \* between calls
           "change", "reopen",      \* loaded, about to commit
           "export",                \* about to take the lock
           "report", "log",         \* about to write a file
           "mark", "failed"}        \* about to commit the export's result
Call == [at : Points, snap : Ledger!Snapshot, rev : 0..MaxRevision,
         ready : BOOLEAN, opening : BOOLEAN]

At(point) == [at |-> point, snap |-> Ledger!Empty, rev |-> 0,
              ready |-> FALSE, opening |-> FALSE]

Init ==
    /\ db = Ledger!Empty /\ rev = 0 /\ mark = -1
    /\ report = 0 /\ log = <<>>
    /\ lock = None
    /\ call = [p \in Stores |-> At("closed")]

\* A variant takes any earlier export for the export of this revision.
BeginExportedOnce(p, point, snap, opening) ==
    /\ call' = [call EXCEPT ![p] = [at |-> point, snap |-> snap, rev |-> rev,
                                    ready |-> mark # -1, opening |-> opening]]
    /\ UNCHANGED <<db, rev, mark, report, log, lock>>
Begin(p, point, snap, opening) ==
    /\ call' = [call EXCEPT ![p] = [at |-> point, snap |-> snap, rev |-> rev,
                                    ready |-> mark = rev, opening |-> opening]]
    /\ UNCHANGED <<db, rev, mark, report, log, lock>>

\* A failed open returns no store.
Left(p, failed) ==
    [call EXCEPT ![p] = At(IF failed /\ call[p].opening THEN "closed" ELSE "idle")]
Unlocked(p) == IF lock = p THEN None ELSE lock

\* open interrupts what was live and closes every unfinished call, commits that
\* if a step was live or there is no row, and only exports it if the files are
\* behind.
Interrupted(s) ==
    Ledger!CloseCalls(Ledger!Move(s, Ledger!Live(s), "Interrupted"), DOMAIN s.executions)
Open(p) ==
    /\ call[p].at = "closed"
    /\ \/ /\ Ledger!Live(db) # {} \/ rev = 0
          /\ Begin(p, "reopen", Interrupted(db), TRUE)
       \/ /\ Ledger!Live(db) = {} /\ rev # 0
          /\ mark # rev
          /\ Begin(p, "export", Interrupted(db), TRUE)
       \/ /\ Ledger!Live(db) = {} /\ rev # 0
          /\ mark = rev
          /\ call' = [call EXCEPT ![p] = At("idle")]
          /\ UNCHANGED <<db, rev, mark, report, log, lock>>

Load(p) == call[p].at = "idle" /\ Begin(p, "change", db, FALSE)
RepairExports(p) == call[p].at = "idle" /\ Begin(p, "export", db, FALSE)

Change(s, t, ready) ==
    \/ Ledger!InvestigatorStep(s, t)
    \/ Ledger!ExecutionStep(s, t, ready)
    \/ Ledger!FindingStep(s, t)

\* WHERE revision = ?: the row still has the revision that the call loaded, or
\* committed.  A variant refuses only a row that is older.
NotOlder(p) == call[p].rev <= rev
Fresh(p) == call[p].rev = rev

\* The optimistic write of persist.
Commit(p) ==
    /\ lock = None
    /\ Fresh(p) /\ rev < MaxRevision
    /\ \/ call[p].at = "change" /\ Change(call[p].snap, db', call[p].ready)
       \/ call[p].at = "reopen" /\ db' = call[p].snap
    /\ rev' = rev + 1
    /\ call' = [call EXCEPT ![p].at = "export", ![p].snap = db', ![p].rev = rev + 1]
    /\ UNCHANGED <<mark, report, log, lock>>

\* The first statement of export: it takes the lock and checks the revision.
\* The -1 it writes is visible to others only if the transaction commits.
Lock(p) ==
    /\ call[p].at = "export"
    /\ lock = None
    /\ Fresh(p)
    /\ lock' = p
    /\ call' = [call EXCEPT ![p].at = "report"]
    /\ UNCHANGED <<db, rev, mark, report, log>>

\* atomic_write may fail after it replaced the file, in the directory's fsync.
WriteReport(p) ==
    /\ call[p].at = "report"
    /\ \/ report' = call[p].rev /\ call' = [call EXCEPT ![p].at = "log"]
       \/ report' \in {report, call[p].rev} /\ call' = [call EXCEPT ![p].at = "failed"]
    /\ UNCHANGED <<db, rev, mark, log, lock>>

\* A variant ignores that the second write failed.
WriteLogUnchecked(p) ==
    /\ call[p].at = "log"
    /\ log' \in {log, call[p].snap.executions}
    /\ call' = [call EXCEPT ![p].at = "mark"]
    /\ UNCHANGED <<db, rev, mark, report, lock>>
WriteLog(p) ==
    /\ call[p].at = "log"
    /\ LET new == call[p].snap.executions
       IN  \/ log' = new /\ call' = [call EXCEPT ![p].at = "mark"]
           \/ log' \in {log, new} /\ call' = [call EXCEPT ![p].at = "failed"]
    /\ UNCHANGED <<db, rev, mark, report, lock>>

CommitExport(p) ==
    /\ \/ call[p].at = "mark" /\ mark' = call[p].rev /\ call' = Left(p, FALSE)
       \/ call[p].at = "failed" /\ mark' = -1 /\ call' = Left(p, TRUE)
    /\ lock' = None
    /\ UNCHANGED <<db, rev, report, log>>

\* A call that is refused, finds another revision, meets a database error or
\* is dropped with its future ends; its transaction is rolled back.  The two
\* files are written without a point where the future could be dropped.
Fail(p) ==
    /\ call[p].at \notin {"closed", "idle", "log"}
    /\ call' = Left(p, TRUE)
    /\ lock' = Unlocked(p)
    /\ UNCHANGED <<db, rev, mark, report, log>>

\* The process of the store dies, or its session closes.
Crash(p) ==
    /\ call[p].at # "closed"
    /\ call' = [call EXCEPT ![p] = At("closed")]
    /\ lock' = Unlocked(p)
    /\ UNCHANGED <<db, rev, mark, report, log>>

Next == \E p \in Stores :
    \/ Open(p) \/ Load(p) \/ RepairExports(p) \/ Commit(p)
    \/ Lock(p) \/ WriteReport(p) \/ WriteLog(p) \/ CommitExport(p)
    \/ Fail(p) \/ Crash(p)
Spec == Init /\ [][Next]_vars

-----------------------------------------------------------------------------
\* The row, the files and the calls are well typed.
TypeOK ==
    /\ db \in Ledger!Snapshot /\ rev \in 0..MaxRevision /\ mark \in -1..MaxRevision
    /\ report \in 0..MaxRevision /\ log \in Seq(Ledger!ExecutionRecord)
    /\ lock \in Stores \cup {None}
    /\ call \in [Stores -> Call]

\* The stores together behave as one ledger on which each operation is atomic:
\* no stale snapshot is ever committed over another store's revision.
Refinement == Ledger!Spec

\* "The exported revision advances only after both writes succeed": while it
\* equals the row's revision, the report shows that revision and the log holds
\* every execution of the row with every outcome the row has.
Exported == rev > 0 /\ mark = rev
ExportedMeansWritten ==
    Exported =>
        /\ report = rev
        /\ Len(log) = Len(db.executions)
        /\ \A i \in DOMAIN log :
            \/ log[i] = db.executions[i]
            \/ /\ db.executions[i].outcome = None
               /\ [log[i] EXCEPT !.outcome = None] = db.executions[i]

\* "An older exporter cannot overwrite a newer report."
ReportNeverOlder == [][report' >= report]_vars

\* "If export fails ... subsequent execution is blocked": a call is reserved and
\* a step begins only on a revision that the report shows, whose executions the
\* log all holds, even when a repair of it fails in the meantime.
ReservedOnFiles ==
    [][\/ Len(db'.executions) > Len(db.executions)
       \/ Ledger!RunningSteps(db') \ Ledger!RunningSteps(db) # {}
       => report = rev /\ Len(log) = Len(db.executions)]_vars

\* "The database is authoritative": exported files say what the row says.
FilesMatchDatabase == Exported => log = db.executions
=============================================================================
