---------------------------- MODULE EvidenceWork ----------------------------
(***************************************************************************)
(* What hosts do with the evidence of a case, at once and in any order:    *)
(* openings of the database, saved messages, report updates, tool calls    *)
(* and delegations.  They meet in the database, in the dumps of extracted  *)
(* files, and in the evidence row that all of them rest on.                *)
(***************************************************************************)
EXTENDS DigitalReport, Specialists

vars == <<callVars, storageVars, reportVars, toolVars, verdictVars>>

(* A world says what each call is for and what is there already.           *)
ASSUME WorldsAssumption ==
  \A w \in Worlds :
    /\ w.source \in Contents
    /\ w.dumps \in [Contents -> {"none", "whole", "torn"}]
    /\ \A c \in Calls : w.jobs[c].kind = "open" => w.jobs[c].source \in Sources

Init ==
  \E w \in Worlds :
    /\ job = w.jobs
    /\ evidence = w.evidence /\ report = w.report
    /\ source = w.source /\ listed = w.listed /\ dumps = w.dumps
    /\ StorageInit /\ ReportInit /\ ToolsInit /\ SpecialistsInit

Work(c) ==
  \/ /\ Begin(c) \/ Break(c)
     /\ UNCHANGED <<storageVars, reportVars, toolVars, verdictVars>>
  \/ /\ StorageStep(c)
     /\ UNCHANGED <<reportVars, toolVars, verdictVars>>
  \/ /\ ReportStep(c)
     /\ UNCHANGED <<storageVars, toolVars, verdictVars>>
  \/ /\ ExtractionStep(c) \/ ToolStep(c)
     /\ UNCHANGED <<storageVars, reportVars, verdictVars>>
  \/ /\ SpecialistStep(c)
     /\ UNCHANGED <<storageVars, reportVars, toolVars>>

Next ==
  \/ \E c \in Calls : Work(c)
  \/ /\ ChangeSource
     /\ UNCHANGED <<storageVars, reportVars, verdictVars>>

Spec == Init /\ [][Next]_vars

Places ==
  Ended \cup
    {"waiting", "begun", "owned", "counting", "inserting", "bound",
     "reading", "copying", "saying", "recording", "gathering",
     "rendered", "exporting", "lookup", "measuring", "loading",
     "persisting", "extracted", "recalling", "asking", "scoring",
     "saving", "creating", "storing"}

TypeOK ==
  /\ pc \in [Calls -> Places]
  /\ before \in [Calls -> SUBSET Calls]
  /\ evidence \in Sources \cup {NoSource} /\ report \in BOOLEAN
  /\ partitions \in Nat /\ owner \in Nat /\ faults \in 0..MaxFaults
  /\ updates \subseteq Calls /\ text \in [Calls -> SUBSET Calls]
  /\ source \in Contents /\ held \in [Calls -> Contents \cup {NoContent}]
  /\ dumps \in [Contents -> {"none", "whole", "torn"}]
  /\ outcome \in [Calls -> {"none", "success", "partial", "failed",
                            "unknown"}]
  /\ queries \in [Calls -> Seq(BOOLEAN)] /\ retried \in [Calls -> BOOLEAN]
=============================================================================
