---------------------------- MODULE DigitalReport ----------------------------
(***************************************************************************)
(* The digital report of src/report.rs and the tool that adds to it: rows  *)
(* of updates, the text rendered from them into the report's own row, and  *)
(* the file it is exported to.  Every call that touches the report renders *)
(* it anew, from what it read, and nothing orders two of them.             *)
(*                                                                         *)
(* A text is the set of the updates it shows, an update the call that      *)
(* appended it.                                                            *)
(***************************************************************************)
EXTENDS EvidenceStorage

VARIABLES report,   \* whether the report's row is there
          updates,  \* the rows of report_updates
          row,      \* the text in the report's row
          file,     \* the text in the exported file
          text      \* text[c]: the updates that c read to render

reportVars == <<report, updates, row, file, text>>

ReportInit ==
  /\ updates = {} /\ row = {} /\ file = {}
  /\ text = [c \in Calls |-> {}]

Initialize(c) ==
  /\ At(c, "begun", {"initialize"})
  /\ IF evidence # NoSource
       THEN report' = TRUE /\ Go(c, "gathering")
       ELSE report' = report /\ Go(c, "refused")
  /\ UNCHANGED <<updates, row, file, text>>

(* The tool turns an update away when the turn holds no successful tool    *)
(* event to support it.                                                    *)
FindReport(c) ==
  /\ At(c, "begun", {"append"})
  /\ Go(c, IF job[c].supported /\ report THEN "recording" ELSE "refused")
  /\ UNCHANGED reportVars

RecordUpdate(c) ==
  /\ At(c, "recording", {"append"})
  /\ updates' = updates \cup {c}
  /\ Go(c, "gathering")
  /\ UNCHANGED <<report, row, file, text>>

(* A variant that renders only what the report showed before.              *)
GatherShown(c) ==
  /\ At(c, "gathering", {"initialize", "append"})
  /\ text' = [text EXCEPT ![c] = row]
  /\ Go(c, "rendered")
  /\ UNCHANGED <<report, updates, row, file>>

Gather(c) ==
  /\ At(c, "gathering", {"initialize", "append"})
  /\ text' = [text EXCEPT ![c] = updates]
  /\ Go(c, "rendered")
  /\ UNCHANGED <<report, updates, row, file>>

StoreText(c) ==
  /\ At(c, "rendered", {"initialize", "append"})
  /\ row' = text[c]
  /\ Go(c, "exporting")
  /\ UNCHANGED <<report, updates, file, text>>

(* A temporary file is renamed over the old one.                           *)
Export(c) ==
  /\ At(c, "exporting", {"initialize", "append"})
  /\ file' = text[c]
  /\ Go(c, "done")
  /\ UNCHANGED <<report, updates, row, text>>

ReportStep(c) ==
  \/ Initialize(c) \/ FindReport(c) \/ RecordUpdate(c)
  \/ Gather(c) \/ StoreText(c) \/ Export(c)

(***************************************************************************)
(* Properties                                                              *)
(***************************************************************************)
Reports(c) == job[c].kind \in {"initialize", "append"}
Alone(c) == \A d \in Calls \ {c} :
              Reports(d) => d \in before[c] \/ pc[d] = "waiting"

(* Two calls that render at once may leave the row and the file without    *)
(* the other's update, and one that breaks off leaves the file behind the  *)
(* row; a call that runs to its end with no other beside it shows every    *)
(* update ever recorded, in both.  No text shows an update that is not     *)
(* recorded.                                                               *)
ReportCatchesUp ==
  /\ \A c \in Calls : pc[c] = "done" /\ Reports(c) /\ Alone(c)
                        => row = updates /\ file = updates
  /\ row \cup file \subseteq updates
=============================================================================
