---------------------------- MODULE EvidenceTools ----------------------------
(***************************************************************************)
(* The tools that read evidence (src/tools) over the extraction they share *)
(* (src/evidence_io.rs), and the outcome that src/execution.rs makes of    *)
(* what they return.  All calls look at one indexed file, which may change *)
(* under them when the evidence is a folder.                               *)
(*                                                                         *)
(* Of a content the model keeps its size, in units of which the limits are *)
(* small multiples, and its form; a content is identified with its SHA-256 *)
(* digest and with the path it is dumped to.                               *)
(***************************************************************************)
EXTENDS EvidenceStorage

CONSTANTS Contents,       \* the contents of the file: [size, form]
          NoContent,
          MaxExtraction,  \* MAX_EXTRACTION_BYTES, MAX_SQLITE_FILE_BYTES
          MaxMedia,       \* MAX_MEDIA_BYTES
          Limit           \* the rows or entries a call asks for at most

ASSUME LimitAssumption == Limit \in Nat

VARIABLES source,     \* the content of the file now
          listed,     \* the file's index rows: [rows, own, size]
          dumps,      \* dumps[d]: "none", "whole", or "torn" when another
                      \* program altered the dump of d
          held,       \* held[c]: the content that c extracted
          truth,      \* truth[c]: what c did: [found, withheld], of which
                      \* the outcome must not claim more
          outcome     \* outcome[c]: the ToolStatus of c's result

toolVars == <<source, listed, dumps, held, truth, outcome>>
fileVars == <<source, listed, dumps, held>>

Tools == {"extract_file", "query_sqlite_file", "query_index", "list_dir",
          "describe_image", "transcribe_audio", "shell", "other"}
Media == {"describe_image", "transcribe_audio"}

ToolsInit ==
  /\ held = [c \in Calls |-> NoContent]
  /\ truth = [c \in Calls |-> [found |-> FALSE, withheld |-> FALSE]]
  /\ outcome = [c \in Calls |-> "none"]

(***************************************************************************)
(* execution::classify, of what a tool returned: whether it is an Err or   *)
(* says that it failed, its exit code and status, whether its shape is the *)
(* tool's contract, and whether a mark says that something was left out.   *)
(***************************************************************************)
Returned(shape, cut) == [error |-> FALSE, exit |-> "none", status |-> "none",
                         shape |-> shape, cut |-> cut]
Error == [Returned(FALSE, FALSE) EXCEPT !.error = TRUE]

Classify(tool, raw) ==
  IF raw.error \/ raw.exit = "failure" \/ (tool = "shell" /\ raw.exit = "none")
       \/ raw.status \in {"failed", "error", "cancelled"} THEN "failed"
  ELSE IF raw.status = "unknown" \/ ~raw.shape THEN "unknown"
  ELSE IF raw.cut \/ raw.status = "partial" THEN "partial" ELSE "success"

Return(c, raw, found, withheld) ==
  /\ outcome' = [outcome EXCEPT ![c] = Classify(job[c].kind, raw)]
  /\ truth' = [truth EXCEPT ![c] = [found |-> found, withheld |-> withheld]]
  /\ Go(c, "done")

(* An Err; nothing is returned.                                            *)
Refuse(c) ==
  /\ outcome' = [outcome EXCEPT ![c] = "failed"]
  /\ Go(c, "refused")

(***************************************************************************)
(* extract_file_bytes                                                      *)
(***************************************************************************)
Lookup(c) ==
  /\ pc[c] = "lookup"
  /\ IF listed.rows = 0 THEN Refuse(c)
                        ELSE Go(c, "measuring") /\ UNCHANGED outcome
  /\ UNCHANGED <<fileVars, truth>>

Measure(c) ==
  /\ pc[c] = "measuring"
  /\ IF source.size > MaxExtraction
       THEN Refuse(c) ELSE Go(c, "loading") /\ UNCHANGED outcome
  /\ UNCHANGED <<fileVars, truth>>

(* The content is read and its dump looked for; one that does not verify   *)
(* against the digest is refused.                                          *)
Load(c) ==
  /\ pc[c] = "loading"
  /\ held' = [held EXCEPT ![c] = source]
  /\ IF dumps[source] = "torn" THEN Refuse(c)
       ELSE /\ Go(c, IF dumps[source] = "whole" THEN "extracted"
                                                ELSE "persisting")
            /\ UNCHANGED outcome
  /\ UNCHANGED <<source, listed, dumps, truth>>

(* Written aside and renamed, so that no other call sees half a dump.      *)
Persist(c) ==
  /\ pc[c] = "persisting"
  /\ dumps' = [dumps EXCEPT ![held[c]] = "whole"]
  /\ Go(c, "extracted")
  /\ UNCHANGED <<source, listed, held, truth, outcome>>

ExtractionStep(c) == Lookup(c) \/ Measure(c) \/ Load(c) \/ Persist(c)

(***************************************************************************)
(* The calls of the tools                                                  *)
(***************************************************************************)
ExtractFile(c) ==
  /\ At(c, "begun", {"extract_file"})
  /\ Go(c, "lookup")
  /\ UNCHANGED toolVars

(* The statement is validated, and the size that the index knows checked,  *)
(* before the file is touched.                                             *)
QuerySqlite(c) ==
  /\ At(c, "begun", {"query_sqlite_file"})
  /\ IF job[c].valid /\ (listed.rows > 0 => listed.size <= MaxExtraction)
       THEN Go(c, "lookup") /\ UNCHANGED toolVars
       ELSE Return(c, Error, FALSE, FALSE) /\ UNCHANGED fileVars

(* Exactly one row of this evidence, and a size within the limit; the      *)
(* extraction then reads the file again.                                   *)
Interpret(c) ==
  /\ At(c, "begun", Media)
  /\ IF job[c].valid /\ listed.rows = 1 /\ listed.own
        /\ source.size \in 1..MaxMedia
       THEN Go(c, "lookup") /\ UNCHANGED outcome
       ELSE Refuse(c)
  /\ UNCHANGED <<fileVars, truth>>

(* A variant that stops at the rows asked for.                             *)
FetchedExactly(there) == IF there <= Limit THEN there ELSE Limit

(* A statement is run until one row more than asked for has arrived.       *)
Fetched(there) == IF there <= Limit THEN there ELSE Limit + 1

(* What is there, and whether a cell of it was shortened.                  *)
ReturnRows(c) ==
  \/ \E there \in 0..Limit + 2, shortened \in BOOLEAN :
       /\ shortened => there > 0
       /\ Return(c, Returned(TRUE, Fetched(there) > Limit \/ shortened),
                 TRUE, there > Limit \/ shortened)
  \/ Return(c, Error, FALSE, FALSE)     \* an SQL error or the time limit

QueryIndex(c) ==
  /\ At(c, "begun", {"query_index"})
  /\ IF job[c].valid THEN ReturnRows(c) ELSE Return(c, Error, FALSE, FALSE)
  /\ UNCHANGED fileVars

(* Entries until the limit, those whose metadata cannot be read marked.    *)
ListDir(c) ==
  /\ At(c, "begun", {"list_dir"})
  /\ \/ \E there \in 0..Limit + 1, unread \in BOOLEAN :
          LET taken == IF there > Limit THEN Limit ELSE there IN
            Return(c, Returned(TRUE, taken < there \/ unread), TRUE,
                   there > Limit \/ unread)
     \/ Return(c, Error, FALSE, FALSE)
  /\ UNCHANGED fileVars

(* The shell, or a tool that a host brings: any value, of any shape.       *)
External(c) ==
  /\ At(c, "begun", {"shell", "other"})
  /\ \E error, shape, cut \in BOOLEAN,
        exit \in {"none", "zero", "failure"},
        status \in {"none", "success", "partial", "unknown", "failed"} :
       Return(c, [error |-> error, exit |-> exit, status |-> status,
                  shape |-> shape, cut |-> cut],
              shape /\ ~error /\ exit # "failure"
                    /\ status \notin {"unknown", "failed"},
              cut \/ status = "partial")
  /\ UNCHANGED fileVars

ShowFile(c) ==
  /\ At(c, "extracted", {"extract_file"})
  /\ Return(c, Returned(TRUE, held[c].size > job[c].shown), TRUE,
            held[c].size > job[c].shown)
  /\ UNCHANGED fileVars

QueryExtracted(c) ==
  /\ At(c, "extracted", {"query_sqlite_file"})
  /\ IF held[c].size <= MaxExtraction /\ held[c].form = "sqlite"
       THEN ReturnRows(c)
       ELSE Return(c, Error, FALSE, FALSE)
  /\ UNCHANGED fileVars

(* What was extracted is measured again, its form told from its bytes, and *)
(* the service's answer taken only when it is complete.                    *)
Describe(c) ==
  /\ At(c, "extracted", Media)
  /\ \/ /\ held[c].size \in 1..MaxMedia
        /\ held[c].form = job[c].form
        /\ Return(c, [Returned(TRUE, FALSE) EXCEPT !.status = "success"],
                  TRUE, FALSE)
     \/ Return(c, Error, FALSE, FALSE)
  /\ UNCHANGED fileVars

ToolStep(c) ==
  \/ ExtractFile(c) \/ QuerySqlite(c) \/ Interpret(c) \/ QueryIndex(c)
  \/ ListDir(c) \/ External(c) \/ ShowFile(c) \/ QueryExtracted(c)
  \/ Describe(c)

(* The folder that is examined is in use; told where a call can tell.      *)
ChangeSource ==
  /\ \E c \in Calls : pc[c] \in {"lookup", "measuring", "loading"}
  /\ faults < MaxFaults /\ faults' = faults + 1
  /\ source' \in Contents \ {source}
  /\ UNCHANGED <<job, pc, before, listed, dumps, held, truth, outcome>>

(***************************************************************************)
(* Properties                                                              *)
(***************************************************************************)
(* A result is called a success only when the tool did its work and        *)
(* nothing of what it found was left out, and partial only when it did     *)
(* work; what it then shows was within the tool's limit at the moment it   *)
(* was interpreted, though the file may have grown since it was measured,  *)
(* and lies whole under its digest.                                        *)
OutcomesAreEarned ==
  \A c \in Calls :
    outcome[c] \in {"success", "partial"} =>
      /\ truth[c].found
      /\ outcome[c] = "success" => ~truth[c].withheld
      /\ held[c] # NoContent =>
           /\ dumps[held[c]] = "whole"
           /\ job[c].kind \in Media => held[c].size \in 1..MaxMedia
           /\ job[c].kind = "query_sqlite_file" =>
                held[c].size <= MaxExtraction
=============================================================================
