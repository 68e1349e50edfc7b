----------------------------- MODULE Specialists -----------------------------
(***************************************************************************)
(* The delegations of src/tools/specialists.rs: a host hands the file to a *)
(* specialist for images, audio or SQLite databases with an objective.  A  *)
(* verdict that is stored for the same question is served again; otherwise *)
(* the file is extracted, a model asked, and its verdict stored.           *)
(*                                                                         *)
(* A verdict keeps the question it answers and, for a database, what its   *)
(* findings cite: each finding is a set of numbers of queries.             *)
(***************************************************************************)
EXTENDS EvidenceTools

CONSTANTS MaxQueries,   \* SPECIALIST_QUERY_MAX_COUNT
          MaxVision,    \* the limits of an image and of a recording
          MaxAudio,
          Copilot,      \* the configurations of the provider "copilot"
          NoVerdict

VARIABLES verdicts,   \* the stored verdicts (artifact_objects), oldest first
          artifacts,  \* artifacts[k]: the artifact rows of kind k
          queries,    \* queries[c]: the records of c's queries, TRUE for one
                      \* that succeeded
          retried,    \* retried[c]: whether c's model was told to use them
          verdict     \* verdict[c]: what c was answered, or NoVerdict

verdictVars == <<verdicts, artifacts, queries, retried, verdict>>

Kinds == {"image", "audio", "sqlite"}

SpecialistsInit ==
  /\ verdicts = <<>>
  /\ artifacts = [k \in Kinds |-> 0]
  /\ queries = [c \in Calls |-> <<>>]
  /\ retried = [c \in Calls |-> FALSE]
  /\ verdict = [c \in Calls |-> NoVerdict]

Succeeded(c) == {i \in DOMAIN queries[c] : queries[c][i]}

(* with_provenance: the question, and the queries that were at hand.       *)
Verdict(c, findings) ==
  [kind |-> job[c].kind, objective |-> job[c].objective,
   config |-> job[c].config, findings |-> findings,
   grounds |-> Succeeded(c)]

(* A variant that tells verdicts apart by the model alone.                 *)
CacheIsCurrentForModel(c, v) == v.config = job[c].config

CacheIsCurrent(c, v) ==
  v.config = job[c].config /\ v.objective = job[c].objective

Delegate(c) ==
  /\ At(c, "begun", Kinds)
  /\ Go(c, IF job[c].valid THEN "recalling" ELSE "refused")
  /\ UNCHANGED verdictVars

(* Only the newest verdict of the kind is looked at.                       *)
Newest(k) ==
  {i \in DOMAIN verdicts :
     /\ verdicts[i].kind = k
     /\ \A j \in DOMAIN verdicts : j > i => verdicts[j].kind # k}

(* A cache that cannot be read counts as empty.                            *)
Recall(c) ==
  /\ At(c, "recalling", Kinds)
  /\ \/ \E i \in Newest(job[c].kind) :
          /\ CacheIsCurrent(c, verdicts[i])
          /\ verdict' = [verdict EXCEPT ![c] = verdicts[i]]
          /\ Go(c, "done")
     \/ /\ \A i \in Newest(job[c].kind) : ~CacheIsCurrent(c, verdicts[i])
        /\ UNCHANGED verdict
        /\ Go(c, "lookup")
     \/ /\ faults < MaxFaults /\ faults' = faults + 1
        /\ pc' = [pc EXCEPT ![c] = "lookup"]
        /\ UNCHANGED <<job, before, verdict>>
  /\ UNCHANGED <<verdicts, artifacts, queries, retried>>

(* Each specialist looks at what was extracted before it asks a model.     *)
ViewImage(c) ==
  /\ At(c, "extracted", {"image"})
  /\ Go(c, IF held[c].size <= MaxVision THEN "asking" ELSE "refused")
  /\ UNCHANGED verdictVars

LoadRecording(c) ==
  /\ At(c, "extracted", {"audio"})
  /\ Go(c, IF held[c].size <= MaxAudio THEN "asking" ELSE "refused")
  /\ UNCHANGED verdictVars

(* The dump is opened immutable, and must have a table.                    *)
ReadSchema(c) ==
  /\ At(c, "extracted", {"sqlite"})
  /\ \/ held[c].form = "sqlite" /\ Go(c, "asking")
     \/ Go(c, "refused")
  /\ UNCHANGED verdictVars

Judge(c, findings) ==
  /\ verdict' = [verdict EXCEPT ![c] = Verdict(c, findings)]
  /\ Go(c, "saving")
  /\ UNCHANGED <<verdicts, artifacts, queries, retried>>

(* With Copilot an image is described by one service and judged by         *)
(* another; otherwise one vision model does both.  A reply that is not     *)
(* JSON becomes a verdict too, of score 0.                                 *)
Look(c) ==
  /\ At(c, "asking", {"image"})
  /\ IF job[c].config \in Copilot
       THEN Go(c, "scoring") /\ UNCHANGED verdictVars
       ELSE Judge(c, {})

Transcribe(c) ==
  /\ At(c, "asking", {"audio"})
  /\ Go(c, "scoring")
  /\ UNCHANGED verdictVars

Score(c) == At(c, "scoring", {"image", "audio"}) /\ Judge(c, {})

(* The model of a database queries it; past the limit every query fails.   *)
Query(c) ==
  /\ At(c, "asking", {"sqlite"})
  /\ Len(queries[c]) <= MaxQueries      \* bound on the model's turns
  /\ \E ok \in IF Len(queries[c]) < MaxQueries THEN BOOLEAN ELSE {FALSE} :
       queries' = [queries EXCEPT ![c] = Append(@, ok)]
  /\ UNCHANGED <<callVars, verdicts, artifacts, retried, verdict>>

(* validate_sqlite_findings                                                *)
Grounded(c, findings) ==
  \A f \in findings :
    f # {} /\ \A i \in f : i \in DOMAIN queries[c] /\ queries[c][i]

(* An answer before any query has succeeded is turned back once.           *)
Insist(c) ==
  /\ At(c, "asking", {"sqlite"}) /\ Succeeded(c) = {}
  /\ IF retried[c] THEN Go(c, "refused") ELSE UNCHANGED callVars
  /\ retried' = [retried EXCEPT ![c] = TRUE]
  /\ UNCHANGED <<verdicts, artifacts, queries, verdict>>

(* A reply that is not JSON, lacks a summary or has a finding without      *)
(* grounds fails the delegation.                                           *)
Conclude(c) ==
  /\ At(c, "asking", {"sqlite"}) /\ Succeeded(c) # {}
  /\ \/ \E findings \in {{}} \cup {{f} : f \in SUBSET (1..MaxQueries + 1)} :
          Grounded(c, findings) /\ Judge(c, findings)
     \/ Go(c, "refused") /\ UNCHANGED verdictVars

(* ensure_ai_artifact and store_specialist_result: whether or not they     *)
(* succeed, the verdict is returned.                                       *)
FindArtifact(c) ==
  /\ At(c, "saving", Kinds)
  /\ Go(c, IF artifacts[job[c].kind] = 0 THEN "creating" ELSE "storing")
  /\ UNCHANGED verdictVars

CreateArtifact(c) ==
  /\ At(c, "creating", Kinds)
  /\ artifacts' = [artifacts EXCEPT ![job[c].kind] = @ + 1]
  /\ Go(c, "storing")
  /\ UNCHANGED <<verdicts, queries, retried, verdict>>

Store(c) ==
  /\ At(c, "storing", Kinds)
  /\ verdicts' = Append(verdicts, verdict[c])
  /\ Go(c, "done")
  /\ UNCHANGED <<artifacts, queries, retried, verdict>>

Unsaved(c) ==
  /\ pc[c] \in {"saving", "creating", "storing"}
  /\ faults < MaxFaults /\ faults' = faults + 1
  /\ pc' = [pc EXCEPT ![c] = "done"]
  /\ UNCHANGED <<job, before, verdictVars>>

SpecialistStep(c) ==
  \/ Delegate(c) \/ Recall(c)
  \/ ViewImage(c) \/ Look(c) \/ LoadRecording(c) \/ Transcribe(c) \/ Score(c)
  \/ ReadSchema(c) \/ Query(c) \/ Insist(c) \/ Conclude(c)
  \/ FindArtifact(c) \/ CreateArtifact(c) \/ Store(c) \/ Unsaved(c)

(***************************************************************************)
(* Properties                                                              *)
(***************************************************************************)
(* Whoever delegates is answered for the objective, and under the provider *)
(* and model, of its own delegation, whether the verdict is fresh or was   *)
(* stored by another; and every finding of a database rests on at least    *)
(* one query of the conversation that made it, all of which succeeded.     *)
VerdictsAnswer ==
  \A c \in Calls :
    pc[c] = "done" /\ job[c].kind \in Kinds =>
      /\ verdict[c].objective = job[c].objective
      /\ verdict[c].config = job[c].config
      /\ job[c].kind = "sqlite" =>
           /\ verdict[c].grounds # {}
           /\ \A f \in verdict[c].findings :
                f # {} /\ f \subseteq verdict[c].grounds
=============================================================================
