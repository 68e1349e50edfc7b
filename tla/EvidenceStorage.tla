--------------------------- MODULE EvidenceStorage ---------------------------
(***************************************************************************)
(* The evidence database of a case, as a host opens it (src/index.rs) and  *)
(* as a session uses it (src/agent.rs): the evidence row that binds it to  *)
(* one source, the partition row of a folder or a logical volume, the      *)
(* session row, and the messages of the session "default", into which the  *)
(* rows that older versions kept in "conversations" are moved.             *)
(*                                                                         *)
(* A call runs from await to await, and between two awaits the others run, *)
(* in this process or in another; Break ends it at any await.  The module  *)
(* also holds what every kind of call shares: its job, where it is, and    *)
(* which calls had ended when it began.                                    *)
(***************************************************************************)
EXTENDS Naturals, Sequences

CONSTANTS Calls, Sources, NoSource,
          Legacy,       \* the rows of conversations: [id, readable]
          Worlds,       \* the situations the calls may meet
          MaxFaults     \* bound on the calls that break off

ASSUME NoSourceAssumption == NoSource \notin Sources
ASSUME LegacyAssumption == Legacy \in Seq([id: Nat, readable: BOOLEAN])

VARIABLES job,          \* job[c]: what call c is for, a record with a kind
          pc,           \* where call c is
          before,       \* before[c]: the calls that had ended when c began
          faults,
          evidence,     \* the source of the evidence row
          partitions,   \* the number of partition rows of the source
          owner,        \* the evidence id of the session row, 0 for no row
          legacy,       \* the rows of conversations
          messages,     \* the rows of agent_messages
          rest          \* rest[c]: the legacy rows that c has yet to copy

callVars == <<job, pc, before, faults>>
storageVars == <<evidence, partitions, owner, legacy, messages, rest>>

Ended == {"done", "refused", "broken"}
Rows(s) == {s[i] : i \in DOMAIN s}

StorageInit ==
  /\ pc = [c \in Calls |-> "waiting"]
  /\ before = [c \in Calls |-> {}]
  /\ faults = 0 /\ partitions = 0 /\ owner = 0
  /\ legacy = Legacy /\ messages = <<>>
  /\ rest = [c \in Calls |-> <<>>]

At(c, step, kinds) == pc[c] = step /\ job[c].kind \in kinds

Go(c, step) ==
  /\ pc' = [pc EXCEPT ![c] = step]
  /\ UNCHANGED <<job, before, faults>>

Begin(c) ==
  /\ pc[c] = "waiting" /\ job[c].kind # "none"
  /\ pc' = [pc EXCEPT ![c] = "begun"]
  /\ before' = [before EXCEPT ![c] = {d \in Calls : pc[d] \in Ended}]
  /\ UNCHANGED <<job, faults>>

(* A call ends at an await: a query, a file or a service fails and the     *)
(* error is returned, its future is dropped, or its process dies.          *)
Break(c) ==
  /\ pc[c] \notin Ended \cup {"waiting"}
  /\ faults < MaxFaults
  /\ faults' = faults + 1
  /\ pc' = [pc EXCEPT ![c] = "broken"]
  /\ UNCHANGED <<job, before>>

(***************************************************************************)
(* open_investigation_index                                                *)
(***************************************************************************)
ReadSource(c) ==
  /\ At(c, "begun", {"open"})
  /\ Go(c, IF evidence \in {NoSource, job[c].source} THEN "owned"
                                                     ELSE "refused")
  /\ UNCHANGED storageVars

EnsureEvidence(c) ==
  /\ At(c, "owned", {"open"})
  /\ evidence' = IF evidence = NoSource THEN job[c].source ELSE evidence
  /\ Go(c, IF job[c].flat THEN "counting" ELSE "done")
  /\ UNCHANGED <<partitions, owner, legacy, messages, rest>>

CountPartitions(c) ==
  /\ At(c, "counting", {"open"})
  /\ Go(c, IF partitions = 0 THEN "inserting" ELSE "done")
  /\ UNCHANGED storageVars

InsertPartition(c) ==
  /\ At(c, "inserting", {"open"})
  /\ partitions' = partitions + 1
  /\ Go(c, "done")
  /\ UNCHANGED <<evidence, owner, legacy, messages, rest>>

(***************************************************************************)
(* ensure_session with migrate_legacy_history, and save_message after it.  *)
(***************************************************************************)
EnsureSession(c) ==
  /\ At(c, "begun", {"save"})
  /\ IF owner \in {0, job[c].id}
       THEN owner' = job[c].id /\ Go(c, "bound")
       ELSE owner' = owner /\ Go(c, "refused")
  /\ UNCHANGED <<evidence, partitions, legacy, messages, rest>>

(* A count that fails is taken for zero.                                   *)
CountMessages(c) ==
  /\ At(c, "bound", {"save"})
  /\ \/ Go(c, IF messages # <<>> THEN "saying" ELSE "reading")
     \/ /\ faults < MaxFaults /\ faults' = faults + 1
        /\ pc' = [pc EXCEPT ![c] = "reading"]
        /\ UNCHANGED <<job, before>>
  /\ UNCHANGED storageVars

(* A variant that empties the old table as it reads it.                    *)
ReadLegacyTaking(c) ==
  /\ At(c, "reading", {"save"})
  /\ rest' = [rest EXCEPT ![c] = legacy] /\ legacy' = <<>>
  /\ Go(c, "copying")
  /\ UNCHANGED <<evidence, partitions, owner, messages>>

ReadLegacy(c) ==
  /\ At(c, "reading", {"save"})
  /\ rest' = [rest EXCEPT ![c] = legacy]
  /\ Go(c, "copying")
  /\ UNCHANGED <<evidence, partitions, owner, legacy, messages>>

(* One row after the other; a row that is not a message is passed over.    *)
CopyMessage(c) ==
  /\ At(c, "copying", {"save"}) /\ rest[c] # <<>>
  /\ messages' = IF Head(rest[c]).readable
                   THEN Append(messages, Head(rest[c])) ELSE messages
  /\ rest' = [rest EXCEPT ![c] = Tail(@)]
  /\ UNCHANGED <<callVars, evidence, partitions, owner, legacy>>

DropLegacy(c) ==
  /\ At(c, "copying", {"save"}) /\ rest[c] = <<>>
  /\ legacy' = <<>>
  /\ Go(c, "saying")
  /\ UNCHANGED <<evidence, partitions, owner, messages, rest>>

SaveMessage(c) ==
  /\ At(c, "saying", {"save"})
  /\ messages' = Append(messages, [id |-> c, readable |-> TRUE])
  /\ Go(c, "done")
  /\ UNCHANGED <<evidence, partitions, owner, legacy, rest>>

StorageStep(c) ==
  \/ ReadSource(c) \/ EnsureEvidence(c)
  \/ CountPartitions(c) \/ InsertPartition(c)
  \/ EnsureSession(c) \/ CountMessages(c) \/ ReadLegacy(c)
  \/ CopyMessage(c) \/ DropLegacy(c) \/ SaveMessage(c)

(***************************************************************************)
(* Properties                                                              *)
(***************************************************************************)
Opened(c) == pc[c] = "done" /\ job[c].kind = "open"
Overlap(c, d) ==
  c # d /\ "waiting" \notin {pc[c], pc[d]}
        /\ c \notin before[d] /\ d \notin before[c]

(* A database that one opening has prepared is never opened for another    *)
(* source afterwards, and it holds one partition row unless two openings   *)
(* ran at once.                                                            *)
OneSource ==
  /\ \A c, d \in Calls :
       Opened(c) /\ Opened(d) /\ d \in before[c] => evidence = job[c].source
  /\ partitions > 1 =>
       \E c, d \in Calls : /\ job[c].kind = "open" /\ job[d].kind = "open"
                           /\ Overlap(c, d)

(* A message of an older version is at every moment in its old table or    *)
(* among the messages of the session, wherever a migration breaks off and  *)
(* however many run at once.                                               *)
LegacyKept ==
  \A m \in Rows(Legacy) :
    m.readable => m \in Rows(legacy) \/ m \in Rows(messages)

(* What older work put into a case stays reachable, and stays that of its  *)
(* own source.                                                             *)
StorageIsBound == OneSource /\ LegacyKept
=============================================================================
