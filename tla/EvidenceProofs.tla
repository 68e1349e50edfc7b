---------------------------- MODULE EvidenceProofs ----------------------------
(***************************************************************************)
(* Theorems about EvidenceWork, for any calls, any worlds and any number   *)
(* of calls that break off.  All rest on what a step does to the place of  *)
(* its call (Moves): it moves one call that has not ended, and notes once, *)
(* when the call begins, who had ended before it.                          *)
(***************************************************************************)
EXTENDS EvidenceWork, SequenceTheorems, TLAPS

Moves(c) ==
  /\ job' = job
  /\ pc' \in [Calls -> Places] /\ before' \in [Calls -> SUBSET Calls]
  /\ \A d \in Calls \ {c} : pc'[d] = pc[d] /\ before'[d] = before[d]
  /\ pc[c] \notin Ended /\ pc'[c] # "waiting"
  /\ pc[c] # "waiting" => before'[c] = before[c] /\ pc'[c] # "begun"
  /\ pc[c] = "waiting" =>
       pc'[c] = "begun" /\ before'[c] = {d \in Calls : pc[d] \in Ended}

\* Which kinds of call come to a place.
Extracting == {"lookup", "measuring", "loading", "persisting", "extracted"}
Extractors == {"extract_file", "query_sqlite_file"} \cup Media \cup Kinds

Fits(k, p) ==
  /\ p \in {"owned", "counting", "inserting"} => k = "open"
  /\ p \in {"bound", "reading", "copying", "saying"} => k = "save"
  /\ p \in {"recording", "gathering", "rendered", "exporting"} =>
       k \in {"initialize", "append"}
  /\ p \in Extracting => k \in Extractors
  /\ p \in {"recalling", "asking", "scoring", "saving", "creating",
             "storing"} => k \in Kinds

CallInv ==
  /\ pc \in [Calls -> Places] /\ before \in [Calls -> SUBSET Calls]
  /\ \A c \in Calls : /\ \A d \in before[c] : pc[d] \in Ended
                      /\ Fits(job[c].kind, pc[c])
                      /\ job[c].kind = "open" => job[c].source \in Sources

LEMMA GoMoves ==
  ASSUME CallInv, NEW c \in Calls, NEW s \in Places,
         s \notin {"waiting", "begun"},
         pc[c] \notin Ended \cup {"waiting"}, Go(c, s)
  PROVE  Moves(c) /\ pc'[c] = s
  BY DEF CallInv, Go, Moves

LEMMA StayMoves ==
  ASSUME CallInv, NEW c \in Calls,
         pc[c] \notin Ended \cup {"waiting", "begun"},
         UNCHANGED <<job, pc, before>>
  PROVE  Moves(c) /\ pc'[c] = pc[c]
  BY DEF CallInv, Moves

LEMMA BeginMoves ==
  ASSUME CallInv, NEW c \in Calls, Begin(c) \/ Break(c)
  PROVE  Moves(c) /\ pc'[c] \in {"begun", "broken"}
<1>1. CASE Begin(c)
  <2>. DEFINE E == {d \in Calls : pc[d] \in Ended}
  <2>1. /\ pc[c] = "waiting" /\ UNCHANGED job /\ E \subseteq Calls
        /\ pc' = [pc EXCEPT ![c] = "begun"] /\ before' = [before EXCEPT ![c] = E]
    BY <1>1 DEF Begin
  <2>2. before'[c] = E /\ before' \in [Calls -> SUBSET Calls]
    BY <2>1 DEF CallInv
  <2>. QED  BY <2>1, <2>2 DEF CallInv, Moves, Ended, Places
<1>2. CASE Break(c)
  BY <1>2 DEF CallInv, Moves, Break, Ended, Places
<1>. QED  BY <1>1, <1>2

\* Where a step leaves its call.
Placed(c) == Moves(c) /\ Fits(job[c].kind, pc'[c])

LEMMA GoPlaced ==
  ASSUME CallInv, NEW c \in Calls, NEW s \in Places,
         s \notin {"waiting", "begun"},
         pc[c] \notin Ended \cup {"waiting"}, Go(c, s),
         Fits(job[c].kind, s)
  PROVE  Placed(c)
  BY GoMoves DEF Placed

LEMMA StayPlaced ==
  ASSUME CallInv, NEW c \in Calls,
         pc[c] \notin Ended \cup {"waiting", "begun"},
         UNCHANGED <<job, pc, before>>
  PROVE  Placed(c)
  BY StayMoves DEF CallInv, Placed

LEMMA StorageMoves ==
  ASSUME CallInv, NEW c \in Calls, StorageStep(c)
  PROVE  Placed(c) /\ job[c].kind \in {"open", "save"}
<1>. USE DEF Fits, At, Extracting, Places, Ended
<1>1. CASE ReadSource(c)
  BY <1>1, GoPlaced DEF ReadSource
<1>2. CASE EnsureEvidence(c)
  BY <1>2, GoPlaced DEF EnsureEvidence
<1>3. CASE CountPartitions(c)
  BY <1>3, GoPlaced DEF CountPartitions
<1>4. CASE InsertPartition(c)
  BY <1>4, GoPlaced DEF InsertPartition
<1>5. CASE EnsureSession(c)
  BY <1>5, GoPlaced DEF EnsureSession
<1>6. CASE CountMessages(c)
  <2>1. CASE Go(c, IF messages # <<>> THEN "saying" ELSE "reading")
    BY <1>6, <2>1, GoPlaced DEF CountMessages
  <2>2. CASE pc' = [pc EXCEPT ![c] = "reading"] /\ UNCHANGED <<job, before>>
    BY <1>6, <2>2 DEF CountMessages, CallInv, Moves, Placed
  <2>. QED  BY <1>6, <2>1, <2>2 DEF CountMessages
<1>7. CASE ReadLegacy(c)
  BY <1>7, GoPlaced DEF ReadLegacy
<1>8. CASE CopyMessage(c)
  BY <1>8, StayPlaced DEF CopyMessage, callVars
<1>9. CASE DropLegacy(c)
  BY <1>9, GoPlaced DEF DropLegacy
<1>10. CASE SaveMessage(c)
  BY <1>10, GoPlaced DEF SaveMessage
<1>. QED
  BY <1>1, <1>2, <1>3, <1>4, <1>5, <1>6, <1>7, <1>8, <1>9, <1>10
  DEF StorageStep

LEMMA ReportMoves ==
  ASSUME CallInv, NEW c \in Calls, ReportStep(c)
  PROVE  Placed(c) /\ job[c].kind \in {"initialize", "append"}
<1>. USE DEF Fits, At, Extracting, Places, Ended
<1>1. CASE Initialize(c)
  BY <1>1, GoPlaced DEF Initialize
<1>2. CASE FindReport(c)
  BY <1>2, GoPlaced DEF FindReport
<1>3. CASE RecordUpdate(c)
  BY <1>3, GoPlaced DEF RecordUpdate
<1>4. CASE Gather(c)
  BY <1>4, GoPlaced DEF Gather
<1>5. CASE StoreText(c)
  BY <1>5, GoPlaced DEF StoreText
<1>6. CASE Export(c)
  BY <1>6, GoPlaced DEF Export
<1>. QED
  BY <1>1, <1>2, <1>3, <1>4, <1>5, <1>6 DEF ReportStep

LEMMA ExtractionMoves ==
  ASSUME CallInv, NEW c \in Calls, ExtractionStep(c)
  PROVE  Placed(c) /\ job[c].kind \in Extractors
<1>. USE DEF Fits, Extracting, Places, Ended, Refuse
<1>. job[c].kind \in Extractors
  BY DEF ExtractionStep, Lookup, Measure, Load, Persist, CallInv
<1>1. CASE Lookup(c)
  BY <1>1, GoPlaced DEF Lookup
<1>2. CASE Measure(c)
  BY <1>2, GoPlaced DEF Measure
<1>3. CASE Load(c)
  BY <1>3, GoPlaced DEF Load
<1>4. CASE Persist(c)
  BY <1>4, GoPlaced DEF Persist
<1>. QED
  BY <1>1, <1>2, <1>3, <1>4 DEF ExtractionStep

LEMMA ToolMoves ==
  ASSUME CallInv, NEW c \in Calls, ToolStep(c)
  PROVE  Placed(c) /\ job[c].kind \in Tools
<1>. USE DEF Fits, At, Extracting, Places, Ended, Refuse, Return,
             Extractors, Media, Tools
<1>1. CASE ExtractFile(c)
  BY <1>1, GoPlaced DEF ExtractFile
<1>2. CASE QuerySqlite(c)
  BY <1>2, GoPlaced DEF QuerySqlite
<1>3. CASE Interpret(c)
  BY <1>3, GoPlaced DEF Interpret
<1>4. CASE QueryIndex(c)
  <2>1. Go(c, "done")
    BY <1>4 DEF QueryIndex, ReturnRows
  <2>. QED  BY <1>4, <2>1, GoPlaced DEF QueryIndex
<1>5. CASE ListDir(c)
  <2>1. Go(c, "done")
    BY <1>5 DEF ListDir
  <2>. QED  BY <1>5, <2>1, GoPlaced DEF ListDir
<1>6. CASE External(c)
  <2>1. Go(c, "done")
    BY <1>6 DEF External
  <2>. QED  BY <1>6, <2>1, GoPlaced DEF External
<1>7. CASE ShowFile(c)
  BY <1>7, GoPlaced DEF ShowFile
<1>8. CASE QueryExtracted(c)
  <2>1. Go(c, "done")
    BY <1>8 DEF QueryExtracted, ReturnRows
  <2>. QED  BY <1>8, <2>1, GoPlaced DEF QueryExtracted
<1>9. CASE Describe(c)
  BY <1>9, GoPlaced DEF Describe
<1>. QED
  BY <1>1, <1>2, <1>3, <1>4, <1>5, <1>6, <1>7, <1>8, <1>9 DEF ToolStep

LEMMA SpecialistMoves ==
  ASSUME CallInv, NEW c \in Calls, SpecialistStep(c)
  PROVE  Placed(c) /\ job[c].kind \in Kinds
<1>. USE DEF Fits, At, Extracting, Places, Ended, Extractors, Kinds, Judge
<1>1. CASE Delegate(c)
  BY <1>1, GoPlaced DEF Delegate
<1>2. CASE Recall(c)
  <2>1. CASE Go(c, "done") \/ Go(c, "lookup")
    BY <1>2, <2>1, GoPlaced DEF Recall
  <2>2. CASE pc' = [pc EXCEPT ![c] = "lookup"] /\ UNCHANGED <<job, before>>
    BY <1>2, <2>2 DEF Recall, CallInv, Moves, Placed
  <2>. QED  BY <1>2, <2>1, <2>2 DEF Recall
<1>3. CASE ViewImage(c) \/ LoadRecording(c)
  BY <1>3, GoPlaced DEF ViewImage, LoadRecording
<1>4. CASE ReadSchema(c)
  BY <1>4, GoPlaced DEF ReadSchema
<1>5. CASE Look(c)
  BY <1>5, GoPlaced DEF Look
<1>6. CASE Transcribe(c)
  BY <1>6, GoPlaced DEF Transcribe
<1>7. CASE Score(c)
  BY <1>7, GoPlaced DEF Score
<1>8. CASE Query(c)
  BY <1>8, StayPlaced DEF Query, callVars
<1>9. CASE Insist(c)
  BY <1>9, GoPlaced, StayPlaced DEF Insist, callVars
<1>10. CASE Conclude(c)
  <2>1. Go(c, "saving") \/ Go(c, "refused")
    BY <1>10 DEF Conclude
  <2>. QED  BY <1>10, <2>1, GoPlaced DEF Conclude
<1>11. CASE FindArtifact(c)
  BY <1>11, GoPlaced DEF FindArtifact
<1>12. CASE CreateArtifact(c)
  BY <1>12, GoPlaced DEF CreateArtifact
<1>13. CASE Store(c)
  BY <1>13, GoPlaced DEF Store
<1>14. CASE Unsaved(c)
  BY <1>14 DEF Unsaved, CallInv, Moves, Placed
<1>. QED
  BY <1>1, <1>2, <1>3, <1>4, <1>5, <1>6, <1>7, <1>8, <1>9, <1>10, <1>11,
     <1>12, <1>13, <1>14 DEF SpecialistStep

LEMMA WorkMoves ==
  ASSUME CallInv, NEW c \in Calls, Work(c)
  PROVE  Placed(c)
<1>1. CASE Begin(c) \/ Break(c)
  BY <1>1, BeginMoves DEF Placed, Fits, Extracting
<1>. QED
  BY <1>1, StorageMoves, ReportMoves, ExtractionMoves, ToolMoves,
     SpecialistMoves DEF Work

LEMMA CallsMove ==
  ASSUME CallInv, NEW c \in Calls, Placed(c)
  PROVE  CallInv'
<1>. USE DEF Placed, Moves
<1>1. ASSUME NEW d \in Calls, NEW e \in before'[d]
      PROVE  pc'[e] \in Ended
  BY <1>1 DEF CallInv
<1>2. ASSUME NEW d \in Calls
      PROVE  /\ Fits(job'[d].kind, pc'[d])
             /\ job'[d].kind = "open" => job'[d].source \in Sources
  BY <1>2 DEF CallInv
<1>. QED  BY <1>1, <1>2 DEF CallInv
-----------------------------------------------------------------------------
\* What a sequence holds after its end or its head changed.
LEMMA RowsOfAppend ==
  ASSUME NEW S, NEW s \in Seq(S), NEW e \in S
  PROVE  Append(s, e) \in Seq(S) /\ Rows(Append(s, e)) = Rows(s) \cup {e}
<1>1. /\ Append(s, e) \in Seq(S) /\ Len(Append(s, e)) = Len(s) + 1
      /\ \A i \in 1..Len(s) : Append(s, e)[i] = s[i]
      /\ Append(s, e)[Len(s) + 1] = e
  BY AppendProperties
<1>2. DOMAIN s = 1..Len(s) /\ Len(s) \in Nat
  BY LenProperties
<1>3. DOMAIN Append(s, e) = 1..Len(s) + 1
  BY <1>1, LenProperties
<1>4. ASSUME NEW x \in Rows(Append(s, e))
      PROVE  x \in Rows(s) \cup {e}
  <2>1. PICK i \in 1..Len(s) + 1 : x = Append(s, e)[i]
    BY <1>3 DEF Rows
  <2>. QED  BY <2>1, <1>1, <1>2 DEF Rows
<1>5. ASSUME NEW x \in Rows(s) \cup {e}
      PROVE  x \in Rows(Append(s, e))
  <2>1. CASE x = e
    BY <2>1, <1>1, <1>2, <1>3 DEF Rows
  <2>2. CASE x \in Rows(s)
    <3>1. PICK i \in 1..Len(s) : x = s[i]
      BY <2>2, <1>2 DEF Rows
    <3>. QED  BY <3>1, <1>1, <1>2, <1>3 DEF Rows
  <2>. QED  BY <2>1, <2>2
<1>. QED  BY <1>1, <1>4, <1>5

LEMMA RowsOfTail ==
  ASSUME NEW S, NEW s \in Seq(S), s # <<>>
  PROVE  /\ Head(s) \in S /\ Tail(s) \in Seq(S)
         /\ Rows(s) \subseteq {Head(s)} \cup Rows(Tail(s))
<1>1. /\ Head(s) \in S /\ Tail(s) \in Seq(S) /\ Len(Tail(s)) = Len(s) - 1
      /\ \A i \in 1..Len(Tail(s)) : Tail(s)[i] = s[i + 1]
  BY HeadTailProperties
<1>2. DOMAIN s = 1..Len(s) /\ Len(s) \in Nat
  BY LenProperties
<1>3. DOMAIN Tail(s) = 1..Len(Tail(s))
  BY <1>1, LenProperties
<1>4. ASSUME NEW x \in Rows(s), x # Head(s)
      PROVE  x \in Rows(Tail(s))
  <2>1. PICK i \in 1..Len(s) : x = s[i]
    BY <1>2 DEF Rows
  <2>2. i # 1
    BY <2>1, <1>4 DEF Head
  <2>3. i - 1 \in 1..Len(Tail(s)) /\ Tail(s)[i - 1] = x
    BY <2>1, <2>2, <1>1, <1>2
  <2>. QED  BY <2>3, <1>3 DEF Rows
<1>. QED  BY <1>1, <1>4

LegacyRow == [id: Nat, readable: BOOLEAN]
MessageRow == [id: Nat \cup Calls, readable: BOOLEAN]

\* A migration that is under way still has what is not yet a message.
LegacyInv ==
  /\ legacy \in Seq(LegacyRow) /\ messages \in Seq(MessageRow)
  /\ rest \in [Calls -> Seq(LegacyRow)]
  /\ LegacyKept
  /\ \A c \in Calls : pc[c] = "copying" =>
       \A m \in Rows(Legacy) :
         m.readable => m \in Rows(rest[c]) \/ m \in Rows(messages)

LEMMA LegacyStarts == Init => LegacyInv
<1>. SUFFICES ASSUME StorageInit PROVE LegacyInv
  BY DEF Init
<1>. USE DEF StorageInit
<1>1. /\ legacy \in Seq(LegacyRow) /\ messages \in Seq(MessageRow)
      /\ rest \in [Calls -> Seq(LegacyRow)]
  BY LegacyAssumption, EmptySeq DEF LegacyRow
<1>. QED  BY <1>1 DEF LegacyInv, LegacyKept

\* The messages only grow, and nobody but a migration touches the rest.
LEMMA LegacyStays ==
  ASSUME CallInv, LegacyInv, NEW c \in Calls, Moves(c),
         pc'[c] # "copying", UNCHANGED <<legacy, rest>>,
         messages' \in Seq(MessageRow), Rows(messages) \subseteq Rows(messages')
  PROVE  LegacyInv'
  BY DEF LegacyInv, LegacyKept, Moves

LEMMA LegacyStep ==
  ASSUME CallInv, LegacyInv, NEW c \in Calls, StorageStep(c)
  PROVE  LegacyInv'
<1>. Moves(c)
  BY StorageMoves DEF Placed
<1>1. CASE \/ ReadSource(c) \/ EnsureEvidence(c) \/ CountPartitions(c)
           \/ InsertPartition(c) \/ EnsureSession(c) \/ CountMessages(c)
  <2>1. pc'[c] # "copying" /\ UNCHANGED <<legacy, messages, rest>>
    BY <1>1 DEF ReadSource, EnsureEvidence, CountPartitions, InsertPartition,
            EnsureSession, CountMessages, Go, storageVars, CallInv
  <2>. QED  BY <2>1, LegacyStays DEF LegacyInv
<1>2. CASE ReadLegacy(c)
  BY <1>2 DEF ReadLegacy, Go, LegacyInv, LegacyKept, Moves
<1>3. CASE CopyMessage(c)
  <2>. DEFINE h == Head(rest[c])
  <2>0. rest[c] \in Seq(LegacyRow) /\ rest[c] # <<>> /\ At(c, "copying", {"save"})
    BY <1>3 DEF CopyMessage, LegacyInv
  <2>1. /\ h \in LegacyRow /\ Tail(rest[c]) \in Seq(LegacyRow)
        /\ Rows(rest[c]) \subseteq {h} \cup Rows(Tail(rest[c]))
    BY <2>0, RowsOfTail
  <2>2. h \in MessageRow
    BY <2>1 DEF LegacyRow, MessageRow
  <2>3. /\ messages' \in Seq(MessageRow) /\ Rows(messages) \subseteq Rows(messages')
        /\ h.readable => h \in Rows(messages')
    BY <1>3, <2>2, RowsOfAppend DEF CopyMessage, LegacyInv
  <2>4. /\ rest' = [rest EXCEPT ![c] = Tail(rest[c])]
        /\ UNCHANGED <<legacy, pc>>
    BY <1>3 DEF CopyMessage, callVars
  <2>. HIDE DEF h
  <2>5. rest' \in [Calls -> Seq(LegacyRow)] /\ LegacyKept'
    BY <2>1, <2>3, <2>4 DEF LegacyInv, LegacyKept
  <2>6. ASSUME NEW d \in Calls, pc'[d] = "copying",
               NEW m \in Rows(Legacy), m.readable
        PROVE  m \in Rows(rest'[d]) \/ m \in Rows(messages')
    <3>1. m \in Rows(rest[d]) \/ m \in Rows(messages)
      BY <2>6, <2>4 DEF LegacyInv
    <3>2. CASE d = c
      BY <3>1, <3>2, <2>1, <2>3, <2>4, <2>6 DEF LegacyInv
    <3>3. CASE d # c
      BY <3>1, <3>3, <2>3, <2>4 DEF LegacyInv
    <3>. QED  BY <3>2, <3>3
  <2>. QED  BY <2>3, <2>4, <2>5, <2>6 DEF LegacyInv
<1>4. CASE DropLegacy(c)
  <2>1. ASSUME NEW m \in Rows(Legacy), m.readable
        PROVE  m \in Rows(messages)
    <3>1. pc[c] = "copying" /\ rest[c] = <<>>
      BY <1>4 DEF DropLegacy, At
    <3>2. Rows(rest[c]) = {}
      BY <3>1 DEF Rows
    <3>. QED  BY <2>1, <3>1, <3>2 DEF LegacyInv
  <2>2. legacy' \in Seq(LegacyRow) /\ UNCHANGED <<messages, rest>>
    BY <1>4, EmptySeq DEF DropLegacy
  <2>. QED  BY <2>1, <2>2 DEF LegacyInv, LegacyKept, Moves
<1>5. CASE SaveMessage(c)
  <2>. DEFINE e == [id |-> c, readable |-> TRUE]
  <2>1. messages' = Append(messages, e) /\ e \in MessageRow
    BY <1>5 DEF SaveMessage, MessageRow
  <2>. HIDE DEF e
  <2>2. messages' \in Seq(MessageRow) /\ Rows(messages) \subseteq Rows(messages')
    BY <2>1, RowsOfAppend DEF LegacyInv
  <2>. QED  BY <1>5, <2>2, LegacyStays DEF SaveMessage, Go, CallInv
<1>. QED
  BY <1>1, <1>2, <1>3, <1>4, <1>5 DEF StorageStep
-----------------------------------------------------------------------------
Opening(c) == job[c].kind = "open"

Agrees(c) == evidence = job[c].source

\* An opening that went past its check agrees with every earlier one.
PreparedHasSource ==
  \A c \in Calls :
    pc[c] \in {"counting", "inserting"} \/ Opened(c) => evidence # NoSource

OpeningsAgree ==
  \A c, d \in Calls :
    Opening(c) /\ pc[c] \in {"owned", "counting", "inserting", "done"} =>
      (Opened(d) /\ d \in before[c] => Agrees(c))

\* An opening beside a partition that it did not see ran beside another.
InsertsOverlap ==
  \A c \in Calls : pc[c] = "inserting" /\ partitions > 0 =>
    \E d \in Calls : Opening(d) /\ Overlap(c, d)

PartitionsOverlap ==
  partitions > 1 =>
    \E c, d \in Calls : Opening(c) /\ Opening(d) /\ Overlap(c, d)

SourceInv ==
  /\ partitions \in Nat
  /\ PreparedHasSource /\ OpeningsAgree /\ InsertsOverlap /\ PartitionsOverlap

LEMMA OverlapStays ==
  ASSUME CallInv, NEW e \in Calls, Moves(e),
         NEW c \in Calls, NEW d \in Calls, Overlap(c, d)
  PROVE  Overlap(c, d)'
<1>1. /\ pc'[c] # "waiting" /\ pc'[d] # "waiting"
      /\ before'[c] = before[c] /\ before'[d] = before[d]
  BY DEF Overlap, Moves
<1>. QED  BY <1>1 DEF Overlap

\* Who opened before a step of c, and before whom.
LEMMA OpenedStays ==
  ASSUME CallInv, NEW e \in Calls, Moves(e),
         NEW c \in Calls, NEW d \in Calls,
         Opened(d)', d \in before'[c], pc'[c] # "begun"
  PROVE  Opened(d) /\ d \in before[c] /\ d # e
  BY DEF CallInv, Opened, Moves, Ended

LEMMA PreparedStays ==
  ASSUME CallInv, SourceInv, NEW e \in Calls, Moves(e),
         evidence # NoSource => evidence' # NoSource,
         pc'[e] \in {"counting", "inserting"} \/ Opened(e)' =>
           evidence' # NoSource
  PROVE  PreparedHasSource'
<1>. SUFFICES ASSUME NEW c \in Calls,
                     pc'[c] \in {"counting", "inserting"} \/ Opened(c)'
              PROVE  evidence' # NoSource
  BY DEF PreparedHasSource
<1>1. CASE c = e
  BY <1>1
<1>2. CASE c # e
  BY <1>2 DEF Moves, SourceInv, PreparedHasSource, Opened
<1>. QED  BY <1>1, <1>2

\* The step either finds its call already past the check or makes the check.
LEMMA AgreementStays ==
  ASSUME CallInv, SourceInv, NEW e \in Calls, Moves(e),
         evidence # NoSource => evidence' = evidence,
         Opening(e) /\ pc'[e] \in {"owned", "counting", "inserting", "done"} =>
           \/ pc[e] \in {"owned", "counting", "inserting"}
           \/ evidence \in {NoSource, job[e].source}
  PROVE  OpeningsAgree'
<1>. job' = job
  BY DEF Moves
<1>. SUFFICES
       ASSUME NEW c \in Calls, NEW d \in Calls,
              Opening(c), pc'[c] \in {"owned", "counting", "inserting", "done"},
              Opened(d)', d \in before'[c]
       PROVE  Agrees(c)'
  BY DEF OpeningsAgree, Opening
<1>1. Opened(d) /\ d \in before[c]
  BY OpenedStays
<1>2. evidence # NoSource /\ evidence' = evidence
  BY <1>1 DEF SourceInv, PreparedHasSource
<1>3. CASE pc[c] \in {"owned", "counting", "inserting", "done"}
  <2>1. Agrees(c)
    BY <1>1, <1>3 DEF SourceInv, OpeningsAgree
  <2>. QED  BY <2>1, <1>2 DEF Agrees
<1>4. CASE pc[c] \notin {"owned", "counting", "inserting", "done"}
  <2>1. c = e
    BY <1>4 DEF Moves
  <2>2. evidence = job[c].source
    BY <1>2, <1>4, <2>1
  <2>. QED  BY <2>2, <1>2 DEF Agrees
<1>. QED  BY <1>3, <1>4

LEMMA OverlapsStay ==
  ASSUME CallInv, SourceInv, NEW e \in Calls, Moves(e), UNCHANGED partitions,
         pc'[e] = "inserting" => partitions = 0
  PROVE  InsertsOverlap' /\ PartitionsOverlap'
<1>. job' = job
  BY DEF Moves
<1>1. InsertsOverlap'
  <2>. SUFFICES ASSUME NEW c \in Calls, pc'[c] = "inserting", partitions > 0
                PROVE  \E d \in Calls : Opening(d)' /\ Overlap(c, d)'
    BY DEF InsertsOverlap
  <2>1. pc[c] = "inserting"
    BY DEF Moves
  <2>2. PICK d \in Calls : Opening(d) /\ Overlap(c, d)
    BY <2>1 DEF SourceInv, InsertsOverlap
  <2>. QED  BY <2>2, OverlapStays DEF Opening
<1>2. PartitionsOverlap'
  <2>. SUFFICES ASSUME partitions > 1
                PROVE  \E c, d \in Calls : Opening(c)' /\ Opening(d)' /\ Overlap(c, d)'
    BY DEF PartitionsOverlap
  <2>1. PICK c, d \in Calls : Opening(c) /\ Opening(d) /\ Overlap(c, d)
    BY DEF SourceInv, PartitionsOverlap
  <2>. QED  BY <2>1, OverlapStays DEF Opening
<1>. QED  BY <1>1, <1>2

LEMMA SourceStays ==
  ASSUME CallInv, SourceInv, NEW e \in Calls, Moves(e),
         UNCHANGED <<evidence, partitions>>,
         Opening(e) => pc'[e] \notin {"owned", "counting", "inserting", "done"},
         ~Opening(e) => pc'[e] \notin {"counting", "inserting"}
  PROVE  SourceInv'
<1>1. PreparedHasSource'
  BY PreparedStays DEF Opened, Opening, Moves
<1>2. OpeningsAgree'
  BY AgreementStays
<1>3. InsertsOverlap' /\ PartitionsOverlap'
  BY OverlapsStay
<1>. QED  BY <1>1, <1>2, <1>3 DEF SourceInv

LEMMA SourceStarts == Init => SourceInv
<1>. SUFFICES ASSUME StorageInit PROVE SourceInv
  BY DEF Init
<1>1. partitions = 0 /\ \A c \in Calls : pc[c] = "waiting"
  BY DEF StorageInit
<1>2. \A c \in Calls : ~Opened(c)
  BY <1>1 DEF Opened
<1>3. PreparedHasSource /\ OpeningsAgree
  <2>1. PreparedHasSource
    BY <1>1, <1>2 DEF PreparedHasSource
  <2>2. OpeningsAgree
    BY <1>2 DEF OpeningsAgree
  <2>. QED  BY <2>1, <2>2
<1>4. InsertsOverlap /\ PartitionsOverlap
  BY <1>1 DEF InsertsOverlap, PartitionsOverlap
<1>. QED  BY <1>1, <1>3, <1>4 DEF SourceInv

LEMMA SourceStep ==
  ASSUME CallInv, SourceInv, NEW e \in Calls, StorageStep(e)
  PROVE  SourceInv'
<1>. Moves(e) /\ job' = job
  BY StorageMoves DEF Placed, Moves
<1>1. CASE \/ EnsureSession(e) \/ CountMessages(e) \/ ReadLegacy(e)
           \/ CopyMessage(e) \/ DropLegacy(e) \/ SaveMessage(e)
  <2>1. ~Opening(e) /\ pc'[e] \notin {"counting", "inserting"}
        /\ UNCHANGED <<evidence, partitions>>
    BY <1>1 DEF EnsureSession, CountMessages, ReadLegacy, CopyMessage,
            DropLegacy, SaveMessage, Go, At, Opening, CallInv, storageVars,
            callVars
  <2>. QED  BY <2>1, SourceStays
<1>2. CASE ReadSource(e)
  <2>1. /\ Opening(e) /\ UNCHANGED <<evidence, partitions>>
        /\ \/ pc'[e] = "owned" /\ evidence \in {NoSource, job[e].source}
           \/ pc'[e] = "refused"
    BY <1>2 DEF ReadSource, At, Go, Opening, storageVars, CallInv
  <2>2. PreparedHasSource'
    BY <2>1, PreparedStays DEF Opened
  <2>3. OpeningsAgree'
    BY <2>1, AgreementStays
  <2>4. InsertsOverlap' /\ PartitionsOverlap'
    BY <2>1, OverlapsStay
  <2>. QED  BY <2>1, <2>2, <2>3, <2>4 DEF SourceInv
<1>3. CASE EnsureEvidence(e)
  <2>1. /\ pc[e] = "owned" /\ pc'[e] \in {"counting", "done"}
        /\ evidence # NoSource => evidence' = evidence
        /\ UNCHANGED partitions
    BY <1>3 DEF EnsureEvidence, At, Go, CallInv
  <2>2. evidence' # NoSource
    BY <1>3, NoSourceAssumption DEF EnsureEvidence, At, CallInv
  <2>3. PreparedHasSource'
    BY <2>2, PreparedStays
  <2>4. OpeningsAgree'
    BY <2>1, AgreementStays
  <2>5. InsertsOverlap' /\ PartitionsOverlap'
    BY <2>1, OverlapsStay
  <2>. QED  BY <2>1, <2>3, <2>4, <2>5 DEF SourceInv
<1>4. CASE CountPartitions(e)
  <2>1. /\ pc[e] = "counting" /\ pc'[e] \in {"inserting", "done"}
        /\ pc'[e] = "inserting" => partitions = 0
        /\ UNCHANGED <<evidence, partitions>>
    BY <1>4 DEF CountPartitions, At, Go, CallInv, storageVars
  <2>2. PreparedHasSource'
    BY <2>1, PreparedStays DEF SourceInv, PreparedHasSource
  <2>3. OpeningsAgree'
    BY <2>1, AgreementStays
  <2>4. InsertsOverlap' /\ PartitionsOverlap'
    BY <2>1, OverlapsStay
  <2>. QED  BY <2>1, <2>2, <2>3, <2>4 DEF SourceInv
<1>5. CASE InsertPartition(e)
  <2>1. /\ pc[e] = "inserting" /\ pc'[e] = "done" /\ Opening(e)
        /\ UNCHANGED <<evidence, before>> /\ partitions' = partitions + 1
    BY <1>5 DEF InsertPartition, At, Go, CallInv, Opening
  <2>2. PreparedHasSource'
    BY <2>1, PreparedStays DEF SourceInv, PreparedHasSource
  <2>3. OpeningsAgree'
    BY <2>1, AgreementStays
  <2>4. InsertsOverlap'
    <3>. SUFFICES ASSUME NEW c \in Calls, pc'[c] = "inserting"
                  PROVE  Opening(e)' /\ Overlap(c, e)'
      BY DEF InsertsOverlap
    <3>1. c # e /\ pc[c] = "inserting"
      BY <2>1 DEF Moves
    <3>2. Overlap(c, e)
      BY <2>1, <3>1 DEF Overlap, CallInv, Ended
    <3>. QED  BY <2>1, <3>2, OverlapStays DEF Opening
  <2>5. PartitionsOverlap'
    <3>. SUFFICES ASSUME partitions' > 1
                  PROVE  \E c, d \in Calls : Opening(c)' /\ Opening(d)' /\ Overlap(c, d)'
      BY DEF PartitionsOverlap
    <3>1. partitions > 0
      BY <2>1 DEF SourceInv
    <3>2. PICK d \in Calls : Opening(d) /\ Overlap(e, d)
      BY <2>1, <3>1 DEF SourceInv, InsertsOverlap
    <3>. QED  BY <2>1, <3>2, OverlapStays DEF Opening
  <2>. QED  BY <2>1, <2>2, <2>3, <2>4, <2>5 DEF SourceInv
<1>. QED
  BY <1>1, <1>2, <1>3, <1>4, <1>5 DEF StorageStep
-----------------------------------------------------------------------------
\* What a call that has had the report to itself has shown of it so far.
Shown(c) ==
  /\ pc[c] = "rendered" => text[c] = updates
  /\ pc[c] = "exporting" => text[c] = updates /\ row = updates
  /\ pc[c] = "done" => row = updates /\ file = updates

ReportTypes ==
  /\ updates \subseteq Calls /\ text \in [Calls -> SUBSET Calls]
  /\ row \cup file \subseteq updates
  /\ \A c \in Calls : text[c] \subseteq updates

ReportInv ==
  ReportTypes /\ \A c \in Calls : Reports(c) /\ Alone(c) => Shown(c)

\* Whoever still is alone after a step was alone before it, and nobody else
\* who touches the report has moved.
LEMMA AloneStays ==
  ASSUME CallInv, NEW e \in Calls, Moves(e), NEW c \in Calls,
         Reports(c), Alone(c)', pc'[c] \notin {"waiting", "begun"}
  PROVE  Alone(c) /\ (c = e \/ ~Reports(e))
<1>1. before'[c] = before[c] /\ job' = job
  BY DEF Moves
<1>2. ASSUME NEW d \in Calls \ {c}, Reports(d)
      PROVE  d \in before[c] \/ pc'[d] = "waiting"
  BY <1>1, <1>2 DEF Alone, Reports
<1>3. ASSUME NEW d \in Calls \ {c}, Reports(d)
      PROVE  d \in before[c] \/ pc[d] = "waiting"
  BY <1>2, <1>3 DEF Moves
<1>4. CASE c # e /\ Reports(e)
  <2>1. e \in before[c]
    BY <1>2, <1>4 DEF Moves
  <2>. QED  BY <2>1 DEF CallInv, Moves
<1>. QED  BY <1>3, <1>4 DEF Alone

LEMMA ReportGoesOn ==
  ASSUME CallInv, ReportInv, NEW e \in Calls, Moves(e), Reports(e),
         ReportTypes', Alone(e) => Shown(e)'
  PROVE  ReportInv'
<1>. SUFFICES ASSUME NEW c \in Calls, Reports(c)', Alone(c)'
              PROVE  Shown(c)'
  BY DEF ReportInv
<1>1. Reports(c)
  BY DEF Reports, Moves
<1>2. CASE pc'[c] \in {"waiting", "begun"}
  BY <1>2 DEF Shown
<1>3. CASE pc'[c] \notin {"waiting", "begun"}
  <2>1. c = e /\ Alone(c)
    BY <1>1, <1>3, AloneStays
  <2>. QED  BY <2>1
<1>. QED  BY <1>2, <1>3

LEMMA ReportStays ==
  ASSUME CallInv, ReportInv, NEW e \in Calls, Moves(e), UNCHANGED reportVars,
         Reports(e) => pc'[e] \notin {"rendered", "exporting", "done"}
  PROVE  ReportInv'
<1>. USE DEF reportVars
<1>. SUFFICES ASSUME NEW c \in Calls, Reports(c)', Alone(c)'
              PROVE  Shown(c)'
  BY DEF ReportInv, ReportTypes
<1>1. Reports(c)
  BY DEF Reports, Moves
<1>2. CASE pc'[c] \in {"waiting", "begun"} \/ c = e
  BY <1>1, <1>2 DEF Shown
<1>3. CASE pc'[c] \notin {"waiting", "begun"} /\ c # e
  <2>1. Shown(c) /\ pc'[c] = pc[c]
    BY <1>1, <1>3, AloneStays DEF ReportInv, Moves
  <2>. QED  BY <2>1 DEF Shown
<1>. QED  BY <1>2, <1>3

LEMMA ReportStarts == Init => ReportInv
<1>. SUFFICES ASSUME StorageInit, ReportInit PROVE ReportInv
  BY DEF Init
<1>1. ReportTypes
  BY DEF ReportInit, ReportTypes
<1>2. \A c \in Calls : Shown(c)
  BY DEF StorageInit, Shown
<1>. QED  BY <1>1, <1>2 DEF ReportInv

LEMMA ReportStepKeeps ==
  ASSUME CallInv, ReportInv, NEW e \in Calls, ReportStep(e)
  PROVE  ReportInv'
<1>. Moves(e) /\ Reports(e)
  BY ReportMoves DEF Placed, Reports
<1>. USE DEF At, Go
<1>1. CASE Initialize(e)
  <2>1. UNCHANGED <<updates, row, file, text>>
        /\ pc'[e] \in {"gathering", "refused"}
    BY <1>1 DEF Initialize, CallInv
  <2>2. ReportTypes' /\ Shown(e)'
    BY <2>1 DEF ReportInv, ReportTypes, Shown
  <2>. QED  BY <2>2, ReportGoesOn
<1>2. CASE FindReport(e)
  <2>1. UNCHANGED reportVars /\ pc'[e] \in {"recording", "refused"}
    BY <1>2 DEF FindReport, CallInv
  <2>. QED  BY <2>1, ReportStays
<1>3. CASE RecordUpdate(e)
  <2>1. /\ UNCHANGED <<row, file, text>> /\ updates' = updates \cup {e}
        /\ pc'[e] = "gathering"
    BY <1>3 DEF RecordUpdate, CallInv
  <2>2. ReportTypes' /\ Shown(e)'
    BY <2>1 DEF ReportInv, ReportTypes, Shown
  <2>. QED  BY <2>2, ReportGoesOn
<1>4. CASE Gather(e)
  <2>1. /\ UNCHANGED <<updates, row, file>> /\ pc'[e] = "rendered"
        /\ text' = [text EXCEPT ![e] = updates]
    BY <1>4 DEF Gather, CallInv
  <2>2. ReportTypes' /\ Shown(e)'
    BY <2>1 DEF ReportInv, ReportTypes, Shown
  <2>. QED  BY <2>2, ReportGoesOn
<1>5. CASE StoreText(e)
  <2>1. /\ UNCHANGED <<updates, file, text>> /\ row' = text[e]
        /\ pc[e] = "rendered" /\ pc'[e] = "exporting"
    BY <1>5 DEF StoreText, CallInv
  <2>2. ReportTypes'
    BY <2>1 DEF ReportInv, ReportTypes
  <2>3. Alone(e) => Shown(e)'
    BY <2>1 DEF ReportInv, Shown
  <2>. QED  BY <2>2, <2>3, ReportGoesOn
<1>6. CASE Export(e)
  <2>1. /\ UNCHANGED <<updates, row, text>> /\ file' = text[e]
        /\ pc[e] = "exporting" /\ pc'[e] = "done"
    BY <1>6 DEF Export, CallInv
  <2>2. ReportTypes'
    BY <2>1 DEF ReportInv, ReportTypes
  <2>3. Alone(e) => Shown(e)'
    BY <2>1 DEF ReportInv, Shown
  <2>. QED  BY <2>2, <2>3, ReportGoesOn
<1>. QED
  BY <1>1, <1>2, <1>3, <1>4, <1>5, <1>6 DEF ReportStep
-----------------------------------------------------------------------------
VerdictType ==
  [kind : Kinds, objective : {job[c].objective : c \in Calls},
   config : {job[c].config : c \in Calls}, findings : SUBSET SUBSET Nat,
   grounds : SUBSET Nat]

Founded(v) ==
  v.kind = "sqlite" =>
    v.grounds # {} /\ \A f \in v.findings : f # {} /\ f \subseteq v.grounds

Answers(c, v) ==
  /\ v.kind = job[c].kind /\ v.objective = job[c].objective
  /\ v.config = job[c].config /\ v \in VerdictType /\ Founded(v)

Answered(c) == \/ pc[c] \in {"saving", "creating", "storing"}
               \/ pc[c] = "done" /\ job[c].kind \in Kinds

\* Every stored verdict is founded: the calls that find it did not make it.
VerdictTypes ==
  /\ verdicts \in Seq(VerdictType) /\ \A v \in Rows(verdicts) : Founded(v)
  /\ queries \in [Calls -> Seq(BOOLEAN)]
  /\ verdict = [c \in Calls |-> verdict[c]]

VerdictInv ==
  VerdictTypes /\ \A c \in Calls : Answered(c) => Answers(c, verdict[c])

LEMMA VerdictsStart == Init => VerdictInv
<1>. SUFFICES ASSUME StorageInit, SpecialistsInit PROVE VerdictInv
  BY DEF Init
<1>1. VerdictTypes
  <2>1. verdicts = <<>> /\ Rows(verdicts) = {}
    BY DEF SpecialistsInit, Rows
  <2>2. verdicts \in Seq(VerdictType) /\ <<>> \in Seq(BOOLEAN)
    BY <2>1, EmptySeq
  <2>3. verdict = [c \in Calls |-> verdict[c]] /\ queries \in [Calls -> Seq(BOOLEAN)]
    BY <2>2 DEF SpecialistsInit
  <2>. QED  BY <2>1, <2>2, <2>3 DEF VerdictTypes
<1>2. \A c \in Calls : ~Answered(c)
  BY DEF StorageInit, Answered
<1>. QED  BY <1>1, <1>2 DEF VerdictInv

LEMMA VerdictTypesKept ==
  ASSUME UNCHANGED job, verdicts' \in Seq(VerdictType),
         \A v \in Rows(verdicts') : Founded(v),
         queries' \in [Calls -> Seq(BOOLEAN)],
         verdict' = [c \in Calls |-> verdict'[c]]
  PROVE  VerdictTypes'
<1>1. VerdictType' = VerdictType
  BY DEF VerdictType
<1>2. verdicts' \in Seq(VerdictType')
  BY <1>1
<1>3. \A v \in Rows(verdicts)' : Founded(v)'
  BY DEF Founded, Rows
<1>. QED  BY <1>2, <1>3 DEF VerdictTypes

LEMMA VerdictGoesOn ==
  ASSUME CallInv, VerdictInv, NEW e \in Calls, Moves(e), VerdictTypes',
         \A d \in Calls \ {e} : verdict'[d] = verdict[d],
         Answered(e)' => Answers(e, verdict'[e])
  PROVE  VerdictInv'
<1>. job' = job
  BY DEF Moves
<1>1. ASSUME NEW c \in Calls, NEW v
      PROVE  Answers(c, v) = Answers(c, v)'
  BY DEF Answers, VerdictType, Founded
<1>. SUFFICES ASSUME NEW c \in Calls, Answered(c)'
              PROVE  Answers(c, verdict'[c])
  BY <1>1 DEF VerdictInv, Answers, VerdictType, Founded
<1>2. CASE c # e
  <2>1. Answered(c)
    BY <1>2 DEF Answered, Moves
  <2>. QED  BY <2>1, <1>2 DEF VerdictInv
<1>. QED  BY <1>2

LEMMA VerdictsStay ==
  ASSUME CallInv, VerdictInv, NEW e \in Calls, Moves(e), UNCHANGED verdictVars,
         ~Answered(e)'
  PROVE  VerdictInv'
<1>. job' = job
  BY DEF Moves
<1>1. VerdictTypes'
  BY DEF VerdictInv, VerdictTypes, verdictVars, VerdictType, Founded, Rows
<1>. QED  BY <1>1, VerdictGoesOn DEF verdictVars

\* A fresh verdict answers its own delegation.
LEMMA FreshAnswers ==
  ASSUME VerdictTypes, NEW c \in Calls, job[c].kind \in Kinds,
         NEW findings \in SUBSET SUBSET Nat,
         job[c].kind = "sqlite" => Succeeded(c) # {} /\ Grounded(c, findings)
  PROVE  Answers(c, Verdict(c, findings))
<1>. DEFINE v == Verdict(c, findings)
<1>1. queries[c] \in Seq(BOOLEAN)
  BY DEF VerdictTypes
<1>2. Succeeded(c) \in SUBSET Nat
  BY <1>1, LenProperties DEF Succeeded
<1>3. /\ v.kind = job[c].kind /\ v.objective = job[c].objective
      /\ v.config = job[c].config /\ v.findings = findings
      /\ v.grounds = Succeeded(c)
  BY DEF Verdict
<1>4. v \in VerdictType
  BY <1>2 DEF Verdict, VerdictType
<1>5. ASSUME job[c].kind = "sqlite", NEW f \in findings
      PROVE  f # {} /\ f \subseteq Succeeded(c)
  BY <1>5 DEF Grounded, Succeeded
<1>. HIDE DEF v
<1>6. Founded(v)
  BY <1>3, <1>5 DEF Founded
<1>. QED  BY <1>3, <1>4, <1>6 DEF Answers, v

LEMMA JudgeKeeps ==
  ASSUME CallInv, VerdictInv, NEW e \in Calls, Moves(e), job[e].kind \in Kinds,
         NEW findings \in SUBSET SUBSET Nat, Judge(e, findings),
         job[e].kind = "sqlite" => Succeeded(e) # {} /\ Grounded(e, findings)
  PROVE  VerdictInv'
<1>. DEFINE v == Verdict(e, findings)
<1>1. Answers(e, v)
  BY FreshAnswers DEF VerdictInv
<1>2. verdict' = [verdict EXCEPT ![e] = v] /\ UNCHANGED <<verdicts, queries>>
  BY DEF Judge
<1>. HIDE DEF v
<1>3. verdict'[e] = v /\ \A d \in Calls \ {e} : verdict'[d] = verdict[d]
  BY <1>2 DEF VerdictInv, VerdictTypes
<1>4. VerdictTypes'
  <2>1. verdict' = [c \in Calls |-> verdict'[c]]
    BY <1>2 DEF VerdictInv, VerdictTypes
  <2>2. UNCHANGED job
    BY DEF Moves
  <2>. QED  BY <1>2, <2>1, <2>2, VerdictTypesKept DEF VerdictInv, VerdictTypes
<1>. QED  BY <1>1, <1>3, <1>4, VerdictGoesOn

LEMMA VerdictStep ==
  ASSUME CallInv, VerdictInv, NEW e \in Calls, SpecialistStep(e)
  PROVE  VerdictInv'
<1>. Moves(e) /\ job[e].kind \in Kinds /\ job' = job
  BY SpecialistMoves DEF Placed, Moves
<1>. USE DEF At, Go
<1>1. CASE \/ Delegate(e) \/ ViewImage(e) \/ LoadRecording(e) \/ ReadSchema(e)
           \/ Transcribe(e) \/ Insist(e)
  <2>1. /\ UNCHANGED <<verdicts, queries, verdict>>
        /\ pc'[e] \in {"recalling", "asking", "scoring", "refused"}
    BY <1>1 DEF Delegate, ViewImage, LoadRecording, ReadSchema, Transcribe,
            Insist, verdictVars, callVars, CallInv
  <2>2. VerdictTypes' /\ ~Answered(e)'
    BY <2>1 DEF VerdictInv, VerdictTypes, VerdictType, Founded, Rows, Answered
  <2>. QED  BY <2>1, <2>2, VerdictGoesOn
<1>2. CASE Recall(e)
  <2>1. UNCHANGED <<verdicts, queries>>
    BY <1>2 DEF Recall
  <2>2. CASE pc' = [pc EXCEPT ![e] = "lookup"] /\ UNCHANGED verdict
    <3>1. ~Answered(e)'
      BY <2>2 DEF Answered, CallInv
    <3>. QED  BY <1>2, <2>2, <3>1, VerdictsStay DEF Recall, verdictVars
  <2>3. ASSUME NEW i \in Newest(job[e].kind), CacheIsCurrent(e, verdicts[i]),
               verdict' = [verdict EXCEPT ![e] = verdicts[i]]
        PROVE  VerdictInv'
    <3>. DEFINE v == verdicts[i]
    <3>1. /\ v \in Rows(verdicts) /\ v.kind = job[e].kind
          /\ v.config = job[e].config /\ v.objective = job[e].objective
      BY <2>3 DEF Newest, Rows, CacheIsCurrent
    <3>2. v \in VerdictType
      BY <2>3, ElementOfSeq, LenProperties DEF Newest, VerdictInv, VerdictTypes
    <3>3. Answers(e, v)
      BY <3>1, <3>2 DEF Answers, VerdictInv, VerdictTypes
    <3>. HIDE DEF v
    <3>4. verdict' = [verdict EXCEPT ![e] = v]
      BY <2>3 DEF v
    <3>5. verdict'[e] = v /\ \A d \in Calls \ {e} : verdict'[d] = verdict[d]
      BY <3>4 DEF VerdictInv, VerdictTypes
    <3>6. verdict' = [c \in Calls |-> verdict'[c]]
      BY <3>4 DEF VerdictInv, VerdictTypes
    <3>7. VerdictTypes'
      BY <2>1, <3>6 DEF VerdictInv, VerdictTypes, VerdictType, Founded, Rows
    <3>. QED  BY <3>3, <3>5, <3>7, VerdictGoesOn
  <2>. QED  BY <1>2, <2>2, <2>3 DEF Recall
<1>3. CASE Look(e)
  <2>1. CASE Judge(e, {})
    BY <1>3, <2>1, JudgeKeeps DEF Look
  <2>2. CASE Go(e, "scoring") /\ UNCHANGED verdictVars
    <3>1. ~Answered(e)'
      BY <2>2 DEF Answered, CallInv
    <3>. QED  BY <2>2, <3>1, VerdictsStay
  <2>. QED  BY <1>3, <2>1, <2>2 DEF Look
<1>4. CASE Score(e)
  BY <1>4, JudgeKeeps DEF Score
<1>5. CASE Query(e)
  <2>1. PICK ok \in BOOLEAN : queries' = [queries EXCEPT ![e] = Append(@, ok)]
    BY <1>5 DEF Query
  <2>2. Append(queries[e], ok) \in Seq(BOOLEAN)
    BY AppendProperties DEF VerdictInv, VerdictTypes
  <2>3. queries' \in [Calls -> Seq(BOOLEAN)]
    BY <2>1, <2>2 DEF VerdictInv, VerdictTypes
  <2>4. UNCHANGED <<verdicts, verdict>> /\ pc[e] = "asking" /\ pc' = pc
    BY <1>5 DEF Query, callVars
  <2>5. VerdictTypes' /\ ~Answered(e)'
    BY <2>3, <2>4 DEF VerdictInv, VerdictTypes, VerdictType, Founded, Rows, Answered
  <2>. QED  BY <2>4, <2>5, VerdictGoesOn
<1>6. CASE Conclude(e)
  <2>1. ASSUME NEW findings \in {{}} \cup {{f} : f \in SUBSET (1..MaxQueries + 1)},
               Grounded(e, findings), Judge(e, findings)
        PROVE  VerdictInv'
    <3>1. queries[e] \in Seq(BOOLEAN)
      BY DEF VerdictInv, VerdictTypes
    <3>2. DOMAIN queries[e] \subseteq Nat
      BY <3>1, LenProperties
    <3>3. findings \in SUBSET SUBSET Nat
      BY <2>1, <3>2 DEF Grounded
    <3>. QED  BY <1>6, <2>1, <3>3, JudgeKeeps DEF Conclude
  <2>2. CASE Go(e, "refused") /\ UNCHANGED verdictVars
    <3>1. ~Answered(e)'
      BY <2>2 DEF Answered, CallInv
    <3>. QED  BY <2>2, <3>1, VerdictsStay
  <2>. QED  BY <1>6, <2>1, <2>2 DEF Conclude
<1>7. CASE FindArtifact(e) \/ CreateArtifact(e) \/ Unsaved(e)
  <2>1. /\ UNCHANGED <<verdicts, queries, verdict>>
        /\ pc[e] \in {"saving", "creating", "storing"}
    BY <1>7 DEF FindArtifact, CreateArtifact, Unsaved, verdictVars
  <2>2. VerdictTypes' /\ Answers(e, verdict[e])
    BY <2>1 DEF VerdictInv, VerdictTypes, VerdictType, Founded, Rows, Answered
  <2>. QED  BY <2>1, <2>2, VerdictGoesOn
<1>8. CASE Store(e)
  <2>1. /\ UNCHANGED <<queries, verdict>> /\ pc[e] = "storing"
        /\ verdicts' = Append(verdicts, verdict[e])
    BY <1>8 DEF Store
  <2>2. Answers(e, verdict[e])
    BY <2>1 DEF VerdictInv, Answered
  <2>3. /\ verdicts' \in Seq(VerdictType)
        /\ Rows(verdicts') = Rows(verdicts) \cup {verdict[e]}
    BY <2>1, <2>2, RowsOfAppend DEF VerdictInv, VerdictTypes, Answers
  <2>4. VerdictTypes'
    <3>1. \A v \in Rows(verdicts') : Founded(v)
      BY <2>2, <2>3 DEF VerdictInv, VerdictTypes, Answers
    <3>. QED  BY <2>1, <2>3, <3>1, VerdictTypesKept DEF VerdictInv, VerdictTypes
  <2>. QED  BY <2>1, <2>2, <2>4, VerdictGoesOn
<1>. QED
  BY <1>1, <1>2, <1>3, <1>4, <1>5, <1>6, <1>7, <1>8 DEF SpecialistStep
-----------------------------------------------------------------------------
\* What the outcome says, and what a call holds on the way to it.
Earned(c) ==
  outcome[c] \in {"success", "partial"} =>
    /\ truth[c].found
    /\ outcome[c] = "success" => ~truth[c].withheld
    /\ held[c] # NoContent =>
         /\ dumps[held[c]] = "whole"
         /\ job[c].kind \in Media => held[c].size \in 1..MaxMedia
         /\ job[c].kind = "query_sqlite_file" => held[c].size <= MaxExtraction

Right(c) ==
  /\ pc[c] \in {"waiting", "begun"} => held[c] = NoContent
  /\ pc[c] = "persisting" => held[c] \in Contents
  /\ pc[c] = "extracted" => held[c] \in Contents /\ dumps[held[c]] = "whole"
  /\ outcome[c] \in {"success", "partial"} => pc[c] = "done"
  /\ Earned(c)

FileTypes ==
  /\ source \in Contents /\ dumps \in [Contents -> {"none", "whole", "torn"}]
  /\ held \in [Calls -> Contents \cup {NoContent}]
  /\ truth = [c \in Calls |-> truth[c]]
  /\ outcome = [c \in Calls |-> outcome[c]]

OutcomeInv == FileTypes /\ \A c \in Calls : Right(c)

LEMMA OutcomesStart == Init => OutcomeInv
<1>. SUFFICES ASSUME NEW w \in Worlds, source = w.source, dumps = w.dumps,
                     StorageInit, ToolsInit
              PROVE  OutcomeInv
  BY DEF Init
<1>1. FileTypes
  BY WorldsAssumption DEF ToolsInit, FileTypes
<1>2. \A c \in Calls : Right(c)
  BY DEF StorageInit, ToolsInit, Right, Earned
<1>. QED  BY <1>1, <1>2 DEF OutcomeInv

LEMMA OutcomeGoesOn ==
  ASSUME CallInv, OutcomeInv, NEW e \in Calls, Moves(e), FileTypes', Right(e)',
         \A d \in Contents : dumps[d] = "whole" => dumps'[d] = "whole",
         \A d \in Calls \ {e} : /\ held'[d] = held[d] /\ truth'[d] = truth[d]
                                /\ outcome'[d] = outcome[d]
  PROVE  OutcomeInv'
<1>. SUFFICES ASSUME NEW c \in Calls, c # e PROVE Right(c)'
  BY DEF OutcomeInv
<1>1. /\ pc'[c] = pc[c] /\ held'[c] = held[c] /\ truth'[c] = truth[c]
      /\ outcome'[c] = outcome[c] /\ job' = job
      /\ held[c] \in Contents \cup {NoContent} /\ Right(c)
  BY DEF Moves, OutcomeInv, FileTypes
<1>. QED  BY <1>1 DEF Right, Earned

LEMMA OutcomesStay ==
  ASSUME CallInv, OutcomeInv, NEW e \in Calls, Moves(e), UNCHANGED toolVars,
         pc'[e] \notin {"persisting", "extracted"}
  PROVE  OutcomeInv'
<1>. USE DEF toolVars
<1>1. FileTypes'
  BY DEF OutcomeInv, FileTypes
<1>2. Right(e) /\ outcome[e] \notin {"success", "partial"}
  BY DEF OutcomeInv, Right, Moves, Ended
<1>3. Right(e)'
  BY <1>2 DEF Right, Earned, Moves
<1>. QED  BY <1>1, <1>3, OutcomeGoesOn

LEMMA RefuseKeeps ==
  ASSUME CallInv, OutcomeInv, NEW e \in Calls, Moves(e), Refuse(e),
         UNCHANGED <<source, dumps, truth>>,
         held' \in [Calls -> Contents \cup {NoContent}],
         \A d \in Calls \ {e} : held'[d] = held[d]
  PROVE  OutcomeInv'
<1>1. outcome' = [outcome EXCEPT ![e] = "failed"] /\ pc'[e] = "refused"
  BY DEF Refuse, Go, CallInv
<1>2. FileTypes'
  BY <1>1 DEF OutcomeInv, FileTypes
<1>3. outcome'[e] = "failed" /\ \A d \in Calls \ {e} : outcome'[d] = outcome[d]
  BY <1>1 DEF OutcomeInv, FileTypes
<1>4. Right(e)'
  BY <1>1, <1>3 DEF Right, Earned
<1>. QED  BY <1>2, <1>3, <1>4, OutcomeGoesOn

\* A result that is classified as a success or as partial has earned it.
LEMMA ReturnKeeps ==
  ASSUME CallInv, OutcomeInv, NEW e \in Calls, Moves(e), UNCHANGED fileVars,
         NEW raw, NEW found, NEW withheld, Return(e, raw, found, withheld),
         Classify(job[e].kind, raw) \in {"success", "partial"} =>
           /\ found
           /\ Classify(job[e].kind, raw) = "success" => ~withheld
           /\ held[e] # NoContent =>
                /\ dumps[held[e]] = "whole"
                /\ job[e].kind \in Media => held[e].size \in 1..MaxMedia
                /\ job[e].kind = "query_sqlite_file" =>
                     held[e].size <= MaxExtraction
  PROVE  OutcomeInv'
<1>. DEFINE o == Classify(job[e].kind, raw)
            t == [found |-> found, withheld |-> withheld]
<1>1. /\ outcome' = [outcome EXCEPT ![e] = o] /\ truth' = [truth EXCEPT ![e] = t]
      /\ pc'[e] = "done" /\ UNCHANGED <<source, dumps, held>>
  BY DEF Return, Go, CallInv, fileVars
<1>. t.found = found /\ t.withheld = withheld
  OBVIOUS
<1>. HIDE DEF o, t
<1>2. FileTypes'
  BY <1>1 DEF OutcomeInv, FileTypes
<1>3. /\ outcome'[e] = o /\ truth'[e] = t
      /\ \A d \in Calls \ {e} : outcome'[d] = outcome[d] /\ truth'[d] = truth[d]
  BY <1>1 DEF OutcomeInv, FileTypes
<1>4. Earned(e)'
  BY <1>1, <1>3 DEF Earned, Moves, o
<1>5. Right(e)'
  BY <1>1, <1>4 DEF Right
<1>. QED  BY <1>1, <1>2, <1>3, <1>5, OutcomeGoesOn

\* What execution::classify makes of a value rests on all of it.
LEMMA ClassifyIsStrict ==
  ASSUME NEW tool, NEW raw, Classify(tool, raw) \in {"success", "partial"}
  PROVE  /\ ~raw.error /\ raw.exit # "failure" /\ raw.shape
         /\ raw.status \notin {"failed", "error", "cancelled", "unknown"}
         /\ Classify(tool, raw) = "success" => ~raw.cut /\ raw.status # "partial"
  BY DEF Classify

LEMMA ErrorFails ==
  ASSUME NEW tool
  PROVE  Classify(tool, Error) \notin {"success", "partial"}
<1>1. Error.error
  BY DEF Error, Returned
<1>. QED  BY <1>1, ClassifyIsStrict

LEMMA ErrorKeeps ==
  ASSUME CallInv, OutcomeInv, NEW e \in Calls, Moves(e), UNCHANGED fileVars,
         Return(e, Error, FALSE, FALSE)
  PROVE  OutcomeInv'
  BY ErrorFails, ReturnKeeps

\* The rows of a statement, once what it ran on is known to be right.
LEMMA RowsKeep ==
  ASSUME CallInv, OutcomeInv, NEW e \in Calls, Moves(e), UNCHANGED fileVars,
         ReturnRows(e), job[e].kind \notin Media,
         held[e] # NoContent =>
           dumps[held[e]] = "whole" /\ held[e].size <= MaxExtraction
  PROVE  OutcomeInv'
<1>1. CASE Return(e, Error, FALSE, FALSE)
  BY <1>1, ErrorKeeps
<1>2. ASSUME NEW there \in 0..Limit + 2, NEW shortened \in BOOLEAN,
             Return(e, Returned(TRUE, Fetched(there) > Limit \/ shortened),
                    TRUE, there > Limit \/ shortened)
      PROVE  OutcomeInv'
  <2>. DEFINE raw == Returned(TRUE, Fetched(there) > Limit \/ shortened)
              withheld == there > Limit \/ shortened
  <2>1. Fetched(there) > Limit <=> there > Limit
    BY LimitAssumption DEF Fetched
  <2>2. withheld => raw.cut
    BY <2>1 DEF Returned
  <2>3. Return(e, raw, TRUE, withheld)
    BY <1>2
  <2>. HIDE DEF raw
  <2>4. Classify(job[e].kind, raw) = "success" => ~withheld
    BY <2>2, ClassifyIsStrict
  <2>. HIDE DEF withheld
  <2>. QED  BY <2>3, <2>4, ReturnKeeps
<1>. QED  BY <1>1, <1>2 DEF ReturnRows

LEMMA ExtractionKeeps ==
  ASSUME CallInv, OutcomeInv, NEW e \in Calls, ExtractionStep(e)
  PROVE  OutcomeInv'
<1>. Moves(e)
  BY ExtractionMoves DEF Placed
<1>. USE DEF fileVars
<1>1. CASE Lookup(e)
  BY <1>1, RefuseKeeps, OutcomesStay
  DEF Lookup, toolVars, Go, CallInv, OutcomeInv, FileTypes
<1>2. CASE Measure(e)
  BY <1>2, RefuseKeeps, OutcomesStay
  DEF Measure, toolVars, Go, CallInv, OutcomeInv, FileTypes
<1>3. CASE Load(e)
  <2>1. /\ UNCHANGED <<source, dumps, truth>> /\ held' = [held EXCEPT ![e] = source]
        /\ pc[e] = "loading"
    BY <1>3 DEF Load
  <2>2. /\ held' \in [Calls -> Contents \cup {NoContent}] /\ held'[e] = source
        /\ source \in Contents /\ \A d \in Calls \ {e} : held'[d] = held[d]
    BY <2>1 DEF OutcomeInv, FileTypes
  <2>3. CASE Refuse(e)
    BY <2>1, <2>2, <2>3, RefuseKeeps
  <2>4. CASE ~Refuse(e)
    <3>1. /\ UNCHANGED outcome /\ pc'[e] \in {"extracted", "persisting"}
          /\ pc'[e] = "extracted" => dumps[source] = "whole"
      BY <1>3, <2>4 DEF Load, Go, CallInv
    <3>2. FileTypes'
      BY <2>1, <2>2, <3>1 DEF OutcomeInv, FileTypes
    <3>3. outcome[e] \notin {"success", "partial"}
      BY <2>1 DEF OutcomeInv, Right
    <3>4. Right(e)'
      BY <2>1, <2>2, <3>1, <3>3 DEF Right, Earned
    <3>. QED  BY <2>1, <2>2, <3>1, <3>2, <3>4, OutcomeGoesOn
  <2>. QED  BY <2>3, <2>4
<1>4. CASE Persist(e)
  <2>1. /\ UNCHANGED <<source, held, truth, outcome>> /\ pc[e] = "persisting"
        /\ pc'[e] = "extracted" /\ dumps' = [dumps EXCEPT ![held[e]] = "whole"]
    BY <1>4 DEF Persist, Go, CallInv
  <2>2. /\ held[e] \in Contents /\ Right(e)
        /\ outcome[e] \notin {"success", "partial"}
    BY <2>1 DEF OutcomeInv, Right
  <2>3. /\ dumps' \in [Contents -> {"none", "whole", "torn"}]
        /\ dumps'[held[e]] = "whole"
        /\ \A d \in Contents : dumps[d] = "whole" => dumps'[d] = "whole"
    BY <2>1, <2>2 DEF OutcomeInv, FileTypes
  <2>4. FileTypes'
    BY <2>1, <2>3 DEF OutcomeInv, FileTypes
  <2>5. Right(e)'
    BY <2>1, <2>2, <2>3 DEF Right, Earned
  <2>. QED  BY <2>1, <2>3, <2>4, <2>5, OutcomeGoesOn
<1>. QED  BY <1>1, <1>2, <1>3, <1>4 DEF ExtractionStep

LEMMA ToolKeeps ==
  ASSUME CallInv, OutcomeInv, NEW e \in Calls, ToolStep(e)
  PROVE  OutcomeInv'
<1>. Moves(e)
  BY ToolMoves DEF Placed
<1>0. /\ pc[e] = "begun" => held[e] = NoContent
      /\ pc[e] = "extracted" => dumps[held[e]] = "whole"
  BY DEF OutcomeInv, Right
<1>. USE DEF At
<1>1. CASE ExtractFile(e)
  BY <1>1, OutcomesStay DEF ExtractFile, Go, CallInv
<1>2. CASE QuerySqlite(e)
  BY <1>2, OutcomesStay, ErrorKeeps DEF QuerySqlite, Go, CallInv
<1>3. CASE Interpret(e)
  BY <1>3, OutcomesStay, RefuseKeeps
  DEF Interpret, Go, CallInv, toolVars, fileVars, OutcomeInv, FileTypes
<1>4. CASE QueryIndex(e)
  BY <1>4, <1>0, RowsKeep, ErrorKeeps DEF QueryIndex, Media
<1>5. CASE ListDir(e)
  <2>1. ASSUME NEW there \in 0..Limit + 1, NEW unread \in BOOLEAN,
               NEW taken, taken = IF there > Limit THEN Limit ELSE there,
               Return(e, Returned(TRUE, taken < there \/ unread), TRUE,
                      there > Limit \/ unread)
        PROVE  OutcomeInv'
    <3>. DEFINE raw == Returned(TRUE, taken < there \/ unread)
                withheld == there > Limit \/ unread
    <3>1. taken < there <=> there > Limit
      BY <2>1, LimitAssumption
    <3>2. withheld => raw.cut
      BY <3>1 DEF Returned
    <3>3. Return(e, raw, TRUE, withheld)
      BY <2>1
    <3>. HIDE DEF raw
    <3>4. Classify(job[e].kind, raw) = "success" => ~withheld
      BY <3>2, ClassifyIsStrict
    <3>5. held[e] = NoContent /\ UNCHANGED fileVars
      BY <1>5, <1>0 DEF ListDir
    <3>. HIDE DEF withheld
    <3>. QED  BY <3>3, <3>4, <3>5, ReturnKeeps
  <2>2. CASE Return(e, Error, FALSE, FALSE)
    BY <1>5, <2>2, ErrorKeeps DEF ListDir
  <2>. QED  BY <1>5, <2>1, <2>2 DEF ListDir
<1>6. CASE External(e)
  <2>0. held[e] = NoContent /\ UNCHANGED fileVars
    BY <1>6, <1>0 DEF External
  <2>1. ASSUME NEW error \in BOOLEAN, NEW shape \in BOOLEAN, NEW cut \in BOOLEAN,
               NEW exit, NEW status,
               Return(e, [error |-> error, exit |-> exit, status |-> status,
                          shape |-> shape, cut |-> cut],
                      shape /\ ~error /\ exit # "failure"
                            /\ status \notin {"unknown", "failed"},
                      cut \/ status = "partial")
        PROVE  OutcomeInv'
    <3>. DEFINE raw == [error |-> error, exit |-> exit, status |-> status,
                        shape |-> shape, cut |-> cut]
    <3>1. /\ raw.error = error /\ raw.exit = exit /\ raw.status = status
          /\ raw.shape = shape /\ raw.cut = cut
      OBVIOUS
    <3>. HIDE DEF raw
    <3>2. Classify(job[e].kind, raw) \in {"success", "partial"} =>
            /\ shape /\ ~error /\ exit # "failure"
            /\ status \notin {"unknown", "failed"}
            /\ Classify(job[e].kind, raw) = "success" => ~(cut \/ status = "partial")
      BY <3>1, ClassifyIsStrict
    <3>. QED  BY <2>0, <2>1, <3>2, ReturnKeeps DEF raw
  <2>. QED  BY <1>6, <2>1 DEF External
<1>7. CASE ShowFile(e)
  <2>. DEFINE cut == held[e].size > job[e].shown
              raw == Returned(TRUE, cut)
  <2>1. raw.cut = cut
    BY DEF Returned
  <2>2. /\ job[e].kind = "extract_file" /\ dumps[held[e]] = "whole"
        /\ UNCHANGED fileVars /\ Return(e, raw, TRUE, cut)
    BY <1>7, <1>0 DEF ShowFile
  <2>. HIDE DEF raw, cut
  <2>3. Classify(job[e].kind, raw) = "success" => ~cut
    BY <2>1, ClassifyIsStrict
  <2>. QED  BY <2>2, <2>3, ReturnKeeps DEF Media
<1>8. CASE QueryExtracted(e)
  BY <1>8, <1>0, RowsKeep, ErrorKeeps DEF QueryExtracted, Media
<1>9. CASE Describe(e)
  <2>1. CASE /\ held[e].size \in 1..MaxMedia
             /\ Return(e, [Returned(TRUE, FALSE) EXCEPT !.status = "success"],
                       TRUE, FALSE)
    <3>1. job[e].kind \in Media /\ dumps[held[e]] = "whole" /\ UNCHANGED fileVars
      BY <1>9, <1>0 DEF Describe
    <3>2. job[e].kind # "query_sqlite_file"
      BY <3>1 DEF Media
    <3>. QED  BY <2>1, <3>1, <3>2, ReturnKeeps
  <2>. QED  BY <1>9, <2>1, ErrorKeeps DEF Describe
<1>. QED
  BY <1>1, <1>2, <1>3, <1>4, <1>5, <1>6, <1>7, <1>8, <1>9 DEF ToolStep
-----------------------------------------------------------------------------
\* The invariants under the steps of somebody else's work.
Idle(c, kinds) == job[c].kind \notin kinds \/ pc'[c] \in {"begun", "broken"}

LEMMA StorageElsewhere ==
  ASSUME CallInv, LegacyInv, SourceInv, NEW e \in Calls, Placed(e),
         UNCHANGED storageVars, Idle(e, {"open", "save"})
  PROVE  LegacyInv' /\ SourceInv'
<1>1. /\ pc'[e] \notin {"copying", "counting", "inserting"}
      /\ Opening(e) => pc'[e] \notin {"owned", "done"}
  BY DEF Idle, Placed, Fits, Opening
<1>2. Moves(e) /\ messages' \in Seq(MessageRow)
  BY DEF Placed, storageVars, LegacyInv
<1>. QED  BY <1>1, <1>2, LegacyStays, SourceStays DEF storageVars

LEMMA ReportElsewhere ==
  ASSUME CallInv, ReportInv, NEW e \in Calls, Placed(e),
         UNCHANGED reportVars, Idle(e, {"initialize", "append"})
  PROVE  ReportInv'
  BY ReportStays DEF Idle, Placed, Reports

LEMMA VerdictsElsewhere ==
  ASSUME CallInv, VerdictInv, NEW e \in Calls, Placed(e),
         UNCHANGED verdictVars,
         Idle(e, Kinds) \/ pc'[e] \in Extracting \cup {"refused"}
  PROVE  VerdictInv'
<1>1. ~Answered(e)'
  BY DEF Idle, Placed, Fits, Answered, Moves, Extracting
<1>. QED  BY <1>1, VerdictsStay DEF Placed

LEMMA FilesElsewhere ==
  ASSUME CallInv, OutcomeInv, NEW e \in Calls, Placed(e), UNCHANGED toolVars,
         Idle(e, Extractors) \/ pc'[e] \notin {"persisting", "extracted"}
  PROVE  OutcomeInv'
<1>1. pc'[e] \notin {"persisting", "extracted"}
  BY DEF Idle, Placed, Fits, Extracting
<1>. QED  BY <1>1, OutcomesStay DEF Placed

LEMMA KindsApart ==
  /\ Kinds \cap {"open", "save", "initialize", "append"} = {}
  /\ Extractors \cap {"open", "save", "initialize", "append"} = {}
  /\ Tools \cap ({"open", "save", "initialize", "append"} \cup Kinds) = {}
  BY DEF Kinds, Extractors, Media, Tools

\* A delegation reaches its file only through the extraction.
LEMMA SpecialistPlaces ==
  ASSUME CallInv, NEW e \in Calls, SpecialistStep(e)
  PROVE  pc'[e] \notin {"persisting", "extracted"}
<1>. USE DEF At, Go, CallInv, Judge
<1>1. CASE Delegate(e) \/ ViewImage(e) \/ LoadRecording(e) \/ ReadSchema(e)
  BY <1>1 DEF Delegate, ViewImage, LoadRecording, ReadSchema
<1>2. CASE Recall(e) \/ Look(e) \/ Transcribe(e) \/ Score(e)
  BY <1>2 DEF Recall, Look, Transcribe, Score
<1>3. CASE Query(e) \/ Insist(e) \/ Conclude(e)
  BY <1>3 DEF Query, Insist, Conclude, callVars
<1>4. CASE FindArtifact(e) \/ CreateArtifact(e) \/ Store(e) \/ Unsaved(e)
  BY <1>4 DEF FindArtifact, CreateArtifact, Store, Unsaved
<1>. QED  BY <1>1, <1>2, <1>3, <1>4 DEF SpecialistStep

LEMMA ExtractionPlaces ==
  ASSUME CallInv, NEW e \in Calls, ExtractionStep(e)
  PROVE  pc'[e] \in Extracting \cup {"refused"}
  BY DEF ExtractionStep, Lookup, Measure, Load, Persist, Refuse, Go, CallInv,
         Extracting

EvidenceInv ==
  CallInv /\ LegacyInv /\ SourceInv /\ ReportInv /\ VerdictInv /\ OutcomeInv

LEMMA EvidenceStarts == Init => EvidenceInv
<1>1. ASSUME Init PROVE CallInv
  <2>. PICK w \in Worlds : job = w.jobs /\ StorageInit
    BY <1>1 DEF Init
  <2>1. /\ pc = [c \in Calls |-> "waiting"] /\ before = [c \in Calls |-> {}]
        /\ \A c \in Calls : job[c].kind = "open" => job[c].source \in Sources
    BY WorldsAssumption DEF StorageInit
  <2>. QED  BY <2>1 DEF CallInv, Places, Fits, Extracting
<1>. QED  BY <1>1, LegacyStarts, SourceStarts, ReportStarts, VerdictsStart,
             OutcomesStart DEF EvidenceInv

LEMMA WorkKeeps ==
  ASSUME EvidenceInv, NEW e \in Calls, Work(e)
  PROVE  EvidenceInv'
<1>. USE DEF EvidenceInv
<1>0. Placed(e) /\ CallInv'
  BY WorkMoves, CallsMove
<1>1. CASE /\ Begin(e) \/ Break(e)
           /\ UNCHANGED <<storageVars, reportVars, toolVars, verdictVars>>
  <2>1. \A kinds : Idle(e, kinds)
    BY <1>1, BeginMoves DEF Idle
  <2>. QED  BY <1>0, <1>1, <2>1, StorageElsewhere, ReportElsewhere,
               VerdictsElsewhere, FilesElsewhere
<1>2. CASE StorageStep(e) /\ UNCHANGED <<reportVars, toolVars, verdictVars>>
  <2>1. /\ Idle(e, {"initialize", "append"}) /\ Idle(e, Kinds)
        /\ Idle(e, Extractors)
    BY <1>2, StorageMoves, KindsApart DEF Idle
  <2>. QED  BY <1>0, <1>2, <2>1, LegacyStep, SourceStep, ReportElsewhere,
               VerdictsElsewhere, FilesElsewhere
<1>3. CASE ReportStep(e) /\ UNCHANGED <<storageVars, toolVars, verdictVars>>
  <2>1. Idle(e, {"open", "save"}) /\ Idle(e, Kinds) /\ Idle(e, Extractors)
    BY <1>3, ReportMoves, KindsApart DEF Idle
  <2>. QED  BY <1>0, <1>3, <2>1, ReportStepKeeps, StorageElsewhere,
               VerdictsElsewhere, FilesElsewhere
<1>4. CASE ExtractionStep(e) /\ UNCHANGED <<storageVars, reportVars, verdictVars>>
  <2>1. Idle(e, {"open", "save"}) /\ Idle(e, {"initialize", "append"})
    BY <1>4, ExtractionMoves, KindsApart DEF Idle
  <2>2. pc'[e] \in Extracting \cup {"refused"}
    BY <1>4, ExtractionPlaces
  <2>. QED  BY <1>0, <1>4, <2>1, <2>2, ExtractionKeeps, StorageElsewhere,
               ReportElsewhere, VerdictsElsewhere
<1>5. CASE ToolStep(e) /\ UNCHANGED <<storageVars, reportVars, verdictVars>>
  <2>1. /\ Idle(e, {"open", "save"}) /\ Idle(e, {"initialize", "append"})
        /\ Idle(e, Kinds)
    BY <1>5, ToolMoves, KindsApart DEF Idle
  <2>. QED  BY <1>0, <1>5, <2>1, ToolKeeps, StorageElsewhere,
               ReportElsewhere, VerdictsElsewhere
<1>6. CASE SpecialistStep(e) /\ UNCHANGED <<storageVars, reportVars, toolVars>>
  <2>1. Idle(e, {"open", "save"}) /\ Idle(e, {"initialize", "append"})
    BY <1>6, SpecialistMoves, KindsApart DEF Idle
  <2>2. pc'[e] \notin {"persisting", "extracted"}
    BY <1>6, SpecialistPlaces
  <2>. QED  BY <1>0, <1>6, <2>1, <2>2, VerdictStep, StorageElsewhere,
               ReportElsewhere, FilesElsewhere
<1>. QED  BY <1>1, <1>2, <1>3, <1>4, <1>5, <1>6 DEF Work

LEMMA VerdictsUnmoved ==
  ASSUME VerdictInv, UNCHANGED <<job, pc, verdicts, queries, verdict>>
  PROVE  VerdictInv'
<1>1. VerdictTypes'
  BY VerdictTypesKept DEF VerdictInv, VerdictTypes
<1>2. ASSUME NEW c \in Calls, Answered(c)'
      PROVE  Answers(c, verdict[c])'
  <2>1. Answers(c, verdict[c])
    BY <1>2 DEF VerdictInv, Answered
  <2>2. VerdictType' = VerdictType
    BY DEF VerdictType
  <2>3. Founded(verdict[c])'
    BY <2>1 DEF Answers, Founded
  <2>. QED  BY <2>1, <2>2, <2>3 DEF Answers
<1>. QED  BY <1>1, <1>2 DEF VerdictInv

\* The source of the evidence changes, and nothing else.
LEMMA SourceChangeKeeps ==
  ASSUME EvidenceInv, ChangeSource,
         UNCHANGED <<storageVars, reportVars, verdictVars>>
  PROVE  EvidenceInv'
<1>1. /\ UNCHANGED <<job, pc, before, dumps, held, truth, outcome>>
      /\ source' \in Contents
  BY DEF ChangeSource
<1>. USE <1>1 DEF EvidenceInv, storageVars, reportVars, verdictVars
<1>2. CallInv'
  BY DEF CallInv
<1>3. LegacyInv'
  BY DEF LegacyInv, LegacyKept
<1>4. SourceInv'
  BY DEF SourceInv, PreparedHasSource, OpeningsAgree, InsertsOverlap,
         PartitionsOverlap, Opened, Opening, Agrees, Overlap
<1>5. ReportInv'
  BY DEF ReportInv, ReportTypes, Reports, Alone, Shown
<1>6. VerdictInv'
  BY VerdictsUnmoved
<1>7. OutcomeInv'
  BY DEF OutcomeInv, FileTypes, Right, Earned
<1>. QED  BY <1>2, <1>3, <1>4, <1>5, <1>6, <1>7

LEMMA NothingKeeps ==
  ASSUME EvidenceInv, UNCHANGED vars
  PROVE  EvidenceInv'
<1>. USE DEF EvidenceInv, vars, callVars, storageVars, reportVars, verdictVars,
             toolVars
<1>2. CallInv'
  BY DEF CallInv
<1>3. LegacyInv'
  BY DEF LegacyInv, LegacyKept
<1>4. SourceInv'
  BY DEF SourceInv, PreparedHasSource, OpeningsAgree, InsertsOverlap,
         PartitionsOverlap, Opened, Opening, Agrees, Overlap
<1>5. ReportInv'
  BY DEF ReportInv, ReportTypes, Reports, Alone, Shown
<1>6. VerdictInv'
  BY VerdictsUnmoved
<1>7. OutcomeInv'
  BY DEF OutcomeInv, FileTypes, Right, Earned
<1>. QED  BY <1>2, <1>3, <1>4, <1>5, <1>6, <1>7

THEOREM EvidenceInvHolds == Spec => []EvidenceInv
<1>1. EvidenceInv /\ [Next]_vars => EvidenceInv'
  BY WorkKeeps, SourceChangeKeeps, NothingKeeps DEF Next
<1>. QED  BY EvidenceStarts, <1>1, PTL DEF Spec

-----------------------------------------------------------------------------
(* A database that one opening has prepared is opened for no other source, *)
(* keeps one partition row unless openings overlap, and loses no message   *)
(* of an older version, for any calls, sources and interrupted migrations  *)
(* (open_investigation_index, migrate_legacy_history).                     *)
THEOREM StorageStaysBound == Spec => []StorageIsBound
<1>1. EvidenceInv => StorageIsBound
  <2>. SUFFICES ASSUME EvidenceInv PROVE OneSource /\ LegacyKept
    BY DEF StorageIsBound
  <2>1. LegacyKept
    BY DEF EvidenceInv, LegacyInv
  <2>2. ASSUME NEW c \in Calls, NEW d \in Calls,
               Opened(c), Opened(d), d \in before[c]
        PROVE  evidence = job[c].source
    BY <2>2 DEF EvidenceInv, SourceInv, OpeningsAgree, Opened, Opening, Agrees
  <2>3. PartitionsOverlap
    BY DEF EvidenceInv, SourceInv
  <2>. QED  BY <2>1, <2>2, <2>3 DEF OneSource, PartitionsOverlap, Opening
<1>. QED  BY <1>1, EvidenceInvHolds, PTL

(* A call that touches the report with no other beside it leaves every     *)
(* update in the row and in the file, whatever broke off before, and no    *)
(* text shows an update that was not recorded (build_report).              *)
THEOREM ReportAlwaysCatchesUp == Spec => []ReportCatchesUp
<1>1. EvidenceInv => ReportCatchesUp
  BY DEF EvidenceInv, ReportInv, ReportTypes, Shown, ReportCatchesUp
<1>. QED  BY <1>1, EvidenceInvHolds, PTL

(* Whatever extractions, changes of the source and failures meet, a result *)
(* called a success left nothing out and rests on a whole dump of a file   *)
(* within the limits (classify, extract_file_bytes, the tools).            *)
THEOREM OutcomesAlwaysEarned == Spec => []OutcomesAreEarned
<1>1. EvidenceInv => OutcomesAreEarned
  BY DEF EvidenceInv, OutcomeInv, Right, Earned, OutcomesAreEarned
<1>. QED  BY <1>1, EvidenceInvHolds, PTL

(* Whoever delegates gets a verdict on its own objective and under its own *)
(* provider and model, fresh or stored, and a verdict on a database is     *)
(* founded on queries that succeeded (cache_is_current, with_provenance,   *)
(* validate_sqlite_findings).                                              *)
THEOREM VerdictsAlwaysAnswer == Spec => []VerdictsAnswer
<1>1. EvidenceInv => VerdictsAnswer
  BY DEF EvidenceInv, VerdictInv, Answered, Answers, Founded, VerdictsAnswer
<1>. QED  BY <1>1, EvidenceInvHolds, PTL
=============================================================================
