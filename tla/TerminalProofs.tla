--------------------------- MODULE TerminalProofs ---------------------------
(***************************************************************************)
(* Theorems about Terminal for any commands, channel and number of turns:  *)
(* approval is what the investigator gave, and the status line is true.    *)
(* A prompt is displaced only by a later request, and a later request is   *)
(* made only when the call of every earlier one has ended.                 *)
(***************************************************************************)
EXTENDS Terminal, SequenceTheorems, TLAPS

Places == {"idle", "asking", "waiting", "running", "denied", "ended",
           "stopped"}

\* The part of the types that the arguments need.
Typed ==
  /\ open \in BOOLEAN /\ status \in {"idle", "thinking"}
  /\ working \in BOOLEAN
  /\ pending \in Commands \cup {NoCommand}
  /\ channel \in Seq(Commands \cup {NoCommand})
  /\ results \in Seq([turn: Nat, ok: BOOLEAN]) /\ turn \in Nat
  /\ command \in [Commands -> Places]
  /\ reply \in [Commands -> {"none", "yes", "no", "dropped"}]
  /\ alive \subseteq Commands /\ agreed \subseteq Commands

\* A turn has at most one call under way.
OneCall ==
  /\ \A x \in Commands : Underway(x) => working
  /\ \A x, y \in Commands : Underway(x) /\ Underway(y) => x = y

\* A responder answers only after its request was made, and says yes only
\* if a key did.
RepliesAreDue ==
  \A x \in Commands :
    /\ command[x] \in {"idle", "asking"} => reply[x] = "none"
    /\ reply[x] = "yes" => x \in agreed

Asked(x) == x # NoCommand => command[x] \notin {"idle", "asking"}
Idle(x) == x # NoCommand => command[x] # "waiting"

\* Requests wait in the order in which they were made: the popup's before
\* those of the channel, and only the last of them can be of a live call.
RequestsInOrder ==
  /\ Asked(pending)
  /\ \A i \in 1..Len(channel) : Asked(channel[i])
  /\ \A i \in 1..Len(channel) :
       channel[i] # NoCommand =>
         /\ Idle(pending) /\ \A j \in 1..(i - 1) : Idle(channel[j])

\* The result of a turn is there when the turn no longer works.
ResultsAreLate == results # <<>> => ~working

TerminalInv == /\ Typed /\ OneCall /\ RepliesAreDue /\ RequestsInOrder
               /\ ResultsAreLate /\ ApprovalIsGiven /\ StatusIsTrue
-----------------------------------------------------------------------------
\* What reporting an event does to the channel, if it does anything.
LEMMA Reported ==
  ASSUME Typed, channel' = Emitted
  PROVE  /\ channel' \in Seq(Commands \cup {NoCommand})
         /\ Len(channel') \in {Len(channel), Len(channel) + 1}
         /\ \A i \in 1..Len(channel') :
              \/ i \in 1..Len(channel) /\ channel'[i] = channel[i]
              \/ channel'[i] = NoCommand
<1>. DEFINE S == Commands \cup {NoCommand}
<1>1. channel \in Seq(S)
  BY DEF Typed
<1>2. CASE channel' = channel
  BY <1>1, <1>2
<1>3. CASE channel' = Append(channel, NoCommand)
  <2>. HIDE DEF S
  <2>1. NoCommand \in S
    BY DEF S
  <2>2. /\ Append(channel, NoCommand) \in Seq(S)
        /\ Len(Append(channel, NoCommand)) = Len(channel) + 1
        /\ \A i \in 1..Len(channel) :
             Append(channel, NoCommand)[i] = channel[i]
        /\ Append(channel, NoCommand)[Len(channel) + 1] = NoCommand
    BY <1>1, <2>1, AppendProperties
  <2>. QED  BY <1>1, <1>3, <2>2 DEF S
<1>. QED  BY <1>2, <1>3 DEF Emitted

\* Requests stay in order while calls only go on, and only events are sent.
LEMMA OrderStands ==
  ASSUME Typed, RequestsInOrder, pending' = pending,
         channel' = Emitted \/ channel' = channel,
         \A x \in Commands :
           /\ command'[x] \in {"idle", "asking"}
                => command[x] \in {"idle", "asking"}
           /\ command'[x] = "waiting" => command[x] = "waiting"
  PROVE  RequestsInOrder'
<1>1. \A i \in 1..Len(channel') :
        \/ /\ i \in 1..Len(channel) /\ channel'[i] = channel[i]
           /\ channel'[i] \in Commands \cup {NoCommand}
        \/ channel'[i] = NoCommand
  <2>1. CASE channel' = Emitted
    BY <2>1, Reported, ElementOfSeq DEF Typed
  <2>2. CASE channel' = channel
    BY <2>2, ElementOfSeq DEF Typed
  <2>. QED  BY <2>1, <2>2
<1>2. \A x \in Commands \cup {NoCommand} :
        (Asked(x) => Asked(x)') /\ (Idle(x) => Idle(x)')
  BY DEF Asked, Idle
<1>3. Asked(pending)' /\ (Idle(pending) => Idle(pending)')
  BY <1>2 DEF Typed, RequestsInOrder, Asked, Idle
<1>4. ASSUME NEW i \in 1..Len(channel')
      PROVE  Asked(channel[i])'
  <2>1. CASE channel'[i] = NoCommand
    BY <2>1 DEF Asked
  <2>2. CASE channel'[i] # NoCommand
    BY <1>1, <1>4, <2>2 DEF RequestsInOrder, Asked
  <2>. QED  BY <2>1, <2>2
<1>5. ASSUME NEW i \in 1..Len(channel'), channel'[i] # NoCommand
      PROVE  /\ Idle(pending)'
             /\ \A j \in 1..(i - 1) : Idle(channel[j])'
  <2>1. i \in 1..Len(channel) /\ channel[i] # NoCommand
    BY <1>1, <1>5
  <2>2. Idle(pending)'
    BY <1>3, <2>1 DEF RequestsInOrder
  <2>3. ASSUME NEW j \in 1..(i - 1)
        PROVE  Idle(channel[j])'
    <3>1. j \in 1..Len(channel') /\ Idle(channel[j])
      <4>1. Len(channel') \in Nat
        BY Reported, LenProperties DEF Typed
      <4>2. j \in 1..Len(channel')
        BY <4>1
      <4>. QED  BY <4>2, <2>1 DEF RequestsInOrder
    <3>2. CASE channel'[j] = NoCommand
      BY <3>2 DEF Idle
    <3>3. CASE channel'[j] # NoCommand
      BY <1>1, <3>1, <3>3 DEF Idle
    <3>. QED  BY <3>2, <3>3
  <2>. QED  BY <2>2, <2>3
<1>. QED  BY <1>3, <1>4, <1>5 DEF RequestsInOrder

LEMMA TerminalStart == Init => TerminalInv
<1>. SUFFICES ASSUME Init PROVE TerminalInv
  OBVIOUS
<1>1. Typed
  <2>1. /\ channel \in Seq(Commands \cup {NoCommand})
        /\ results \in Seq([turn: Nat, ok: BOOLEAN])
    BY EmptySeq DEF Init
  <2>. QED  BY <2>1 DEF Init, Typed, Places
<1>2. OneCall /\ RepliesAreDue /\ RequestsInOrder /\ ResultsAreLate
  BY DEF Init, OneCall, RepliesAreDue, RequestsInOrder, ResultsAreLate,
         Underway, Asked, Idle
<1>3. ApprovalIsGiven /\ StatusIsTrue
  BY DEF Init, ApprovalIsGiven, OnlyApprovedRuns, LiveRequestKept,
         StatusIsTrue
<1>. QED  BY <1>1, <1>2, <1>3 DEF TerminalInv
-----------------------------------------------------------------------------
\* A step of a tool call leaves the loop, the turn and the responders alone.
ToolFrame == UNCHANGED <<loopVars, results, turn, working, reply, agreed>>

LEMMA ToolFrameKeeps ==
  ASSUME TerminalInv, ToolFrame
  PROVE  ResultsAreLate' /\ StatusIsTrue'
  BY DEF TerminalInv, ToolFrame, loopVars, ResultsAreLate, StatusIsTrue

LEMMA CallKeeps ==
  ASSUME TerminalInv, NEW x \in Commands, Call(x)
  PROVE  TerminalInv'
<1>. USE DEF TerminalInv
<1>1. /\ channel' = Emitted /\ working
      /\ pending' = pending /\ ToolFrame
      /\ \A y \in Commands : ~Underway(y)
      /\ alive' = alive /\ command[x] = "idle"
      /\ command' = [command EXCEPT ![x] = "asking"]
  BY DEF Call, ToolFrame, loopVars
<1>2. /\ command' \in [Commands -> Places] /\ command'[x] = "asking"
      /\ \A y \in Commands \ {x} : command'[y] = command[y]
  BY <1>1 DEF Typed, Places
<1>3. Typed'
  BY <1>1, <1>2, Reported DEF Typed, ToolFrame, loopVars
<1>4. OneCall'
  BY <1>1, <1>2 DEF OneCall, Underway, ToolFrame
<1>5. RepliesAreDue'
  BY <1>1, <1>2 DEF RepliesAreDue, ToolFrame
<1>6. RequestsInOrder'
  BY <1>1, <1>2, OrderStands
<1>7. ApprovalIsGiven'
  BY <1>1, <1>2 DEF ApprovalIsGiven, OnlyApprovedRuns, LiveRequestKept,
     ToolFrame, loopVars, Typed
<1>. QED  BY <1>1, <1>3, <1>4, <1>5, <1>6, <1>7, ToolFrameKeeps

LEMMA AskKeeps ==
  ASSUME TerminalInv, NEW x \in Commands, Ask(x)
  PROVE  TerminalInv'
<1>. USE DEF TerminalInv
<1>1. /\ pending' = pending /\ ToolFrame /\ alive' = alive
      /\ command[x] = "asking" /\ x # NoCommand
  BY NoCommandAssumption DEF Ask, ToolFrame, loopVars
<1>2. CASE /\ ~open /\ channel' = channel
           /\ command' = [command EXCEPT ![x] = "denied"]
  <2>1. /\ command' \in [Commands -> Places] /\ command'[x] = "denied"
        /\ \A y \in Commands \ {x} : command'[y] = command[y]
    BY <1>2 DEF Typed, Places
  <2>2. Typed'
    BY <1>1, <1>2, <2>1 DEF Typed, ToolFrame, loopVars
  <2>3. OneCall' /\ RepliesAreDue'
    BY <1>1, <2>1 DEF OneCall, Underway, RepliesAreDue, ToolFrame
  <2>4. RequestsInOrder'
    BY <1>1, <1>2, <2>1, OrderStands
  <2>5. ApprovalIsGiven'
    BY <1>1, <1>2, <2>1 DEF ApprovalIsGiven, OnlyApprovedRuns,
       LiveRequestKept, ToolFrame, loopVars, Typed
  <2>. QED  BY <1>1, <2>2, <2>3, <2>4, <2>5, ToolFrameKeeps
<1>3. CASE /\ open /\ channel' = Append(channel, x)
           /\ command' = [command EXCEPT ![x] = "waiting"]
  <2>1. /\ command' \in [Commands -> Places] /\ command'[x] = "waiting"
        /\ \A y \in Commands \ {x} : command'[y] = command[y]
    BY <1>3 DEF Typed, Places
  <2>2. /\ channel \in Seq(Commands \cup {NoCommand}) /\ Len(channel) \in Nat
        /\ channel' \in Seq(Commands \cup {NoCommand})
        /\ Len(channel') = Len(channel) + 1
        /\ channel'[Len(channel) + 1] = x
        /\ \A i \in 1..Len(channel) :
             /\ channel'[i] = channel[i]
             /\ channel[i] \in Commands \cup {NoCommand}
    BY <1>3, AppendProperties, LenProperties, ElementOfSeq DEF Typed
  <2>3. Typed'
    BY <1>1, <2>1, <2>2 DEF Typed, ToolFrame, loopVars
  <2>4. OneCall' /\ RepliesAreDue'
    BY <1>1, <2>1 DEF OneCall, Underway, RepliesAreDue, ToolFrame
  <2>5. \A y \in Commands : command[y] # "waiting"
    BY <1>1 DEF OneCall, Underway
  <2>6. /\ Asked(pending)' /\ Idle(pending)'
        /\ \A i \in 1..Len(channel) : Asked(channel[i])' /\ Idle(channel[i])'
    <3>1. ASSUME NEW y \in Commands \cup {NoCommand}, Asked(y)
          PROVE  y # NoCommand => /\ command'[y] \notin {"idle", "asking"}
                                  /\ command'[y] # "waiting"
      BY <1>1, <2>1, <2>5, <3>1 DEF Asked
    <3>2. Asked(pending)' /\ Idle(pending)'
      BY <1>1, <3>1 DEF RequestsInOrder, Typed, Asked, Idle
    <3>3. ASSUME NEW i \in 1..Len(channel)
          PROVE  Asked(channel[i])' /\ Idle(channel[i])'
      BY <2>2, <3>1 DEF RequestsInOrder, Asked, Idle
    <3>. QED  BY <3>2, <3>3
  <2>7. RequestsInOrder'
    <3>1. \A i \in 1..Len(channel)' : i \in 1..Len(channel) \/ channel'[i] = x
      BY <2>2
    <3>2. ASSUME NEW i \in 1..Len(channel)' PROVE Asked(channel[i])'
      BY <2>1, <2>6, <3>1 DEF Asked
    <3>3. \A i \in 1..Len(channel)', j \in Int :
            j \in 1..(i - 1) => j \in 1..Len(channel)
      BY <2>2
    <3>. QED  BY <2>6, <3>2, <3>3 DEF RequestsInOrder
  <2>8. ApprovalIsGiven'
    BY <1>1, <1>3, <2>1 DEF ApprovalIsGiven, OnlyApprovedRuns,
       LiveRequestKept, RepliesAreDue, ToolFrame, loopVars, Typed
  <2>. QED  BY <1>1, <2>3, <2>4, <2>7, <2>8, ToolFrameKeeps
<1>. QED  BY <1>2, <1>3 DEF Ask

LEMMA LearnKeeps ==
  ASSUME TerminalInv, NEW x \in Commands, Learn(x)
  PROVE  TerminalInv'
<1>. USE DEF TerminalInv
<1>1. /\ channel' = Emitted /\ pending' = pending /\ ToolFrame
      /\ command[x] = "waiting"
  BY DEF Learn, ToolFrame, loopVars
<1>2. \/ /\ reply[x] = "yes" /\ alive' = alive \cup {x}
         /\ command' = [command EXCEPT ![x] = "running"]
      \/ /\ alive' = alive /\ command' = [command EXCEPT ![x] = "denied"]
  BY DEF Learn
<1>3. /\ command' \in [Commands -> Places]
      /\ command'[x] \in {"running", "denied"}
      /\ \A y \in Commands \ {x} : command'[y] = command[y]
  BY <1>2 DEF Typed, Places
<1>4. Typed'
  BY <1>1, <1>2, <1>3, Reported DEF Typed, ToolFrame, loopVars
<1>5. OneCall' /\ RepliesAreDue'
  BY <1>1, <1>3 DEF OneCall, Underway, RepliesAreDue, ToolFrame
<1>6. RequestsInOrder'
  BY <1>1, <1>3, OrderStands
<1>7. OnlyApprovedRuns'
  <2>1. working' = working /\ working /\ agreed' = agreed
    BY <1>1 DEF OneCall, Underway, ToolFrame
  <2>2. reply[x] = "yes" => x \in agreed
    BY DEF RepliesAreDue
  <2>3. x \notin alive
    BY <1>1 DEF ApprovalIsGiven, OnlyApprovedRuns
  <2>4. \/ command'[x] = "running" /\ reply[x] = "yes"
        \/ alive' = alive
    BY <1>2 DEF Typed
  <2>. QED  BY <1>2, <1>3, <2>1, <2>2, <2>3, <2>4
            DEF ApprovalIsGiven, OnlyApprovedRuns, Typed
<1>8. LiveRequestKept'
  BY <1>1, <1>3 DEF ApprovalIsGiven, LiveRequestKept, ToolFrame, loopVars
<1>9. ApprovalIsGiven'
  BY <1>7, <1>8 DEF ApprovalIsGiven
<1>. QED  BY <1>1, <1>4, <1>5, <1>6, <1>9, ToolFrameKeeps

\* Calls that end: their processes are gone with them.
LEMMA EndKeeps ==
  ASSUME TerminalInv, NEW xs \in SUBSET Commands, ToolFrame,
         channel' = Emitted, alive' = alive \ xs,
         NEW p \in {"ended", "stopped"},
         command' = [x \in Commands |-> IF x \in xs THEN p ELSE command[x]]
  PROVE  TerminalInv'
<1>. USE DEF TerminalInv
<1>1. pending' = pending
  BY DEF ToolFrame, loopVars
<1>2. /\ command' \in [Commands -> Places]
      /\ \A x \in xs : command'[x] = p
      /\ \A x \in Commands \ xs : command'[x] = command[x]
  BY DEF Typed, Places
<1>3. Typed'
  BY <1>2, Reported DEF Typed, ToolFrame, loopVars
<1>4. OneCall' /\ RepliesAreDue'
  BY <1>2 DEF OneCall, Underway, RepliesAreDue, ToolFrame
<1>5. RequestsInOrder'
  BY <1>1, <1>2, OrderStands
<1>6. ApprovalIsGiven'
  BY <1>2 DEF ApprovalIsGiven, OnlyApprovedRuns, LiveRequestKept, ToolFrame,
     loopVars, Typed
<1>. QED  BY <1>3, <1>4, <1>5, <1>6, ToolFrameKeeps

LEMMA ExitKeeps ==
  ASSUME TerminalInv, NEW x \in Commands, Exit(x)
  PROVE  TerminalInv'
<1>1. /\ ToolFrame /\ channel' = Emitted /\ alive' = alive \ {x}
      /\ command' = [command EXCEPT ![x] = "ended"]
  BY DEF Exit, ToolFrame
<1>2. command' = [y \in Commands |-> IF y \in {x} THEN "ended"
                                     ELSE command[y]]
  BY <1>1 DEF TerminalInv, Typed
<1>3. {x} \in SUBSET Commands
  OBVIOUS
<1>. QED  BY <1>1, <1>2, <1>3, EndKeeps

LEMMA TimeOutKeeps ==
  ASSUME TerminalInv, NEW x \in Commands, TimeOut(x)
  PROVE  TerminalInv'
<1>1. /\ ToolFrame /\ channel' = Emitted /\ alive' = alive \ {x}
      /\ command' = [y \in Commands |-> IF y \in {x} THEN "stopped"
                                        ELSE command[y]]
  BY DEF TimeOut, Stopped, ToolFrame
<1>2. {x} \in SUBSET Commands
  OBVIOUS
<1>. QED  BY <1>1, <1>2, EndKeeps

LEMMA EndTurnKeeps ==
  ASSUME TerminalInv, NEW ok \in BOOLEAN, EndTurn(ok)
  PROVE  TerminalInv'
<1>. USE DEF TerminalInv
<1>. DEFINE xs == {x \in Commands : Underway(x)}
            r == [turn |-> turn, ok |-> ok]
<1>1. /\ working /\ working' = FALSE /\ channel' = Emitted
      /\ pending' = pending /\ open' = open /\ status' = status
      /\ turn' = turn /\ reply' = reply /\ agreed' = agreed
      /\ alive' = alive \ xs /\ results' = Append(results, r)
  BY DEF EndTurn, Stopped, loopVars
<1>2. command' = [x \in Commands |-> IF x \in xs THEN "stopped"
                                     ELSE command[x]]
  BY DEF EndTurn, Stopped
<1>3. /\ command' \in [Commands -> Places]
      /\ \A x \in Commands : /\ command'[x] \notin {"asking", "waiting",
                                                    "running"}
                             /\ x \in xs => command'[x] = "stopped"
                             /\ x \notin xs => command'[x] = command[x]
  BY <1>2 DEF Typed, Places, Underway
<1>4. /\ results' \in Seq([turn: Nat, ok: BOOLEAN]) /\ results' # <<>>
  <2>1. r \in [turn: Nat, ok: BOOLEAN] /\ results \in Seq([turn: Nat, ok: BOOLEAN])
    BY DEF Typed
  <2>. QED  BY <1>1, <2>1, AppendProperties
<1>5. Typed'
  BY <1>1, <1>3, <1>4, Reported DEF Typed
<1>6. OneCall'
  BY <1>3 DEF OneCall, Underway
<1>7. RepliesAreDue'
  BY <1>1, <1>3 DEF RepliesAreDue
<1>8. RequestsInOrder'
  BY <1>1, <1>3, OrderStands
<1>9. ResultsAreLate' /\ StatusIsTrue'
  BY <1>1, <1>4 DEF ResultsAreLate, StatusIsTrue
<1>10. alive' = {}
  BY <1>1 DEF ApprovalIsGiven, OnlyApprovedRuns, Underway, Typed
<1>11. ApprovalIsGiven'
  BY <1>3, <1>10 DEF ApprovalIsGiven, OnlyApprovedRuns, LiveRequestKept
<1>. HIDE DEF xs, r
<1>. QED  BY <1>5, <1>6, <1>7, <1>8, <1>9, <1>11
-----------------------------------------------------------------------------
LEMMA AnswerKeyKeeps ==
  ASSUME TerminalInv, NEW yes \in BOOLEAN, AnswerKey(yes)
  PROVE  TerminalInv'
<1>. USE DEF TerminalInv
<1>1. /\ pending \in Commands /\ pending' = NoCommand
      /\ open' = open /\ status' = status /\ channel' = channel
      /\ results' = results /\ turn' = turn /\ working' = working
      /\ command' = command /\ alive' = alive
  BY DEF AnswerKey, Typed
<1>2. /\ reply' = [reply EXCEPT ![pending] = IF yes THEN "yes" ELSE "no"]
      /\ agreed' = IF yes THEN agreed \cup {pending} ELSE agreed
  BY DEF AnswerKey
<1>3. /\ reply' \in [Commands -> {"none", "yes", "no", "dropped"}]
      /\ reply'[pending] \in {"yes", "no"}
      /\ reply'[pending] = "yes" => pending \in agreed'
      /\ \A x \in Commands \ {pending} : reply'[x] = reply[x]
      /\ agreed \subseteq agreed' /\ agreed' \subseteq Commands
  BY <1>1, <1>2 DEF Typed
<1>4. Typed'
  BY <1>1, <1>3 DEF Typed
<1>5. OneCall' /\ ResultsAreLate' /\ StatusIsTrue'
  BY <1>1 DEF OneCall, Underway, ResultsAreLate, StatusIsTrue
<1>6. RepliesAreDue'
  BY <1>1, <1>3, NoCommandAssumption
     DEF RepliesAreDue, RequestsInOrder, Asked
<1>7. RequestsInOrder'
  BY <1>1 DEF RequestsInOrder, Asked, Idle
<1>8. ApprovalIsGiven'
  BY <1>1, <1>3 DEF ApprovalIsGiven, OnlyApprovedRuns, LiveRequestKept
<1>. QED  BY <1>4, <1>5, <1>6, <1>7, <1>8

LEMMA SubmitKeeps ==
  ASSUME TerminalInv, Submit
  PROVE  TerminalInv'
<1>. USE DEF TerminalInv
<1>1. /\ status = "idle" /\ status' = "thinking" /\ working' = TRUE
      /\ turn' = turn + 1 /\ open' = open /\ pending' = pending
      /\ channel' = channel /\ results' = results /\ agreed' = agreed
      /\ command' = command /\ reply' = reply /\ alive' = alive
  BY DEF Submit, toolVars
<1>2. Typed'
  BY <1>1 DEF Typed
<1>3. OneCall' /\ RepliesAreDue' /\ RequestsInOrder'
  BY <1>1 DEF OneCall, Underway, RepliesAreDue, RequestsInOrder, Asked, Idle
<1>4. ResultsAreLate' /\ StatusIsTrue'
  BY <1>1 DEF ResultsAreLate, StatusIsTrue
<1>5. ApprovalIsGiven'
  BY <1>1 DEF ApprovalIsGiven, OnlyApprovedRuns, LiveRequestKept
<1>. QED  BY <1>2, <1>3, <1>4, <1>5

\* A prompt that a request displaces is not of a live call.
LEMMA ReceiveKeeps ==
  ASSUME TerminalInv, Receive
  PROVE  TerminalInv'
<1>. USE DEF TerminalInv
<1>. DEFINE x == Head(channel)
<1>1. /\ open' = open /\ status' = status /\ results' = results
      /\ turn' = turn /\ working' = working /\ command' = command
      /\ alive' = alive /\ agreed' = agreed
      /\ channel # <<>> /\ channel' = Tail(channel)
  BY DEF Receive
<1>2. /\ channel \in Seq(Commands \cup {NoCommand})
      /\ Len(channel) \in Nat \ {0} /\ x = channel[1]
      /\ x \in Commands \cup {NoCommand}
      /\ channel' \in Seq(Commands \cup {NoCommand})
      /\ Len(channel') = Len(channel) - 1
      /\ \A i \in 1..Len(channel') : channel'[i] = channel[i + 1]
  BY <1>1, EmptySeq, HeadTailProperties DEF Typed
<1>3. \/ x = NoCommand /\ pending' = pending /\ reply' = reply
      \/ /\ x # NoCommand /\ pending' = x /\ pending = NoCommand
         /\ reply' = reply
      \/ /\ x # NoCommand /\ pending' = x /\ pending # NoCommand
         /\ reply' = [reply EXCEPT ![pending] = "dropped"]
  BY DEF Receive
<1>4. Asked(x) /\ (x # NoCommand => Idle(pending))
  BY <1>2 DEF RequestsInOrder
<1>. HIDE DEF x
<1>5. /\ pending' \in Commands \cup {NoCommand}
      /\ reply' \in [Commands -> {"none", "yes", "no", "dropped"}]
      /\ \A y \in Commands :
           \/ reply'[y] = reply[y]
           \/ /\ y = pending /\ y # NoCommand /\ x # NoCommand
              /\ reply'[y] = "dropped"
  BY <1>2, <1>3 DEF Typed
<1>6. Typed'
  BY <1>1, <1>2, <1>5 DEF Typed
<1>7. OneCall' /\ ResultsAreLate' /\ StatusIsTrue'
  BY <1>1 DEF OneCall, Underway, ResultsAreLate, StatusIsTrue
<1>8. RepliesAreDue'
  BY <1>1, <1>5 DEF RepliesAreDue, RequestsInOrder, Asked
<1>9. RequestsInOrder'
  <2>1. \A i \in 1..Len(channel') : i + 1 \in 1..Len(channel)
    BY <1>2
  <2>2. Asked(pending)'
    BY <1>1, <1>3, <1>4 DEF RequestsInOrder, Asked
  <2>3. ASSUME NEW i \in 1..Len(channel') PROVE Asked(channel[i])'
    BY <1>1, <1>2, <2>1 DEF RequestsInOrder, Asked
  <2>4. ASSUME NEW i \in 1..Len(channel'), channel'[i] # NoCommand
        PROVE  Idle(pending)' /\ \A j \in 1..(i - 1) : Idle(channel[j])'
    <3>1. /\ Idle(pending) /\ \A j \in 1..i : Idle(channel[j])
      BY <1>2, <2>1, <2>4 DEF RequestsInOrder
    <3>2. Idle(x)
      BY <1>2, <3>1
    <3>3. Idle(pending)'
      BY <1>1, <1>3, <3>1, <3>2 DEF Idle
    <3>4. ASSUME NEW j \in 1..(i - 1) PROVE Idle(channel[j])'
      <4>1. j + 1 \in 1..i /\ j \in 1..Len(channel')
        BY <1>2
      <4>. QED  BY <1>1, <1>2, <3>1, <4>1 DEF Idle
    <3>. QED  BY <3>3, <3>4
  <2>. QED  BY <2>2, <2>3, <2>4 DEF RequestsInOrder
<1>10. LiveRequestKept'
  BY <1>1, <1>4, <1>5 DEF ApprovalIsGiven, LiveRequestKept, Idle
<1>11. ApprovalIsGiven'
  BY <1>1, <1>10 DEF ApprovalIsGiven, OnlyApprovedRuns
<1>. QED  BY <1>6, <1>7, <1>8, <1>9, <1>11

LEMMA ResultKeeps ==
  ASSUME TerminalInv, Result
  PROVE  TerminalInv'
<1>. USE DEF TerminalInv
<1>1. /\ results # <<>> /\ results' = <<>> /\ status' = "idle"
      /\ open' = open /\ pending' = pending /\ channel' = channel
      /\ turn' = turn /\ working' = working /\ agreed' = agreed
      /\ command' = command /\ reply' = reply /\ alive' = alive
  BY DEF Result, toolVars
<1>2. Typed'
  BY <1>1, EmptySeq DEF Typed
<1>3. OneCall' /\ RepliesAreDue' /\ RequestsInOrder'
  BY <1>1 DEF OneCall, Underway, RepliesAreDue, RequestsInOrder, Asked, Idle
<1>4. ResultsAreLate' /\ StatusIsTrue'
  BY <1>1 DEF ResultsAreLate, StatusIsTrue
<1>5. ApprovalIsGiven'
  BY <1>1 DEF ApprovalIsGiven, OnlyApprovedRuns, LiveRequestKept
<1>. QED  BY <1>2, <1>3, <1>4, <1>5

\* A step that changes nothing but what is typed.
LEMMA TypingKeeps ==
  ASSUME TerminalInv,
         UNCHANGED <<open, status, pending, channel, results, turn, working,
                     toolVars, agreed>>
  PROVE  TerminalInv'
  BY DEF TerminalInv, Typed, OneCall, Underway, RepliesAreDue,
         RequestsInOrder, Asked, Idle, ResultsAreLate, ApprovalIsGiven,
         OnlyApprovedRuns, LiveRequestKept, StatusIsTrue, toolVars

LEMMA QuitKeeps ==
  ASSUME TerminalInv, Quit
  PROVE  TerminalInv'
<1>. USE DEF TerminalInv
<1>1. /\ open' = FALSE /\ channel' = <<>> /\ pending' = NoCommand
      /\ status' = status /\ results' = results /\ turn' = turn
      /\ working' = working /\ command' = command /\ alive' = alive
      /\ agreed' = agreed
  BY DEF Quit
<1>2. /\ reply' \in [Commands -> {"none", "yes", "no", "dropped"}]
      /\ \A x \in Commands :
           \/ reply'[x] = reply[x]
           \/ reply'[x] = "dropped" /\ (Contains(channel, x) \/ x = pending)
  BY DEF Quit, Typed
<1>3. Typed'
  BY <1>1, <1>2, EmptySeq DEF Typed
<1>4. OneCall' /\ ResultsAreLate' /\ StatusIsTrue'
  BY <1>1 DEF OneCall, Underway, ResultsAreLate, StatusIsTrue
<1>5. RepliesAreDue'
  <2>1. \A x \in Commands : Contains(channel, x) \/ x = pending
          => command[x] \notin {"idle", "asking"}
    BY NoCommandAssumption DEF Contains, RequestsInOrder, Asked
  <2>. QED  BY <1>1, <1>2, <2>1 DEF RepliesAreDue
<1>6. RequestsInOrder'
  BY <1>1, EmptySeq DEF RequestsInOrder, Asked, Idle
<1>7. ApprovalIsGiven'
  BY <1>1 DEF ApprovalIsGiven, OnlyApprovedRuns, LiveRequestKept
<1>. QED  BY <1>3, <1>4, <1>5, <1>6, <1>7
-----------------------------------------------------------------------------
LEMMA TerminalStep == TerminalInv /\ [Next]_vars => TerminalInv'
<1>. SUFFICES ASSUME TerminalInv, [Next]_vars PROVE TerminalInv'
  OBVIOUS
<1>1. ASSUME NEW x \in Commands, Tool(x) PROVE TerminalInv'
  BY <1>1, CallKeeps, AskKeeps, LearnKeeps, ExitKeeps, TimeOutKeeps DEF Tool
<1>2. ASSUME NEW ok \in BOOLEAN, EndTurn(ok) PROVE TerminalInv'
  BY <1>2, EndTurnKeeps
<1>3. CASE Loop
  <2>1. CASE Tick
    BY <2>1, TypingKeeps DEF Tick
  <2>. QED  BY <1>3, <2>1, AnswerKeyKeeps, SubmitKeeps, ReceiveKeeps,
               ResultKeeps, QuitKeeps DEF Loop
<1>4. CASE UNCHANGED vars
  BY <1>4, TypingKeeps DEF vars, loopVars
<1>. QED  BY <1>1, <1>2, <1>3, <1>4 DEF Next

LEMMA TerminalHolds == Spec => []TerminalInv
<1>. QED  BY TerminalStart, TerminalStep, PTL DEF Spec

\* For any commands, channel and limits: a command runs only while its call
\* waits for it and only if a key approved it in its own prompt, and no
\* prompt takes the place of one whose call still waits (ui.rs, tui.rs,
\* tools/shell.rs).
THEOREM ApprovalHolds == Spec => []ApprovalIsGiven
<1>1. TerminalInv => ApprovalIsGiven
  BY DEF TerminalInv
<1>. QED  BY <1>1, TerminalHolds, PTL

\* For any commands, channel and limits: the interface shows idle exactly
\* if no turn is under way and no result waits, whatever events the full
\* channel dropped (tui.rs).
THEOREM StatusHolds == Spec => []StatusIsTrue
<1>1. TerminalInv => StatusIsTrue
  BY DEF TerminalInv
<1>. QED  BY <1>1, TerminalHolds, PTL
=============================================================================
