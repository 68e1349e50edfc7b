------------------------------ MODULE Terminal ------------------------------
(***************************************************************************)
(* The terminal interface and what it talks to: the bounded event channel  *)
(* and the approval requests of src/ui.rs, the shell tool of               *)
(* src/tools/shell.rs, and the event loop of src/tui.rs, which takes keys, *)
(* events, the answer of a turn and ticks of its typewriter in any order.  *)
(*                                                                         *)
(* A turn calls its tools one after the other, each under a time limit     *)
(* that also covers the wait for the investigator; the turn itself has a   *)
(* limit as well.  Texts are reduced to whose they are: the instruction of *)
(* turn n, or so many steps of the answer to turn n.                       *)
(***************************************************************************)
EXTENDS Naturals, Sequences, FiniteSets, SequencesExt

CONSTANTS Commands,      \* the shell commands that the agent may propose
          NoCommand,
          Capacity,      \* of the event channel
          AnswerLength,  \* ticks that it takes to type an answer
          MaxTurns       \* bound on the instructions submitted

ASSUME CapacityAssumption == Capacity \in Nat \ {0}
ASSUME NoCommandAssumption == NoCommand \notin Commands

VARIABLES open,      \* the event loop runs
          status,    \* "idle" or "thinking"
          messages,  \* the conversation pane: [role, turn, shown]
          typing,    \* the animation: [turn, at], turn 0 when there is none
          pending,   \* the request of the popup
          channel,   \* events and approval requests for the loop
          results,   \* the answers of turns, at most one
          turn,      \* the number of the turn
          working,   \* a turn is under way
          command,   \* command[x], where the tool call of x is
          reply,     \* reply[x], what its responder was told
          alive,     \* the commands whose processes run
          agreed     \* the commands that a key approved in their popup

loopVars == <<open, status, messages, typing, pending>>
toolVars == <<command, reply, alive>>
vars == <<loopVars, channel, results, turn, working, toolVars, agreed>>

Nothing == [turn |-> 0, at |-> 0]

Init ==
  /\ open = TRUE /\ status = "idle" /\ messages = <<>> /\ typing = Nothing
  /\ pending = NoCommand
  /\ channel = <<>> /\ results = <<>>
  /\ turn = 0 /\ working = FALSE
  /\ command = [x \in Commands |-> "idle"]
  /\ reply = [x \in Commands |-> "none"]
  /\ alive = {} /\ agreed = {}
-----------------------------------------------------------------------------
(* The channel drops an event when it is full or closed.                   *)
Emitted == IF open /\ Len(channel) < Capacity THEN Append(channel, NoCommand)
                                              ELSE channel

Underway(x) == command[x] \in {"asking", "waiting", "running"}

(* The turn calls the shell tool, which reports the call and asks.         *)
Call(x) ==
  /\ working /\ command[x] = "idle" /\ \A y \in Commands : ~Underway(y)
  /\ command' = [command EXCEPT ![x] = "asking"] /\ channel' = Emitted
  /\ UNCHANGED <<loopVars, results, turn, working, reply, alive, agreed>>

(* request_approval waits for room; without a loop the command is denied.  *)
Ask(x) ==
  /\ command[x] = "asking"
  /\ IF open
       THEN /\ Len(channel) < Capacity /\ channel' = Append(channel, x)
            /\ command' = [command EXCEPT ![x] = "waiting"]
       ELSE /\ command' = [command EXCEPT ![x] = "denied"]
            /\ UNCHANGED channel
  /\ UNCHANGED <<loopVars, results, turn, working, reply, alive, agreed>>

(* The tool learns the answer; a responder that was dropped says no.       *)
Learn(x) ==
  /\ command[x] = "waiting" /\ reply[x] # "none"
  /\ IF reply[x] = "yes"
       THEN /\ command' = [command EXCEPT ![x] = "running"]
            /\ alive' = alive \cup {x}
       ELSE command' = [command EXCEPT ![x] = "denied"] /\ UNCHANGED alive
  /\ channel' = Emitted
  /\ UNCHANGED <<loopVars, results, turn, working, reply, agreed>>

(* The command ends, or exceeds its own limit and is killed.               *)
Exit(x) ==
  /\ command[x] = "running"
  /\ command' = [command EXCEPT ![x] = "ended"] /\ alive' = alive \ {x}
  /\ channel' = Emitted
  /\ UNCHANGED <<loopVars, results, turn, working, reply, agreed>>

(* A variant that leaves the descendants of the shell behind.              *)
StoppedAlone(xs) ==
  /\ command' = [x \in Commands |-> IF x \in xs THEN "stopped"
                                    ELSE command[x]]
  /\ UNCHANGED alive

(* Tool calls whose futures are dropped: their process groups are killed.  *)
(* So it is on unix, and a descendant that left its group is not of alive. *)
Stopped(xs) ==
  /\ command' = [x \in Commands |-> IF x \in xs THEN "stopped"
                                    ELSE command[x]]
  /\ alive' = alive \ xs

(* The call exceeds the limit of the step runtime.                         *)
TimeOut(x) ==
  /\ Underway(x) /\ Stopped({x}) /\ channel' = Emitted
  /\ UNCHANGED <<loopVars, results, turn, working, reply, agreed>>

(* A variant whose limit does not cover the wait for an investigator.      *)
EndTurnBetweenCalls(ok) ==
  /\ working /\ Len(results) < 1 /\ \A x \in Commands : ~Underway(x)
  /\ working' = FALSE /\ channel' = Emitted
  /\ results' = Append(results, [turn |-> turn, ok |-> ok])
  /\ UNCHANGED <<loopVars, turn, toolVars, agreed>>

(* The turn ends with an answer, between two calls, or exceeds its limit   *)
(* and drops the call it waits for.  Its end event may be dropped; its     *)
(* result is not.                                                          *)
EndTurn(ok) ==
  /\ working /\ Len(results) < 1
  /\ ok => \A x \in Commands : ~Underway(x)
  /\ Stopped({x \in Commands : Underway(x)})
  /\ working' = FALSE /\ channel' = Emitted
  /\ results' = Append(results, [turn |-> turn, ok |-> ok])
  /\ UNCHANGED <<loopVars, turn, reply, agreed>>
-----------------------------------------------------------------------------
(* A popup takes any key: yes, or anything else for no.  Nobody learns of  *)
(* the answer if the call has ended.                                       *)
AnswerKey(yes) ==
  /\ open /\ pending # NoCommand /\ pending' = NoCommand
  /\ reply' = [reply EXCEPT ![pending] = IF yes THEN "yes" ELSE "no"]
  /\ agreed' = IF yes THEN agreed \cup {pending} ELSE agreed
  /\ UNCHANGED <<open, status, messages, typing, channel, results, turn,
                 working, command, alive>>

(* A variant that submits while a turn is under way.                       *)
SubmitBusy ==
  /\ open /\ pending = NoCommand /\ turn < MaxTurns
  /\ status' = "thinking" /\ turn' = turn + 1 /\ working' = TRUE
  /\ messages' = Append(messages, [role |-> "user", turn |-> turn + 1,
                                   shown |-> 0])
  /\ UNCHANGED <<open, typing, pending, channel, results, toolVars, agreed>>

Submit ==
  /\ open /\ pending = NoCommand /\ status = "idle" /\ turn < MaxTurns
  /\ status' = "thinking" /\ turn' = turn + 1 /\ working' = TRUE
  /\ messages' = Append(messages, [role |-> "user", turn |-> turn + 1,
                                   shown |-> 0])
  /\ UNCHANGED <<open, typing, pending, channel, results, toolVars, agreed>>

(* The next event goes to the activity pane; a request becomes the popup,  *)
(* and the responder of one that it displaces is dropped.                  *)
Receive ==
  LET x == Head(channel) IN
  /\ open /\ channel # <<>> /\ channel' = Tail(channel)
  /\ IF x = NoCommand THEN UNCHANGED <<pending, reply>>
     ELSE /\ pending' = x
          /\ reply' = IF pending = NoCommand THEN reply
                      ELSE [reply EXCEPT ![pending] = "dropped"]
  /\ UNCHANGED <<open, status, messages, typing, results, turn, working,
                 command, alive, agreed>>

(* A result: the loop is idle, and an answer is typed into a new slot.     *)
Result ==
  LET r == Head(results) IN
  /\ open /\ results # <<>> /\ results' = <<>> /\ status' = "idle"
  /\ messages' = Append(messages, [role |-> IF r.ok THEN "agent" ELSE "error",
                                   turn |-> r.turn, shown |-> 0])
  /\ typing' = IF r.ok THEN [turn |-> r.turn, at |-> 0] ELSE typing
  /\ UNCHANGED <<open, pending, channel, turn, working, toolVars, agreed>>

(* One step of the typewriter, into the last message.                      *)
Tick ==
  LET at == typing.at + 1 IN
  /\ open /\ typing # Nothing
  /\ messages' = [messages EXCEPT ![Len(messages)].turn = typing.turn,
                                  ![Len(messages)].shown = at]
  /\ typing' = IF at = AnswerLength THEN Nothing
               ELSE [typing EXCEPT !.at = at]
  /\ UNCHANGED <<open, status, pending, channel, results, turn, working,
                 toolVars, agreed>>

(* The interface is left by a key, unless a popup takes it, or because the *)
(* terminal's input ends or drawing fails: its channels are dropped with   *)
(* the requests in them, and so is the request of the popup.               *)
Quit ==
  /\ open /\ open' = FALSE /\ channel' = <<>> /\ pending' = NoCommand
  /\ reply' = [x \in Commands |-> IF Contains(channel, x) \/ x = pending
                                  THEN "dropped" ELSE reply[x]]
  /\ UNCHANGED <<status, messages, typing, results, turn, working, command,
                 alive, agreed>>

Tool(x) == Call(x) \/ Ask(x) \/ Learn(x) \/ Exit(x) \/ TimeOut(x)

Loop == (\E yes \in BOOLEAN : AnswerKey(yes)) \/ Submit \/ Receive \/ Result
        \/ Tick \/ Quit

Next == (\E x \in Commands : Tool(x)) \/ (\E ok \in BOOLEAN : EndTurn(ok))
        \/ Loop

Spec == Init /\ [][Next]_vars

(* The limit of a turn fires, and the loop, while it is open, comes round  *)
(* to a result that waits for it: select! picks among the ready branches   *)
(* at random.  No key, no event and no end of a command is relied on.      *)
FairSpec == Spec /\ WF_vars(EndTurn(FALSE)) /\ WF_vars(Result)
-----------------------------------------------------------------------------
(* A command runs only in the turn that called it, while its call waits    *)
(* for it, and only if a key approved it while its own prompt was shown:   *)
(* an answer that comes too late, or for a prompt that another displaced,  *)
(* starts nothing, and no process outlives its call.                       *)
OnlyApprovedRuns ==
  \A x \in alive : x \in agreed /\ command[x] = "running" /\ working

(* No prompt takes the place of one whose call still waits: a responder is *)
(* dropped unanswered only after its call ended, or with the interface.    *)
LiveRequestKept ==
  \A x \in Commands : command[x] = "waiting" /\ reply[x] = "dropped" => ~open

(* Approval is what the investigator gave, in a prompt that stayed until   *)
(* it was answered, to a call that still waited.                           *)
ApprovalIsGiven == OnlyApprovedRuns /\ LiveRequestKept

(* The status line is true: the interface is idle exactly if no turn is    *)
(* under way and no result is on its way, whatever events were dropped, so *)
(* that a submission never meets a running turn.                           *)
StatusIsTrue == status = "idle" <=> ~working /\ results = <<>>

(* A turn that was submitted comes to an end for the investigator, unless  *)
(* the interface is left, although nobody answers prompts and the event    *)
(* that reports its end may be dropped.                                    *)
TurnsAreShown == [](status = "thinking" => <>(status = "idle" \/ ~open))

(* What the investigator wrote stays in the conversation as written: the   *)
(* typewriter animates "the latest agent response" (tui.rs).               *)
InstructionsStay ==
  \A i \in 1..Len(messages) :
    messages[i].role = "user" => messages[i].shown = 0
=============================================================================
