---------------------------- MODULE SessionProofs ----------------------------
(***************************************************************************)
(* Theorems about Session for any calls, any futures dropped, any number of *)
(* failures and restarts.  They rest on one fact: who is between taking and *)
(* releasing the gate is the gate's owner, and finds the session open.      *)
(***************************************************************************)
EXTENDS Session, TLAPS

\* The points between taking the gate and releasing it.
Inside == {"gated", "active", "started", "unsaved", "saved", "select", "chat",
           "ended", "swept", "cleared", "idle", "answered", "wiped"}

GateInv ==
    /\ pc \in [Calls -> Points]
    /\ \A c \in Calls : pc[c] \in Inside => gate = c /\ status # "Closed"

\* What each call does to pc, whatever else it changes.
LEMMA GateInit == Init => GateInv
  BY DEF Init, GateInv, Inside, Points, Final

\* A call that moves from a point inside to another one inside.
LEMMA MovesInside ==
  ASSUME GateInv, NEW c \in Calls, pc[c] \in Inside,
         NEW p \in Inside, pc' = [pc EXCEPT ![c] = p],
         UNCHANGED gate, status' # "Closed"
  PROVE  GateInv'
  BY DEF GateInv, Inside, Points, Final

\* A call that leaves, and whoever owns the gate then.
LEMMA Leaves ==
  ASSUME GateInv, NEW c \in Calls, pc[c] \in Inside \/ gate = c,
         NEW p \in Points \ Inside, pc' = [pc EXCEPT ![c] = p]
  PROVE  GateInv'
  BY DEF GateInv, Inside, Points, Final

\* A call that was and stays outside.
LEMMA StaysOutside ==
  ASSUME GateInv, NEW c \in Calls, pc[c] \notin Inside,
         NEW p \in Points \ Inside, pc' = [pc EXCEPT ![c] = p],
         UNCHANGED <<gate, status>>
  PROVE  GateInv'
  BY DEF GateInv, Inside, Points, Final

LEMMA StaysPut ==
  ASSUME GateInv, UNCHANGED <<pc, gate, status>>
  PROVE  GateInv'
  BY DEF GateInv

-----------------------------------------------------------------------------
LEMMA SubmitKeepsGate ==
  ASSUME GateInv, NEW t \in Turns, Submit(t)
  PROVE  GateInv'
<1>. USE DEF memory, ui, bounds, investigation, KeepGate, Goto, End
<1>. t \in Calls /\ pc[t] \in Points
  BY DEF Calls, GateInv
<1>1. CASE Check(t)
  BY <1>1, StaysOutside DEF Check, Inside, Points, Final
<1>2. CASE Enter(t)
  <2>1. CASE status # "Closed" /\ TryLock(t) /\ Goto(t, "checked", "gated") /\ UNCHANGED status
    BY <2>1, SessionAssumption DEF TryLock, GateInv, Inside, Points, Final
  <2>2. CASE KeepGate /\ Goto(t, "checked", "done") /\ UNCHANGED status
    BY <2>2, StaysOutside DEF Inside, Points, Final
  <2>. QED
    BY <1>2, <2>1, <2>2 DEF Enter
<1>3. CASE Activate(t)
  BY <1>3, MovesInside DEF Activate, GateInv, Inside
<1>4. CASE Start(t)
  <2>1. CASE pc' = [pc EXCEPT ![t] = pc'[t]] /\ pc'[t] \in Inside
    BY <1>4, <2>1, MovesInside DEF Start, GateInv, Inside, SetStatus
  <2>2. CASE pc' = [pc EXCEPT ![t] = pc'[t]] /\ pc'[t] \in Points \ Inside
    BY <1>4, <2>2, Leaves DEF Start, GateInv, Inside, SetStatus
  <2>. QED
    BY <1>4, <2>1, <2>2 DEF Start, GateInv, Inside, Points, Final, SetStatus
<1>5. CASE SaveInstruction(t)
  <2>1. CASE pc' = [pc EXCEPT ![t] = pc'[t]] /\ pc'[t] \in Inside
    BY <1>5, <2>1, MovesInside DEF SaveInstruction, GateInv, Inside
  <2>2. CASE pc' = [pc EXCEPT ![t] = pc'[t]] /\ pc'[t] \in Points \ Inside
    BY <1>5, <2>2, Leaves DEF SaveInstruction, GateInv, Inside
  <2>. QED
    BY <1>5, <2>1, <2>2 DEF SaveInstruction, GateInv, Inside, Points, Final
<1>6. CASE Refuse(t)
  BY <1>6, Leaves DEF Refuse, Inside, Points, Final
<1>7. CASE Remember(t)
  BY <1>7, MovesInside DEF Remember, GateInv, Inside
<1>8. CASE Poll(t)
  BY <1>8, MovesInside DEF Poll, GateInv, Inside
<1>9. CASE ObserveCancel(t)
  BY <1>9, MovesInside DEF ObserveCancel, GateInv, Inside
<1>10. CASE BeginStep(t)
  BY <1>10, StaysPut DEF BeginStep
<1>11. CASE Wait(t)
  BY <1>11, MovesInside DEF Wait, GateInv, Inside
<1>12. CASE StopStep(t)
  BY <1>12, StaysPut DEF StopStep
<1>13. CASE Answer(t)
  BY <1>13, MovesInside DEF Answer, GateInv, Inside
<1>14. CASE Err(t)
  BY <1>14, MovesInside DEF Err, GateInv, Inside
<1>15. CASE TimeOut(t)
  BY <1>15, MovesInside DEF TimeOut, GateInv, Inside
<1>16. CASE Sweep(t)
  BY <1>16, MovesInside DEF Sweep, GateInv, Inside
<1>17. CASE Deactivate(t)
  BY <1>17, MovesInside DEF Deactivate, GateInv, Inside
<1>18. CASE BecomeIdle(t)
  <2>1. CASE pc' = [pc EXCEPT ![t] = pc'[t]] /\ pc'[t] \in Inside
    BY <1>18, <2>1, MovesInside DEF BecomeIdle, GateInv, Inside, SetStatus
  <2>2. CASE pc' = [pc EXCEPT ![t] = pc'[t]] /\ pc'[t] \in Points \ Inside
    BY <1>18, <2>2, Leaves DEF BecomeIdle, GateInv, Inside, SetStatus
  <2>. QED
    BY <1>18, <2>1, <2>2 DEF BecomeIdle, GateInv, Inside, Points, Final, SetStatus
<1>19. CASE SaveAnswer(t)
  <2>1. CASE pc' = [pc EXCEPT ![t] = pc'[t]] /\ pc'[t] \in Inside
    BY <1>19, <2>1, MovesInside DEF SaveAnswer, GateInv, Inside, Return
  <2>2. CASE pc' = [pc EXCEPT ![t] = pc'[t]] /\ pc'[t] \in Points \ Inside
    BY <1>19, <2>2, Leaves DEF SaveAnswer, GateInv, Inside, Return
  <2>. QED
    BY <1>19, <2>1, <2>2 DEF SaveAnswer, GateInv, Inside, Points, Final, Return
<1>20. CASE Publish(t)
  BY <1>20, Leaves DEF Publish, Inside, Points, Final, Return
<1>21. CASE Report(t)
  BY <1>21, Leaves DEF Report, Inside, Points, Final, Return
<1>. QED
  BY <1>1, <1>2, <1>3, <1>4, <1>5, <1>6, <1>7, <1>8, <1>9, <1>10, <1>11, <1>12, <1>13, <1>14, <1>15, <1>16, <1>17, <1>18, <1>19, <1>20, <1>21 DEF Submit

LEMMA CommandKeepsGate ==
  ASSUME GateInv, NEW c \in Commands, Command(c)
  PROVE  GateInv'
<1>. USE DEF memory, ui, bounds, investigation, KeepGate, Goto
<1>. c \in Calls /\ pc[c] \in Points
  BY DEF Calls, GateInv
<1>1. CASE Take(c)
  <2>1. CASE status # "Closed" /\ TryLock(c) /\ Goto(c, "new", "gated") /\ UNCHANGED status
    BY <2>1, SessionAssumption DEF TryLock, GateInv, Inside, Points, Final
  <2>2. CASE KeepGate /\ Goto(c, "new", "done") /\ UNCHANGED status
    BY <2>2, StaysOutside DEF Inside, Points, Final
  <2>. QED
    BY <1>1, <2>1, <2>2 DEF Take
<1>2. CASE Manage(c)
  BY <1>2, Leaves DEF Manage, Inside, Points, Final
<1>3. CASE WipeRows(c)
  <2>1. CASE Goto(c, "gated", "wiped") /\ UNCHANGED <<gate, status>>
    BY <2>1, MovesInside DEF GateInv, Inside
  <2>2. CASE Goto(c, "gated", "done")
    BY <2>2, Leaves DEF Inside, Points, Final
  <2>. QED
    BY <1>3, <2>1, <2>2 DEF WipeRows
<1>4. CASE WipeMemory(c)
  BY <1>4, Leaves DEF WipeMemory, Inside, Points, Final
<1>. QED
  BY <1>1, <1>2, <1>3, <1>4 DEF Command

LEMMA CloseKeepsGate ==
  ASSUME GateInv, NEW k \in Closers, Close(k)
  PROVE  GateInv'
<1>. USE DEF Goto
<1>. k \in Calls
  BY DEF Calls
<1>1. CASE StartClose(k)
  BY <1>1, SessionAssumption DEF StartClose, GateInv, Inside, Points, Final
<1>2. CASE EndClose(k)
  BY <1>2, Leaves DEF EndClose, Inside, Points, Final
<1>. QED
  BY <1>1, <1>2 DEF Close

LEMMA GateStep == GateInv /\ [Next]_vars => GateInv'
<1>. SUFFICES ASSUME GateInv, [Next]_vars PROVE GateInv'
  OBVIOUS
<1>1. ASSUME NEW c \in Calls, Drop(c) PROVE GateInv'
  BY <1>1 DEF Drop, GateInv, Inside, Points, Final
<1>2. CASE Cancel
  BY <1>2, StaysPut DEF Cancel
<1>3. CASE Reopen
  BY <1>3 DEF Reopen, GateInv, Inside, Points, Final
<1>4. CASE UNCHANGED vars
  BY <1>4, StaysPut DEF vars, memory
<1>. QED
  BY <1>1, <1>2, <1>3, <1>4, SubmitKeepsGate, CommandKeepsGate, CloseKeepsGate DEF Next

\* Between taking the gate and releasing it a call owns it alone, and the
\* session is open.
THEOREM GateHolds == Spec => []GateInv
  BY GateInit, GateStep, PTL DEF Spec

-----------------------------------------------------------------------------
\* Everything that changes what a closed session must not change happens to a
\* call inside the gate, or is a restart.
Frozen ==
    /\ status' = "Closed" /\ active' = active
    /\ UNCHANGED <<history, messages, investigation, ui>>

LEMMA OutsideSubmit ==
  ASSUME NEW t \in Turns, pc[t] \notin Inside, Submit(t)
  PROVE  Check(t) \/ Enter(t)
<1>1. ~Activate(t) /\ ~Start(t) /\ ~SaveInstruction(t) /\ ~Refuse(t) /\ ~Remember(t)
  BY DEF Activate, Start, SaveInstruction, Refuse, Remember, Goto, Inside
<1>2. ~Poll(t) /\ ~ObserveCancel(t) /\ ~BeginStep(t) /\ ~Wait(t) /\ ~StopStep(t)
  BY DEF Poll, ObserveCancel, BeginStep, Wait, StopStep, End, Goto, Inside
<1>3. ~Answer(t) /\ ~Err(t) /\ ~TimeOut(t) /\ ~Sweep(t) /\ ~Deactivate(t)
  BY DEF Answer, Err, TimeOut, Sweep, Deactivate, End, Goto, Inside
<1>4. ~BecomeIdle(t) /\ ~SaveAnswer(t) /\ ~Publish(t) /\ ~Report(t)
  BY DEF BecomeIdle, SaveAnswer, Publish, Report, Return, Goto, Inside
<1>. QED
  BY <1>1, <1>2, <1>3, <1>4 DEF Submit

LEMMA OutsideCommand ==
  ASSUME NEW c \in Commands, pc[c] \notin Inside, Command(c)
  PROVE  Take(c)
  BY DEF Command, Manage, WipeRows, WipeMemory, Goto, Inside

LEMMA ClosedSubmit ==
  ASSUME GateInv, status = "Closed", NEW t \in Turns, Submit(t)
  PROVE  Frozen
<1>1. Check(t) \/ Enter(t)
  BY OutsideSubmit DEF GateInv, Calls
<1>. QED
  BY <1>1 DEF Check, Enter, Frozen, memory

LEMMA ClosedCommand ==
  ASSUME GateInv, status = "Closed", NEW c \in Commands, Command(c)
  PROVE  Frozen
<1>1. Take(c)
  BY OutsideCommand DEF GateInv, Calls
<1>. QED
  BY <1>1 DEF Take, Frozen

\* Restarts are counted, one by one.
CountInv == restarts \in Nat

LEMMA CountStep == CountInv /\ [Next]_vars => CountInv'
<1>. SUFFICES ASSUME CountInv, [Next]_vars, restarts' # restarts PROVE CountInv'
  BY DEF CountInv
<1>. USE DEF Statement, bounds
<1>1. ASSUME NEW t \in Turns, Submit(t) PROVE FALSE
  <2>1. ~Check(t) /\ ~Enter(t) /\ ~Activate(t) /\ ~Start(t) /\ ~SaveInstruction(t)
    BY DEF Check, Enter, Activate, Start, SaveInstruction, SetStatus
  <2>2. ~Refuse(t) /\ ~Remember(t) /\ ~Poll(t) /\ ~ObserveCancel(t) /\ ~BeginStep(t)
    BY DEF Refuse, Remember, Poll, ObserveCancel, BeginStep, SetStatus
  <2>3. ~Wait(t) /\ ~StopStep(t) /\ ~Answer(t) /\ ~Err(t) /\ ~TimeOut(t)
    BY DEF Wait, StopStep, Answer, Err, TimeOut
  <2>4. ~Sweep(t) /\ ~Deactivate(t) /\ ~BecomeIdle(t) /\ ~SaveAnswer(t)
    BY DEF Sweep, Deactivate, BecomeIdle, SaveAnswer, SetStatus
  <2>. QED
    BY <1>1, <2>1, <2>2, <2>3, <2>4 DEF Submit, Publish, Report
<1>2. ASSUME NEW c \in Commands, Command(c) PROVE FALSE
  BY <1>2 DEF Command, Take, Manage, WipeRows, WipeMemory
<1>3. ASSUME NEW k \in Closers, Close(k) PROVE FALSE
  BY <1>3 DEF Close, StartClose, EndClose, SetStatus
<1>4. ASSUME NEW c \in Calls, Drop(c) PROVE FALSE
  BY <1>4 DEF Drop
<1>5. CASE Reopen
  BY <1>5 DEF Reopen, CountInv
<1>. QED
  BY <1>1, <1>2, <1>3, <1>4, <1>5 DEF Next, Cancel, vars

LEMMA ClosedStep ==
  ASSUME GateInv, CountInv, [Next]_vars, status = "Closed", restarts' = restarts
  PROVE  Frozen
<1>1. ASSUME NEW k \in Closers, Close(k) PROVE Frozen
  BY <1>1 DEF Close, StartClose, EndClose, SetStatus, Frozen
<1>2. ASSUME NEW c \in Calls, Drop(c) PROVE Frozen
  BY <1>2 DEF Drop, Frozen
<1>3. CASE Cancel
  BY <1>3 DEF Cancel, Frozen
<1>4. ~Reopen
  BY DEF Reopen, CountInv
<1>5. CASE UNCHANGED vars
  BY <1>5 DEF vars, memory, Frozen
<1>. QED
  BY <1>1, <1>2, <1>3, <1>4, <1>5, ClosedSubmit, ClosedCommand DEF Next

\* A closed session stays closed until it is opened anew, and no turn, command
\* or cleanup that was under way changes anything after it closed.
THEOREM ClosedForGoodHolds == Spec => ClosedForGood
<1>1. Init => CountInv
  BY DEF Init, CountInv
<1>2. GateInv /\ CountInv /\ [Next]_vars
        => (status = "Closed" /\ restarts' = restarts => Frozen)
  BY ClosedStep
<1>3. Spec => [][status = "Closed" /\ restarts' = restarts => Frozen]_vars
  BY <1>1, <1>2, CountStep, GateHolds, PTL DEF Spec
<1>. QED
  BY <1>3, PTL DEF ClosedForGood, Frozen

-----------------------------------------------------------------------------
(***************************************************************************)
(* The running step.  Its turn is at work in the runtime, or about to sweep  *)
(* after anything but an answer; otherwise the sweep was refused, or the     *)
(* future dropped.  NoStrayStep alone is not inductive: it does not say that *)
(* a turn that answers has no step left.                                     *)
(***************************************************************************)
AtWork(t) ==
    \/ pc[t] \in {"select", "chat"}
    \/ pc[t] = "ended" /\ outcome[t] # "Completed"
RunnerInv ==
    /\ outcome \in [Turns -> Outcomes]
    /\ step # "Running" => runner = None
    /\ step = "Running" =>
        /\ runner \in Turns
        /\ AtWork(runner) \/ outcome[runner] = "Unswept" \/ pc[runner] = "dropped"

\* A call that is not at work, and leaves the step alone.
LEMMA RunnerUntouched ==
  ASSUME GateInv, RunnerInv, NEW c \in Calls,
         pc[c] \notin {"select", "chat", "ended", "dropped"},
         NEW p, pc' = [pc EXCEPT ![c] = p], UNCHANGED <<investigation, outcome>>
  PROVE  RunnerInv'
  BY DEF GateInv, RunnerInv, AtWork, Calls, investigation

LEMMA SubmitKeepsRunner ==
  ASSUME GateInv, RunnerInv, NEW t \in Turns, Submit(t)
  PROVE  RunnerInv'
<1>. USE DEF investigation, Goto, End
<1>. t \in Calls
  BY DEF Calls
<1>1. CASE Check(t)
  BY <1>1, RunnerUntouched DEF Check
<1>2. CASE Enter(t)
  BY <1>2, RunnerUntouched DEF Enter
<1>3. CASE Activate(t)
  BY <1>3, RunnerUntouched DEF Activate
<1>4. CASE Start(t)
  BY <1>4, RunnerUntouched DEF Start
<1>5. CASE SaveInstruction(t)
  BY <1>5, RunnerUntouched DEF SaveInstruction
<1>6. CASE Refuse(t)
  BY <1>6, RunnerUntouched DEF Refuse
<1>7. CASE Remember(t)
  BY <1>7 DEF Remember, GateInv, RunnerInv, AtWork, Outcomes
<1>8. CASE Poll(t)
  BY <1>8 DEF Poll, GateInv, RunnerInv, AtWork, Outcomes
<1>9. CASE ObserveCancel(t)
  BY <1>9 DEF ObserveCancel, GateInv, RunnerInv, AtWork, Outcomes
<1>10. CASE BeginStep(t)
  BY <1>10 DEF BeginStep, GateInv, RunnerInv, AtWork, Outcomes
<1>11. CASE Wait(t)
  BY <1>11 DEF Wait, GateInv, RunnerInv, AtWork, Outcomes
<1>12. CASE StopStep(t)
  BY <1>12 DEF StopStep, GateInv, RunnerInv, AtWork, Outcomes, EndStep
<1>13. CASE Answer(t)
  BY <1>13 DEF Answer, GateInv, RunnerInv, AtWork, Outcomes, EndStep
<1>14. CASE Err(t)
  BY <1>14 DEF Err, GateInv, RunnerInv, AtWork, Outcomes, EndStep
<1>15. CASE TimeOut(t)
  BY <1>15 DEF TimeOut, GateInv, RunnerInv, AtWork, Outcomes
<1>16. CASE Sweep(t)
  <2>. pc[t] = "ended" /\ pc' = [pc EXCEPT ![t] = "swept"]
    BY <1>16 DEF Sweep
  <2>1. CASE outcome[t] = "Completed" /\ UNCHANGED <<step, runner, outcome>>
    BY <2>1 DEF GateInv, RunnerInv, AtWork
  <2>2. CASE step # "Running" /\ UNCHANGED <<step, runner, outcome>>
    BY <2>2 DEF RunnerInv
  <2>3. CASE /\ step' = "Ended" /\ runner' = None
             /\ outcome' \in {outcome, [outcome EXCEPT ![t] = "Unswept"]}
    BY <2>3 DEF RunnerInv, Outcomes
  <2>4. CASE outcome' = [outcome EXCEPT ![t] = "Unswept"] /\ UNCHANGED <<step, runner>>
    BY <2>4 DEF GateInv, RunnerInv, AtWork, Outcomes
  <2>. QED
    BY <1>16, <2>1, <2>2, <2>3, <2>4 DEF Sweep
<1>17. CASE Deactivate(t)
  BY <1>17, RunnerUntouched DEF Deactivate, Return
<1>18. CASE BecomeIdle(t)
  BY <1>18, RunnerUntouched DEF BecomeIdle, Return
<1>19. CASE SaveAnswer(t)
  BY <1>19, RunnerUntouched DEF SaveAnswer, Return
<1>20. CASE Publish(t)
  BY <1>20, RunnerUntouched DEF Publish, Return
<1>21. CASE Report(t)
  BY <1>21, RunnerUntouched DEF Report, Return
<1>. QED
  BY <1>1, <1>2, <1>3, <1>4, <1>5, <1>6, <1>7, <1>8, <1>9, <1>10, <1>11, <1>12, <1>13, <1>14, <1>15, <1>16, <1>17, <1>18, <1>19, <1>20, <1>21 DEF Submit

LEMMA RunnerStep == GateInv /\ RunnerInv /\ [Next]_vars => RunnerInv'
<1>. SUFFICES ASSUME GateInv, RunnerInv, [Next]_vars PROVE RunnerInv'
  OBVIOUS
<1>. USE DEF investigation, Goto
<1>1. ASSUME NEW c \in Commands, Command(c) PROVE RunnerInv'
  <2>. c \in Calls /\ c \notin Turns
    BY SessionAssumption DEF Calls
  <2>1. CASE Take(c)
    BY <2>1, RunnerUntouched DEF Take
  <2>2. CASE Manage(c)
    BY <2>2 DEF Manage, GateInv, RunnerInv, AtWork
  <2>3. CASE WipeRows(c)
    BY <2>3, RunnerUntouched DEF WipeRows
  <2>4. CASE WipeMemory(c)
    BY <2>4, RunnerUntouched DEF WipeMemory
  <2>. QED
    BY <1>1, <2>1, <2>2, <2>3, <2>4 DEF Command
<1>2. ASSUME NEW k \in Closers, Close(k) PROVE RunnerInv'
  BY <1>2, RunnerUntouched DEF Close, StartClose, EndClose, Calls
<1>3. ASSUME NEW c \in Calls, Drop(c) PROVE RunnerInv'
  BY <1>3 DEF Drop, GateInv, RunnerInv, AtWork, Calls
<1>4. CASE Cancel
  BY <1>4 DEF Cancel, RunnerInv, AtWork
<1>5. CASE Reopen
  BY <1>5 DEF Reopen, RunnerInv
<1>6. CASE UNCHANGED vars
  BY <1>6 DEF vars, RunnerInv, AtWork
<1>. QED
  BY <1>1, <1>2, <1>3, <1>4, <1>5, <1>6, SubmitKeepsRunner DEF Next

\* No step is left running by a turn that returned normally, whatever failed,
\* was cancelled, timed out or raced with a close.
THEOREM NoStrayStepHolds == Spec => []NoStrayStep
<1>1. Init => RunnerInv
  BY DEF Init, RunnerInv, Outcomes
<1>2. GateInv /\ RunnerInv => NoStrayStep
  BY DEF GateInv, RunnerInv, AtWork, NoStrayStep, Inside, Calls
<1>. QED
  BY <1>1, <1>2, RunnerStep, GateHolds, PTL DEF Spec

-----------------------------------------------------------------------------
(***************************************************************************)
(* A turn alone at the gate.                                                *)
(***************************************************************************)
LEMMA OthersOutside ==
  ASSUME GateInv, NEW c \in Calls, pc[c] \in Inside, NEW d \in Calls, d # c
  PROVE  pc[d] \notin Inside
  BY DEF GateInv

LEMMA TurnAlone ==
  ASSUME GateInv, CountInv, NEW t \in Turns, pc[t] = "select",
         [Next]_vars, restarts' = restarts
  PROVE  UNCHANGED <<investigation, history, messages>>
<1>. USE DEF memory
<1>0. /\ t \in Calls /\ pc[t] \in Inside /\ t \notin Commands
  BY SessionAssumption DEF Calls, Inside
<1>1. ASSUME NEW u \in Turns, Submit(u)
      PROVE  UNCHANGED <<investigation, history, messages>>
  <2>1. CASE u = t
    <3>1. ~Check(t) /\ ~Enter(t) /\ ~Activate(t) /\ ~Start(t) /\ ~SaveInstruction(t)
      BY DEF Check, Enter, Activate, Start, SaveInstruction, Goto
    <3>2. ~Refuse(t) /\ ~Remember(t) /\ ~BeginStep(t) /\ ~Wait(t) /\ ~StopStep(t)
      BY DEF Refuse, Remember, BeginStep, Wait, StopStep, Goto
    <3>3. ~Answer(t) /\ ~Err(t) /\ ~TimeOut(t) /\ ~Sweep(t) /\ ~Deactivate(t)
      BY DEF Answer, Err, TimeOut, Sweep, Deactivate, End, Goto
    <3>4. ~BecomeIdle(t) /\ ~SaveAnswer(t) /\ ~Publish(t) /\ ~Report(t)
      BY DEF BecomeIdle, SaveAnswer, Publish, Report, Return, Goto
    <3>5. Poll(t) \/ ObserveCancel(t)
      BY <1>1, <2>1, <3>1, <3>2, <3>3, <3>4 DEF Submit
    <3>. QED  BY <3>5 DEF Poll, ObserveCancel
  <2>2. CASE u # t
    <3>1. Check(u) \/ Enter(u)
      BY <1>0, <1>1, <2>2, OthersOutside, OutsideSubmit DEF Calls
    <3>. QED  BY <3>1 DEF Check, Enter
  <2>. QED  BY <2>1, <2>2
<1>2. ASSUME NEW c \in Commands, Command(c)
      PROVE  UNCHANGED <<investigation, history, messages>>
  <2>1. Take(c)
    BY <1>0, <1>2, OthersOutside, OutsideCommand DEF Calls
  <2>. QED  BY <2>1 DEF Take
<1>3. ASSUME NEW k \in Closers, Close(k)
      PROVE  UNCHANGED <<investigation, history, messages>>
  BY <1>3 DEF Close, StartClose, EndClose
<1>4. ASSUME NEW c \in Calls, Drop(c)
      PROVE  UNCHANGED <<investigation, history, messages>>
  BY <1>4 DEF Drop
<1>5. ~Reopen
  BY DEF Reopen, CountInv
<1>6. CASE Cancel \/ UNCHANGED vars
  BY <1>6 DEF Cancel, vars
<1>. QED
  BY <1>1, <1>2, <1>3, <1>4, <1>5, <1>6 DEF Next

\* While a turn waits for the runtime, whoever calls, closes or drops, nothing
\* that the runtime has read changes under it, until the process restarts.
THEOREM TurnsWorkAloneHolds == Spec => TurnsWorkAlone
<1>1. Init => CountInv
  BY DEF Init, CountInv
<1>2. GateInv /\ CountInv /\ [Next]_vars
        => \A t \in Turns : pc[t] = "select" /\ restarts' = restarts
             => UNCHANGED <<investigation, history, messages>>
  BY TurnAlone
<1>. QED
  BY <1>1, <1>2, CountStep, GateHolds, PTL DEF Spec, TurnsWorkAlone

-----------------------------------------------------------------------------
(***************************************************************************)
(* The events of a turn.  They carry its id because ui has it from the      *)
(* start of the turn to its end, while the turn owns the gate.              *)
(***************************************************************************)
Before == {"new", "checked", "gated", "active"}
During == {"started", "unsaved", "saved", "select", "chat", "ended", "swept",
           "cleared", "idle", "answered"}

Begun(t) == \E i \in DOMAIN events : OfTurn(t) = {i} /\ events[i].kind = "Started"
Ended(t) ==
    \E i, j \in DOMAIN events :
        /\ OfTurn(t) = {i, j} /\ i < j
        /\ events[i].kind = "Started" /\ events[j].kind \in Ends

Told(t) ==
    /\ pc[t] \in Before => OfTurn(t) = {}
    /\ pc[t] \in During => Begun(t) /\ uiTurn = t
    /\ pc[t] = "done" => OfTurn(t) = {} \/ Ended(t)
    /\ pc[t] \notin Before \cup During \cup {"done"} => OfTurn(t) = {} \/ Begun(t)

EventInv ==
    /\ events \in Seq(Event)
    /\ \A i \in DOMAIN events : events[i].turn # None
    /\ \A t \in Turns : Told(t)

\* Where a call goes without an event.
Unheard(from, to) ==
    \/ from \in Before /\ to \in Before \cup {"done"}
    \/ from \in During /\ to \in During
    \/ from # "done" /\ to \in {"unsettled", "dropped", "lost"}

LEMMA Silence ==
  ASSUME GateInv, EventInv, UNCHANGED ui,
         \A t \in Turns : pc'[t] = pc[t] \/ Unheard(pc[t], pc'[t])
  PROVE  EventInv'
<1>1. ASSUME NEW t \in Turns PROVE Told(t)'
  <2>1. /\ OfTurn(t)' = OfTurn(t) /\ Begun(t)' = Begun(t) /\ Ended(t)' = Ended(t)
        /\ uiTurn' = uiTurn
    BY DEF ui, OfTurn, Begun, Ended
  <2>2. Told(t) /\ (pc'[t] = pc[t] \/ Unheard(pc[t], pc'[t]))
    BY DEF EventInv
  <2>. QED  BY <2>1, <2>2 DEF Told, Unheard, Before, During
<1>. QED  BY <1>1 DEF EventInv, ui

LEMMA SilentMove ==
  ASSUME GateInv, EventInv, UNCHANGED ui, NEW c \in Calls, NEW from, NEW to,
         Goto(c, from, to), Unheard(from, to)
  PROVE  EventInv'
  BY Silence DEF Goto, GateInv, Calls

\* What one more event of t changes.
LEMMA Tells ==
  ASSUME EventInv, NEW t \in Turns, NEW kind \in {"Started"} \cup Ends,
         events' = Append(events, [turn |-> t, kind |-> kind])
  PROVE  /\ events' \in Seq(Event)
         /\ \A i \in DOMAIN events' : events'[i].turn # None
         /\ \A u \in Turns \ {t} : /\ OfTurn(u)' = OfTurn(u)
                                   /\ Begun(u) => Begun(u)'
                                   /\ Ended(u) => Ended(u)'
         /\ OfTurn(t) = {} /\ kind = "Started" => Begun(t)'
         /\ Begun(t) /\ kind \in Ends => Ended(t)'
<1>. DEFINE n == Len(events) + 1
<1>1. /\ events \in Seq(Event) /\ [turn |-> t, kind |-> kind] \in Event
      /\ DOMAIN events = 1..Len(events) /\ Len(events) \in Nat
  BY DEF EventInv, Event, Ends
<1>2. /\ events' \in Seq(Event) /\ DOMAIN events' = (DOMAIN events) \cup {n}
      /\ \A i \in DOMAIN events : events'[i] = events[i] /\ i < n
      /\ events'[n] = [turn |-> t, kind |-> kind] /\ n \notin DOMAIN events
  BY <1>1
<1>. HIDE DEF n
<1>3. \A i \in DOMAIN events' : events'[i].turn # None
  BY <1>2, SessionAssumption DEF EventInv, Calls
<1>4. OfTurn(t)' = OfTurn(t) \cup {n} /\ \A u \in Turns \ {t} : OfTurn(u)' = OfTurn(u)
  BY <1>2 DEF OfTurn
<1>5. \A u \in Turns \ {t} : Begun(u) => Begun(u)'
  BY <1>2, <1>4 DEF Begun
<1>6. \A u \in Turns \ {t} : Ended(u) => Ended(u)'
  BY <1>2, <1>4 DEF Ended
<1>7. OfTurn(t) = {} /\ kind = "Started" => Begun(t)'
  BY <1>2, <1>4 DEF Begun
<1>8. Begun(t) /\ kind \in Ends => Ended(t)'
  <2>. SUFFICES ASSUME Begun(t), kind \in Ends PROVE Ended(t)'
    OBVIOUS
  <2>1. PICK i \in DOMAIN events : OfTurn(t) = {i} /\ events[i].kind = "Started"
    BY DEF Begun
  <2>2. OfTurn(t)' = {i, n} /\ i < n
    BY <1>2, <1>4, <2>1
  <2>3. events'[i].kind = "Started" /\ events'[n].kind = kind
    BY <1>2, <2>1
  <2>. QED  BY <1>2, <2>2, <2>3 DEF Ended
<1>. QED  BY <1>2, <1>3, <1>4, <1>5, <1>6, <1>7, <1>8

\* The others while t, at the gate, tells.
LEMMA OthersTold ==
  ASSUME GateInv, EventInv, NEW t \in Turns, pc[t] \in Inside,
         NEW kind \in {"Started"} \cup Ends,
         events' = Append(events, [turn |-> t, kind |-> kind]),
         \A u \in Turns \ {t} : pc'[u] = pc[u]
  PROVE  \A u \in Turns \ {t} : Told(u)'
<1>. TAKE u \in Turns \ {t}
<1>1. pc[u] \notin During
  BY OthersOutside DEF Calls, Inside, During
<1>. QED  BY <1>1, Tells DEF EventInv, Told

LEMMA TellsStart ==
  ASSUME GateInv, EventInv, NEW t \in Turns, Goto(t, "active", "started"),
         uiTurn' = t, events' = Append(events, [turn |-> t, kind |-> "Started"])
  PROVE  EventInv'
<1>1. /\ pc[t] \in Inside /\ pc'[t] = "started"
      /\ \A u \in Turns \ {t} : pc'[u] = pc[u]
  BY DEF Goto, GateInv, Calls, Inside
<1>2. OfTurn(t) = {}
  BY DEF EventInv, Told, Before, Goto
<1>3. Told(t)'
  BY <1>1, <1>2, Tells DEF Told, Before, During
<1>. QED  BY <1>1, <1>3, Tells, OthersTold DEF EventInv

LEMMA TellsEnd ==
  ASSUME GateInv, EventInv, NEW t \in Turns, NEW from \in During,
         Goto(t, from, "done"), NEW kind \in Ends, Emit(kind)
  PROVE  EventInv'
<1>1. /\ pc[t] \in Inside /\ pc[t] \in During /\ pc'[t] = "done"
      /\ \A u \in Turns \ {t} : pc'[u] = pc[u]
  BY DEF Goto, GateInv, Calls, Inside, During
<1>2. Begun(t) /\ uiTurn = t
  BY <1>1 DEF EventInv, Told
<1>3. events' = Append(events, [turn |-> t, kind |-> kind])
  BY <1>2 DEF Emit
<1>4. Told(t)'
  BY <1>1, <1>2, <1>3, Tells DEF Told, Before, During
<1>. QED  BY <1>1, <1>3, <1>4, Tells, OthersTold DEF EventInv

LEMMA SubmitTells ==
  ASSUME GateInv, EventInv, NEW t \in Turns, Submit(t)
  PROVE  EventInv'
<1>. USE DEF Unheard, Before, During
<1>. t \in Calls
  BY DEF Calls
<1>1. CASE Check(t)
  <2>1. UNCHANGED ui /\ \E p \in {"done", "checked"} : Goto(t, "new", p)
    BY <1>1 DEF Check, Goto
  <2>. QED  BY <2>1, SilentMove
<1>2. CASE Enter(t)
  BY <1>2, SilentMove DEF Enter
<1>3. CASE Activate(t)
  BY <1>3, SilentMove DEF Activate
<1>4. CASE Start(t)
  BY <1>4, SilentMove, TellsStart DEF Start
<1>5. CASE SaveInstruction(t)
  BY <1>5, SilentMove DEF SaveInstruction
<1>6. CASE Refuse(t)
  BY <1>6, TellsEnd DEF Refuse, Ends
<1>7. CASE Remember(t)
  BY <1>7, SilentMove DEF Remember
<1>8. CASE Poll(t)
  BY <1>8, SilentMove DEF Poll
<1>9. CASE ObserveCancel(t)
  BY <1>9, SilentMove DEF ObserveCancel, End
<1>10. CASE BeginStep(t) \/ StopStep(t)
  BY <1>10, Silence DEF BeginStep, StopStep
<1>11. CASE Wait(t)
  BY <1>11, SilentMove DEF Wait
<1>12. CASE Answer(t)
  BY <1>12, SilentMove DEF Answer, End
<1>13. CASE Err(t)
  BY <1>13, SilentMove DEF Err, End
<1>14. CASE TimeOut(t)
  BY <1>14, SilentMove DEF TimeOut, End
<1>15. CASE Sweep(t)
  BY <1>15, SilentMove DEF Sweep
<1>16. CASE Deactivate(t)
  BY <1>16, SilentMove DEF Deactivate
<1>17. CASE BecomeIdle(t)
  BY <1>17, SilentMove DEF BecomeIdle
<1>18. CASE SaveAnswer(t)
  BY <1>18, SilentMove, TellsEnd DEF SaveAnswer, Return, Ends
<1>19. CASE Publish(t)
  BY <1>19, TellsEnd DEF Publish, Return, Ends
<1>20. CASE Report(t)
  BY <1>20, TellsEnd DEF Report, Return, Ends
<1>. QED
  BY <1>1, <1>2, <1>3, <1>4, <1>5, <1>6, <1>7, <1>8, <1>9, <1>10, <1>11, <1>12,
     <1>13, <1>14, <1>15, <1>16, <1>17, <1>18, <1>19, <1>20 DEF Submit

LEMMA EventStep == GateInv /\ EventInv /\ [Next]_vars => EventInv'
<1>. SUFFICES ASSUME GateInv, EventInv, [Next]_vars PROVE EventInv'
  OBVIOUS
<1>1. ASSUME NEW c \in Commands \cup Closers, NEW p, pc' = [pc EXCEPT ![c] = p],
             UNCHANGED ui
      PROVE  EventInv'
  <2>1. c \in Calls /\ c \notin Turns
    BY SessionAssumption DEF Calls
  <2>. QED  BY <1>1, <2>1, Silence DEF GateInv, Calls
<1>2. ASSUME NEW c \in Commands, Command(c) PROVE EventInv'
  BY <1>1, <1>2 DEF Command, Take, Manage, WipeRows, WipeMemory, Goto
<1>3. ASSUME NEW k \in Closers, Close(k) PROVE EventInv'
  BY <1>1, <1>3 DEF Close, StartClose, EndClose, Goto
<1>4. ASSUME NEW c \in Calls, Drop(c) PROVE EventInv'
  <2>1. UNCHANGED ui /\ pc[c] # "done" /\ Goto(c, pc[c], "dropped")
    BY <1>4 DEF Drop, Final, Goto
  <2>. QED  BY <2>1, SilentMove DEF Unheard
<1>5. CASE Cancel \/ UNCHANGED vars
  BY <1>5, Silence DEF Cancel, vars
<1>6. CASE Reopen
  <2>1. /\ events' = events
        /\ \A t \in Turns :
             \/ pc'[t] = pc[t] /\ pc[t] \in Final \cup {"new"}
             \/ pc'[t] = "lost" /\ pc[t] \notin Final \cup {"new"}
    BY <1>6 DEF Reopen, Calls
  <2>2. ASSUME NEW t \in Turns PROVE Told(t)'
    <3>1. /\ OfTurn(t)' = OfTurn(t) /\ Begun(t)' = Begun(t) /\ Ended(t)' = Ended(t)
      BY <2>1 DEF OfTurn, Begun, Ended
    <3>2. Told(t)
      BY DEF EventInv
    <3>3. CASE pc'[t] = pc[t] /\ pc[t] \in Final \cup {"new"}
      BY <3>1, <3>2, <3>3 DEF Told, Before, During, Final
    <3>4. CASE pc'[t] = "lost" /\ pc[t] \notin Final \cup {"new"}
      BY <3>1, <3>2, <3>4 DEF Told, Before, During, Final
    <3>. QED  BY <2>1, <3>3, <3>4
  <2>. QED  BY <2>1, <2>2 DEF EventInv
<1>. QED
  BY <1>2, <1>3, <1>4, <1>5, <1>6, SubmitTells DEF Next

LEMMA EventInvHolds == Spec => []EventInv
<1>1. Init => EventInv
  <2>. SUFFICES ASSUME Init PROVE EventInv
    OBVIOUS
  <2>1. events = <<>> /\ events \in Seq(Event) /\ DOMAIN events = {}
    BY DEF Init
  <2>2. \A t \in Turns : Told(t)
    BY <2>1 DEF Init, Told, OfTurn, Before, During, Calls
  <2>. QED  BY <2>1, <2>2 DEF EventInv
<1>. QED  BY <1>1, EventStep, GateHolds, PTL DEF Spec

\* A turn that started publishes one start and then at most one end, both
\* under its own id, however calls, drops, failures and restarts interleave;
\* one that returned normally after its start has published its end.
THEOREM EventsHold == Spec => []EventsOfATurn
<1>1. GateInv /\ EventInv => EventsOfATurn
  <2>. SUFFICES ASSUME GateInv, EventInv, NEW t \in Turns
       PROVE  \/ OfTurn(t) = {} /\ pc[t] # "answered"
              \/ \E i \in DOMAIN events :
                  /\ events[i].kind = "Started"
                  /\ \/ OfTurn(t) = {i} /\ pc[t] # "done"
                     \/ \E j \in DOMAIN events :
                         /\ OfTurn(t) = {i, j} /\ i < j
                         /\ events[j].kind \in Ends /\ pc[t] = "done"
    BY DEF EventsOfATurn, EventInv
  <2>1. /\ pc[t] = "answered" => Begun(t)
        /\ pc[t] # "done" => OfTurn(t) = {} \/ Begun(t)
        /\ pc[t] = "done" => OfTurn(t) = {} \/ Ended(t)
    BY DEF EventInv, Told, Before, During
  <2>. QED  BY <2>1 DEF Begun, Ended
<1>. QED  BY <1>1, GateHolds, EventInvHolds, PTL

-----------------------------------------------------------------------------
(***************************************************************************)
(* The conversation in memory and the one that is stored.  They differ by   *)
(* what the call at the gate has done to one of them only, and by what a    *)
(* clear_history that failed half way left in memory.                       *)
(***************************************************************************)
\* A suffix by positions.
LEMMA SuffixIs ==
  ASSUME NEW S, NEW s \in Seq(S), NEW t \in Seq(S)
  PROVE  IsSuffix(s, t) <=>
           /\ Len(s) <= Len(t)
           /\ \A i \in 1..Len(s) : s[i] = t[Len(t) - Len(s) + i]
<1>. DEFINE r == Reverse(s)  q == Reverse(t)
<1>1. /\ r \in Seq(S) /\ Len(r) = Len(s)
      /\ \A i \in 1..Len(s) : r[i] = s[Len(s) - i + 1]
  BY DEF Reverse
<1>2. /\ q \in Seq(S) /\ Len(q) = Len(t)
      /\ \A i \in 1..Len(t) : q[i] = t[Len(t) - i + 1]
  BY DEF Reverse
<1>3. IsSuffix(s, t) <=> IsPrefix(r, q)
  BY DEF IsSuffix
<1>. HIDE DEF r, q
<1>4. IsPrefix(r, q) <=> Len(s) <= Len(t) /\ \A i \in 1..Len(s) : r[i] = q[i]
  BY <1>1, <1>2 DEF IsPrefix
<1>5. CASE Len(s) <= Len(t)
  <2>1. ASSUME \A i \in 1..Len(s) : r[i] = q[i], NEW i \in 1..Len(s)
        PROVE  s[i] = t[Len(t) - Len(s) + i]
    <3>1. Len(s) - i + 1 \in 1..Len(s) /\ Len(s) - i + 1 \in 1..Len(t)
      BY <1>5
    <3>2. PICK j \in 1..Len(s) : j = Len(s) - i + 1 /\ j \in 1..Len(t)
      BY <3>1
    <3>3. r[j] = s[Len(s) - j + 1] /\ q[j] = t[Len(t) - j + 1]
      BY <1>1, <1>2, <3>2
    <3>4. Len(s) - j + 1 = i /\ Len(t) - j + 1 = Len(t) - Len(s) + i
      BY <3>2
    <3>. QED  BY <2>1, <3>2, <3>3, <3>4
  <2>2. ASSUME \A i \in 1..Len(s) : s[i] = t[Len(t) - Len(s) + i],
               NEW i \in 1..Len(s)
        PROVE  r[i] = q[i]
    <3>1. Len(s) - i + 1 \in 1..Len(s) /\ i \in 1..Len(t)
      BY <1>5
    <3>2. s[Len(s) - i + 1] = t[Len(t) - i + 1]
      BY <1>5, <2>2, <3>1
    <3>. QED  BY <1>1, <1>2, <3>1, <3>2
  <2>. QED  BY <1>3, <1>4, <1>5, <2>1, <2>2
<1>. QED  BY <1>3, <1>4, <1>5

\* Nothing said is the end of every conversation.
LEMMA SilenceEnds ==
  ASSUME NEW S, NEW s \in Seq(S)
  PROVE  <<>> \in Seq(S) /\ IsSuffix(<<>>, s)
<1>. DEFINE z == <<>>
<1>1. z \in Seq(S) /\ Len(z) = 0 /\ 1..Len(z) = {} /\ Len(s) \in Nat
  OBVIOUS
<1>. HIDE DEF z
<1>2. Len(z) <= Len(s) /\ \A i \in 1..Len(z) : z[i] = s[Len(s) - Len(z) + i]
  BY <1>1
<1>3. IsSuffix(z, s)
  BY <1>1, <1>2, SuffixIs
<1>. QED  BY <1>1, <1>3 DEF z

\* The other ends of a conversation, and of one that goes on.
LEMMA SuffixFacts ==
  ASSUME NEW S, NEW s \in Seq(S), NEW t \in Seq(S), NEW e \in S
  PROVE  /\ IsSuffix(<<>>, t) /\ IsSuffix(s, s)
         /\ IsSuffix(s, t) => IsSuffix(Append(s, e), Append(t, e))
<1>1. IsSuffix(<<>>, t)
  BY SilenceEnds
<1>2. IsSuffix(s, s)
  BY SuffixIs
<1>3. ASSUME IsSuffix(s, t) PROVE IsSuffix(Append(s, e), Append(t, e))
  <2>. DEFINE x == Append(s, e)  y == Append(t, e)
  <2>1. /\ x \in Seq(S) /\ Len(x) = Len(s) + 1 /\ x[Len(s) + 1] = e
        /\ \A i \in 1..Len(s) : x[i] = s[i]
    OBVIOUS
  <2>2. /\ y \in Seq(S) /\ Len(y) = Len(t) + 1 /\ y[Len(t) + 1] = e
        /\ \A i \in 1..Len(t) : y[i] = t[i]
    OBVIOUS
  <2>3. /\ Len(s) <= Len(t)
        /\ \A i \in 1..Len(s) : s[i] = t[Len(t) - Len(s) + i]
    BY <1>3, SuffixIs
  <2>. HIDE DEF x, y
  <2>4. ASSUME NEW i \in 1..Len(x) PROVE x[i] = y[Len(y) - Len(x) + i]
    <3>1. Len(y) - Len(x) = Len(t) - Len(s)
      BY <2>1, <2>2
    <3>2. CASE i = Len(s) + 1
      BY <2>1, <2>2, <3>1, <3>2
    <3>3. CASE i \in 1..Len(s)
      <4>1. Len(t) - Len(s) + i \in 1..Len(t)
        BY <2>3, <3>3
      <4>. QED  BY <2>1, <2>2, <2>3, <3>1, <3>3, <4>1
    <3>. QED  BY <2>1, <3>2, <3>3
  <2>5. Len(x) <= Len(y)
    BY <2>1, <2>2, <2>3
  <2>6. IsSuffix(x, y)
    BY <2>1, <2>2, <2>4, <2>5, SuffixIs
  <2>. QED  BY <2>6 DEF x, y
<1>. QED  BY <1>1, <1>2, <1>3

\* Memory has all that is stored, and unless something failed no more.
Alike(stored, memorised) ==
    IsSuffix(stored, memorised) /\ (failures = 0 => stored = memorised)

HalfWay == {"saved", "answered", "wiped"}

TalkInv ==
    /\ messages \in Seq(Message) /\ history \in Seq(Message) /\ failures \in Nat
    /\ (\A c \in Calls : pc[c] # "dropped") =>
        /\ \A t \in Turns :
            /\ pc[t] = "saved" => Alike(messages, Append(history, [turn |-> t, role |-> "user"]))
            /\ pc[t] = "answered" =>
                 Alike(messages, Append(history, [turn |-> t, role |-> "assistant"]))
        /\ \A c \in Calls : pc[c] = "wiped" => messages = <<>>
        /\ (\A c \in Calls : pc[c] \notin HalfWay) => Alike(messages, history)
    /\ \A t \in Turns : pc[t] = "answered" =>
         messages # <<>> /\ Last(messages) = [turn |-> t, role |-> "assistant"]

\* Failures are counted.
Counted == failures' \in {failures, failures + 1}

LEMMA CountedFailures ==
  ASSUME TalkInv, Counted
  PROVE  failures' \in Nat /\ (failures' = 0 => failures = 0)
  BY DEF TalkInv, Counted

\* What touches no conversation, and no call half way through one.
LEMMA Listens ==
  ASSUME GateInv, TalkInv, UNCHANGED <<history, messages>>, Counted,
         \A c \in Calls : \/ pc'[c] = pc[c] \/ pc'[c] = "dropped"
                          \/ pc[c] \notin HalfWay \cup {"dropped"} /\ pc'[c] \notin HalfWay
  PROVE  TalkInv'
<1>1. failures' = 0 => failures = 0
  BY CountedFailures
<1>2. /\ messages' \in Seq(Message) /\ history' \in Seq(Message) /\ failures' \in Nat
      /\ \A t \in Turns : pc'[t] = "answered" =>
           messages' # <<>> /\ Last(messages') = [turn |-> t, role |-> "assistant"]
  BY CountedFailures DEF TalkInv, HalfWay, Calls
<1>3. ASSUME \A c \in Calls : pc'[c] # "dropped"
      PROVE  /\ \A c \in Calls : pc[c] # "dropped"
             /\ \A c \in Calls : pc'[c] \in HalfWay \/ pc[c] \in HalfWay => pc'[c] = pc[c]
  BY <1>3
<1>4. ASSUME \A c \in Calls : pc'[c] # "dropped"
      PROVE  /\ \A t \in Turns :
                  /\ pc'[t] = "saved" =>
                       Alike(messages, Append(history, [turn |-> t, role |-> "user"]))'
                  /\ pc'[t] = "answered" =>
                       Alike(messages, Append(history, [turn |-> t, role |-> "assistant"]))'
             /\ \A c \in Calls : pc'[c] = "wiped" => messages' = <<>>
             /\ (\A c \in Calls : pc'[c] \notin HalfWay) => Alike(messages, history)'
  <2>1. \A c \in Calls : pc'[c] \in HalfWay \/ pc[c] \in HalfWay => pc'[c] = pc[c]
    BY <1>3, <1>4
  <2>2. /\ \A t \in Turns :
             /\ pc[t] = "saved" => Alike(messages, Append(history, [turn |-> t, role |-> "user"]))
             /\ pc[t] = "answered" =>
                  Alike(messages, Append(history, [turn |-> t, role |-> "assistant"]))
        /\ \A c \in Calls : pc[c] = "wiped" => messages = <<>>
        /\ (\A c \in Calls : pc[c] \notin HalfWay) => Alike(messages, history)
    BY <1>3, <1>4 DEF TalkInv
  <2>3. \A c \in Calls : pc'[c] \in HalfWay => pc'[c] = pc[c]
    BY <2>1
  <2>4. (\A c \in Calls : pc'[c] \notin HalfWay) => \A c \in Calls : pc[c] \notin HalfWay
    BY <2>1
  <2>5. /\ \A t \in Turns : pc'[t] \in HalfWay => pc'[t] = pc[t]
        /\ "saved" \in HalfWay /\ "answered" \in HalfWay /\ "wiped" \in HalfWay
    BY <2>3 DEF Calls, HalfWay
  <2>. QED  BY <1>1, <2>2, <2>3, <2>4, <2>5 DEF Alike
<1>. QED  BY <1>2, <1>4 DEF TalkInv


LEMMA ListeningMove ==
  ASSUME GateInv, TalkInv, UNCHANGED <<history, messages>>, Counted, NEW c \in Calls,
         NEW from, NEW to, Goto(c, from, to),
         \/ to = "dropped"
         \/ from \notin HalfWay \cup {"dropped"} /\ to \notin HalfWay
  PROVE  TalkInv'
  BY Listens DEF Goto, GateInv

\* Between two steps of the call at the gate that are half way nothing is.
LEMMA NothingPending ==
  ASSUME GateInv, TalkInv, NEW c \in Calls, pc[c] \in Inside \ HalfWay,
         \A d \in Calls : pc[d] # "dropped"
  PROVE  Alike(messages, history)
<1>1. \A d \in Calls : pc[d] \notin HalfWay
  BY OthersOutside DEF Inside, HalfWay
<1>. QED  BY <1>1 DEF TalkInv

\* What the call at the gate makes of the conversation.
Owes(c, to) ==
    /\ messages' \in Seq(Message) /\ history' \in Seq(Message)
    /\ to = "answered" =>
        messages' # <<>> /\ Last(messages') = [turn |-> c, role |-> "assistant"]
    /\ (\A d \in Calls : pc[d] # "dropped") =>
        /\ to = "saved" => Alike(messages, Append(history, [turn |-> c, role |-> "user"]))'
        /\ to = "answered" =>
             Alike(messages, Append(history, [turn |-> c, role |-> "assistant"]))'
        /\ to = "wiped" => messages' = <<>>
        /\ to \notin HalfWay => Alike(messages, history)'

LEMMA Talks ==
  ASSUME GateInv, TalkInv, Counted, NEW c \in Calls, pc[c] \in Inside,
         NEW from, NEW to, Goto(c, from, to), to # "dropped", Owes(c, to)
  PROVE  TalkInv'
<1>1. /\ pc'[c] = to /\ \A d \in Calls \ {c} : pc'[d] = pc[d]
      /\ failures' \in Nat /\ from # "dropped" /\ pc[c] = from
  BY CountedFailures DEF Goto, GateInv, Inside
<1>2. \A d \in Calls \ {c} : pc[d] \notin HalfWay
  BY OthersOutside DEF Inside, HalfWay
<1>3. (\A d \in Calls : pc'[d] # "dropped") => \A d \in Calls : pc[d] # "dropped"
  BY <1>1
<1>4. \A t \in Turns : pc'[t] \in HalfWay => t = c
  BY <1>1, <1>2 DEF Calls
<1>5. \A d \in Calls : pc'[d] \in HalfWay => d = c
  BY <1>1, <1>2
<1>6. "saved" \in HalfWay /\ "answered" \in HalfWay /\ "wiped" \in HalfWay
  BY DEF HalfWay
<1>7. \A t \in Turns : pc'[t] = "answered" =>
        messages' # <<>> /\ Last(messages') = [turn |-> t, role |-> "assistant"]
  BY <1>1, <1>4, <1>6 DEF Owes
<1>8. ASSUME \A d \in Calls : pc'[d] # "dropped"
      PROVE  /\ \A t \in Turns :
                  /\ pc'[t] = "saved" =>
                       Alike(messages, Append(history, [turn |-> t, role |-> "user"]))'
                  /\ pc'[t] = "answered" =>
                       Alike(messages, Append(history, [turn |-> t, role |-> "assistant"]))'
             /\ \A d \in Calls : pc'[d] = "wiped" => messages' = <<>>
             /\ (\A d \in Calls : pc'[d] \notin HalfWay) => Alike(messages, history)'
  BY <1>1, <1>3, <1>4, <1>5, <1>6, <1>8 DEF Owes
<1>. QED  BY <1>1, <1>7, <1>8 DEF TalkInv, Owes

LEMMA StatementsCount ==
  ASSUME NEW ok \in BOOLEAN, Statement(ok)
  PROVE  Counted /\ (ok => failures' = failures)
  BY DEF Statement, Counted

LEMMA TurnTalks ==
  ASSUME GateInv, TalkInv, NEW t \in Turns,
         SaveInstruction(t) \/ Remember(t) \/ SaveAnswer(t) \/ Publish(t)
  PROVE  TalkInv'
<1>. USE DEF bounds
<1>. DEFINE asked == [turn |-> t, role |-> "user"]
            told == [turn |-> t, role |-> "assistant"]
<1>0. /\ t \in Calls /\ asked \in Message /\ told \in Message
      /\ messages \in Seq(Message) /\ history \in Seq(Message) /\ failures \in Nat
  BY DEF Calls, Message, TalkInv
<1>1. /\ Append(messages, asked) \in Seq(Message)
      /\ Append(messages, told) \in Seq(Message)
      /\ Append(history, asked) \in Seq(Message)
      /\ Append(history, told) \in Seq(Message)
      /\ Append(messages, told) # <<>> /\ Last(Append(messages, told)) = told
  BY <1>0 DEF Last
<1>2. IsSuffix(messages, history) =>
        /\ IsSuffix(Append(messages, asked), Append(history, asked))
        /\ IsSuffix(Append(messages, told), Append(history, told))
  BY <1>0, SuffixFacts
<1>3. CASE SaveInstruction(t)
  <2>1. /\ pc[t] = "started" /\ pc[t] \in Inside \ HalfWay /\ history' = history
    BY <1>3 DEF SaveInstruction, Goto, Inside, HalfWay, memory
  <2>2. CASE Statement(FALSE) /\ Goto(t, "started", "unsaved") /\ messages' = messages
    BY <1>0, <2>1, <2>2, StatementsCount, ListeningMove DEF HalfWay
  <2>3. CASE /\ Statement(TRUE) /\ Goto(t, "started", "saved")
             /\ messages' = Append(messages, asked)
    <3>1. Counted /\ failures' = failures
      BY <2>3, StatementsCount
    <3>2. Owes(t, "saved")
      BY <1>0, <1>1, <1>2, <2>1, <2>3, <3>1, NothingPending DEF Owes, Alike, HalfWay
    <3>. QED  BY <1>0, <2>1, <2>3, <3>1, <3>2, Talks
  <2>. QED  BY <1>3, <2>2, <2>3 DEF SaveInstruction
<1>4. CASE Remember(t)
  <2>1. /\ Goto(t, "saved", "select") /\ history' = Append(history, asked)
        /\ messages' = messages /\ failures' = failures /\ Counted
        /\ pc[t] = "saved" /\ pc[t] \in Inside
    BY <1>4 DEF Remember, Counted, Goto, Inside
  <2>2. Owes(t, "select")
    BY <1>0, <1>1, <2>1 DEF Owes, Alike, TalkInv
  <2>. QED  BY <1>0, <2>1, <2>2, Talks
<1>5. CASE SaveAnswer(t)
  <2>1. pc[t] = "idle" /\ pc[t] \in Inside \ HalfWay /\ history' = history
    BY <1>5 DEF SaveAnswer, Return, Goto, Inside, HalfWay
  <2>2. CASE Statement(FALSE) /\ Goto(t, "idle", "done") /\ messages' = messages
    BY <1>0, <2>1, <2>2, StatementsCount, ListeningMove DEF HalfWay
  <2>3. CASE /\ Statement(TRUE) /\ Goto(t, "idle", "answered")
             /\ messages' = Append(messages, told)
    <3>1. Counted /\ failures' = failures
      BY <2>3, StatementsCount
    <3>2. Owes(t, "answered")
      BY <1>0, <1>1, <1>2, <2>1, <2>3, <3>1, NothingPending DEF Owes, Alike, HalfWay
    <3>. QED  BY <1>0, <2>1, <2>3, <3>1, <3>2, Talks
  <2>. QED  BY <1>5, <2>2, <2>3 DEF SaveAnswer, Return
<1>6. CASE Publish(t)
  <2>1. /\ Goto(t, "answered", "done") /\ history' = Append(history, told)
        /\ messages' = messages /\ failures' = failures /\ Counted
        /\ pc[t] = "answered" /\ pc[t] \in Inside
    BY <1>6 DEF Publish, Return, Counted, Goto, Inside
  <2>2. Owes(t, "done")
    BY <1>0, <1>1, <2>1 DEF Owes, Alike, TalkInv
  <2>. QED  BY <1>0, <2>1, <2>2, Talks
<1>. QED  BY <1>3, <1>4, <1>5, <1>6

LEMMA TurnListens ==
  ASSUME GateInv, TalkInv, NEW t \in Turns, Submit(t),
         ~SaveInstruction(t), ~Remember(t), ~SaveAnswer(t), ~Publish(t)
  PROVE  TalkInv'
<1>. USE DEF bounds, memory, HalfWay
<1>0. t \in Calls
  BY DEF Calls
<1>1. CASE Check(t) \/ Enter(t) \/ Activate(t)
  <2>1. /\ UNCHANGED <<history, messages, failures>> /\ Counted
        /\ \E from \in {"new", "checked", "gated"}, to \in {"done", "checked", "gated", "active"} :
             Goto(t, from, to)
    BY <1>1 DEF Check, Enter, Activate, Counted, Goto
  <2>. QED  BY <1>0, <2>1, ListeningMove
<1>2. CASE Start(t) \/ Refuse(t) \/ BecomeIdle(t)
  <2>1. /\ UNCHANGED <<history, messages>> /\ Counted
        /\ \E from \in {"active", "unsaved", "cleared"}, to \in {"started", "unsettled", "done", "idle"} :
             Goto(t, from, to)
    BY <1>2, StatementsCount DEF Start, Refuse, BecomeIdle, SetStatus
  <2>. QED  BY <1>0, <2>1, ListeningMove
<1>3. CASE Poll(t) \/ ObserveCancel(t) \/ Wait(t) \/ Answer(t) \/ TimeOut(t) \/ Deactivate(t) \/ Report(t)
  <2>1. /\ UNCHANGED <<history, messages, failures>> /\ Counted
        /\ \E from \in {"select", "chat", "swept", "idle"}, to \in {"chat", "select", "ended", "cleared", "done"} :
             Goto(t, from, to)
    BY <1>3 DEF Poll, ObserveCancel, Wait, Answer, TimeOut, Deactivate, Report, Return, End, Counted
  <2>. QED  BY <1>0, <2>1, ListeningMove
<1>4. CASE Err(t) \/ Sweep(t)
  <2>1. /\ UNCHANGED <<history, messages>> /\ Counted
        /\ \E from \in {"chat", "ended"}, to \in {"ended", "swept"} : Goto(t, from, to)
    BY <1>4, StatementsCount DEF Err, Sweep, End, Counted
  <2>. QED  BY <1>0, <2>1, ListeningMove
<1>5. CASE BeginStep(t) \/ StopStep(t)
  BY <1>5, Listens DEF BeginStep, StopStep, Counted
<1>. QED  BY <1>1, <1>2, <1>3, <1>4, <1>5 DEF Submit

LEMMA CommandTalks ==
  ASSUME GateInv, TalkInv, NEW c \in Commands, Command(c)
  PROVE  TalkInv'
<1>. USE DEF bounds, memory
<1>0. /\ c \in Calls /\ messages \in Seq(Message) /\ history \in Seq(Message)
      /\ failures \in Nat /\ <<>> \in Seq(Message)
      /\ IsSuffix(<<>>, history) /\ IsSuffix(<<>>, <<>>)
  <2>1. /\ c \in Calls /\ messages \in Seq(Message) /\ history \in Seq(Message)
        /\ failures \in Nat
    BY DEF Calls, TalkInv
  <2>2. <<>> \in Seq(Message) /\ IsSuffix(<<>>, history)
    BY <2>1, SilenceEnds
  <2>3. IsSuffix(<<>>, <<>>)
    BY <2>2, SilenceEnds
  <2>. QED  BY <2>1, <2>2, <2>3
<1>1. CASE Take(c) \/ Manage(c)
  <2>1. /\ UNCHANGED <<history, messages, failures>> /\ Counted
        /\ \E from \in {"new", "gated"}, to \in {"gated", "done"} : Goto(c, from, to)
    BY <1>1 DEF Take, Manage, Counted
  <2>. QED  BY <1>0, <2>1, ListeningMove DEF HalfWay
<1>2. CASE WipeRows(c)
  <2>1. pc[c] = "gated" /\ pc[c] \in Inside \ HalfWay /\ history' = history
    BY <1>2 DEF WipeRows, Goto, Inside, HalfWay
  <2>2. CASE Statement(TRUE) /\ Goto(c, "gated", "wiped") /\ messages' = <<>>
    <3>1. Owes(c, "wiped")
      BY <1>0, <2>1, <2>2 DEF Owes, HalfWay
    <3>. QED  BY <1>0, <2>1, <2>2, <3>1, StatementsCount, Talks
  <2>3. CASE /\ Statement(FALSE) /\ Goto(c, "gated", "done")
             /\ messages' \in {messages, <<>>}
    <3>1. failures' = failures + 1 /\ failures' # 0
      BY <1>0, <2>3 DEF Statement
    <3>2. Owes(c, "done")
      BY <1>0, <2>1, <2>3, <3>1, NothingPending DEF Owes, Alike
    <3>. QED  BY <1>0, <2>1, <2>3, <3>2, StatementsCount, Talks
  <2>. QED  BY <1>2, <2>2, <2>3 DEF WipeRows
<1>3. CASE WipeMemory(c)
  <2>1. /\ Goto(c, "wiped", "done") /\ history' = <<>> /\ messages' = messages
        /\ failures' = failures /\ Counted /\ pc[c] = "wiped" /\ pc[c] \in Inside
    BY <1>3 DEF WipeMemory, Counted, Goto, Inside
  <2>2. Owes(c, "done")
    BY <1>0, <2>1 DEF Owes, Alike, TalkInv
  <2>. QED  BY <1>0, <2>1, <2>2, Talks
<1>. QED  BY <1>1, <1>2, <1>3 DEF Command

LEMMA TalkStep == GateInv /\ TalkInv /\ [Next]_vars => TalkInv'
<1>. SUFFICES ASSUME GateInv, TalkInv, [Next]_vars PROVE TalkInv'
  OBVIOUS
<1>. USE DEF memory, bounds
<1>1. ASSUME NEW k \in Closers, Close(k) PROVE TalkInv'
  <2>1. CASE StartClose(k)
    BY <2>1, ListeningMove DEF StartClose, Counted, HalfWay, Calls
  <2>2. CASE EndClose(k)
    <3>1. /\ UNCHANGED <<history, messages>> /\ Counted
          /\ \E to \in {"done", "unsettled"} : Goto(k, "waiting", to)
      BY <2>2, StatementsCount DEF EndClose, SetStatus
    <3>. QED  BY <3>1, ListeningMove DEF HalfWay, Calls
  <2>. QED  BY <1>1, <2>1, <2>2 DEF Close
<1>2. ASSUME NEW c \in Calls, Drop(c) PROVE TalkInv'
  BY <1>2, ListeningMove DEF Drop, Goto, Counted
<1>3. CASE Cancel \/ UNCHANGED vars
  BY <1>3, Listens DEF Cancel, vars, Counted
<1>4. CASE Reopen
  <2>1. /\ history' = messages /\ messages' = messages /\ failures' = failures
        /\ \A c \in Calls : /\ pc'[c] = pc[c] \/ pc'[c] = "lost"
                            /\ pc'[c] \notin HalfWay
    BY <1>4 DEF Reopen, Final, HalfWay
  <2>2. messages \in Seq(Message) /\ IsSuffix(messages, messages)
    BY SuffixIs DEF TalkInv
  <2>3. Alike(messages, history)'
    BY <2>1, <2>2 DEF Alike
  <2>. QED  BY <2>1, <2>2, <2>3 DEF TalkInv, HalfWay, Calls
<1>. QED
  BY <1>1, <1>2, <1>3, <1>4, TurnTalks, TurnListens, CommandTalks DEF Next

LEMMA TalkInvHolds == Spec => []TalkInv
<1>1. Init => TalkInv
  <2>. SUFFICES ASSUME Init PROVE TalkInv
    OBVIOUS
  <2>1. messages \in Seq(Message) /\ history = messages /\ failures = 0
    BY DEF Init
  <2>2. IsSuffix(messages, history)
    BY <2>1, SuffixIs
  <2>. QED  BY <2>1, <2>2 DEF Init, TalkInv, Alike, Calls
<1>. QED  BY <1>1, TalkStep, GateHolds, PTL DEF Spec

\* Between calls of which none was dropped, memory ends with the conversation
\* that is stored, and without a failure they are the same, whatever turns,
\* cleanups, closes and restarts came before.
THEOREM HistoryHolds == Spec => []HistoryIsStored
<1>1. GateInv /\ TalkInv => HistoryIsStored
  <2>. SUFFICES ASSUME GateInv, TalkInv, gate = None, \A c \in Calls : pc[c] # "dropped"
       PROVE  Alike(messages, history)
    BY DEF HistoryIsStored, Quiet, Alike
  <2>1. \A c \in Calls : pc[c] \notin HalfWay
    BY SessionAssumption DEF GateInv, Inside, HalfWay
  <2>. QED  BY <2>1 DEF TalkInv
<1>. QED  BY <1>1, GateHolds, TalkInvHolds, PTL

\* Only Publish tells of a completed turn.
LEMMA CompletedIsPublished ==
  ASSUME GateInv, EventInv, [Next]_vars, NEW t \in Turns,
         Len(events') > Len(events), Last(events') = [turn |-> t, kind |-> "Completed"]
  PROVE  Publish(t)
<1>. USE DEF memory, ui
<1>1. events \in Seq(Event) /\ Len(events) \in Nat /\ events' # events
  BY DEF EventInv
<1>2. \A e : events' = Append(events, e) => Last(events') = e
  BY <1>1 DEF Last
<1>3. ASSUME NEW u \in Turns, Submit(u) PROVE Publish(t)
  <2>1. ~Check(u) /\ ~Enter(u) /\ ~Activate(u) /\ ~SaveInstruction(u) /\ ~Remember(u)
    BY <1>1 DEF Check, Enter, Activate, SaveInstruction, Remember
  <2>2. ~Poll(u) /\ ~ObserveCancel(u) /\ ~BeginStep(u) /\ ~Wait(u) /\ ~StopStep(u)
    BY <1>1 DEF Poll, ObserveCancel, BeginStep, Wait, StopStep
  <2>3. ~Answer(u) /\ ~Err(u) /\ ~TimeOut(u) /\ ~Sweep(u) /\ ~Deactivate(u) /\ ~BecomeIdle(u)
    BY <1>1 DEF Answer, Err, TimeOut, Sweep, Deactivate, BecomeIdle
  <2>4. ASSUME NEW kind \in {"Started", "Failed", "Cancelled"}, NEW i,
               events' = Append(events, [turn |-> i, kind |-> kind])
        PROVE  FALSE
    BY <1>2, <2>4
  <2>5. ~Start(u) /\ ~Refuse(u) /\ ~SaveAnswer(u) /\ ~Report(u)
    BY <1>1, <2>4 DEF Start, Refuse, SaveAnswer, Report, Emit
  <2>6. Publish(u)
    BY <1>3, <2>1, <2>2, <2>3, <2>5 DEF Submit
  <2>7. uiTurn = u
    BY <2>6 DEF EventInv, Told, During, Publish, Return, Goto
  <2>8. u = t
    BY <1>2, <2>6, <2>7 DEF Publish, Emit
  <2>. QED  BY <2>6, <2>8
<1>4. ASSUME NEW c \in Commands, Command(c) PROVE FALSE
  BY <1>1, <1>4 DEF Command, Take, Manage, WipeRows, WipeMemory
<1>5. ASSUME NEW k \in Closers, Close(k) PROVE FALSE
  BY <1>1, <1>5 DEF Close, StartClose, EndClose
<1>6. ASSUME NEW c \in Calls, Drop(c) PROVE FALSE
  BY <1>1, <1>6 DEF Drop
<1>7. ~Cancel /\ ~Reopen /\ ~UNCHANGED vars
  BY <1>1 DEF Cancel, Reopen, vars
<1>. QED
  BY <1>3, <1>4, <1>5, <1>6, <1>7 DEF Next

\* Whoever is told that a turn completed finds its answer at the end of the
\* conversation, in memory and stored, whatever failed or raced before.
THEOREM AnswerStoredHolds == Spec => AnswerStored
<1>1. GateInv /\ EventInv /\ TalkInv /\ [Next]_vars
        => \A t \in Turns :
             Len(events') > Len(events) /\ Last(events') = [turn |-> t, kind |-> "Completed"]
             => /\ Last(messages') = [turn |-> t, role |-> "assistant"]
                /\ Last(history') = Last(messages')
  <2>. SUFFICES ASSUME GateInv, EventInv, TalkInv, [Next]_vars, NEW t \in Turns,
                       Len(events') > Len(events),
                       Last(events') = [turn |-> t, kind |-> "Completed"]
       PROVE  /\ Last(messages') = [turn |-> t, role |-> "assistant"]
              /\ Last(history') = Last(messages')
    OBVIOUS
  <2>1. Publish(t)
    BY CompletedIsPublished
  <2>2. /\ messages' = messages /\ pc[t] = "answered" /\ history \in Seq(Message)
        /\ history' = Append(history, [turn |-> t, role |-> "assistant"])
    BY <2>1 DEF Publish, Return, Goto, TalkInv
  <2>. QED  BY <2>2 DEF TalkInv, Last, Message
<1>. QED
  BY <1>1, GateHolds, EventInvHolds, TalkInvHolds, PTL DEF Spec, AnswerStored

-----------------------------------------------------------------------------
(***************************************************************************)
(* Answers follow their instructions: from the saving of its instruction to  *)
(* that of its answer the turn owns the gate, and nobody else adds a row or   *)
(* takes one away.  Memory lags behind the rows by one step of the turn.      *)
(***************************************************************************)
Follows(talk) ==
    \A i \in DOMAIN talk : talk[i].role = "assistant" =>
        i > 1 /\ talk[i - 1] = [turn |-> talk[i].turn, role |-> "user"]
Asked(talk, t) ==
    Len(talk) > 0 /\ talk[Len(talk)] = [turn |-> t, role |-> "user"]

Stored == {"saved", "select", "chat", "ended", "swept", "cleared", "idle"}
Remembered == {"select", "chat", "ended", "swept", "cleared", "idle", "answered"}

FollowInv ==
    /\ Follows(messages) /\ Follows(history)
    /\ \A t \in Turns : /\ pc[t] \in Stored => Asked(messages, t)
                        /\ pc[t] \in Remembered => Asked(history, t)

\* One more message: an instruction, or the answer to the last.
LEMMA FollowsOn ==
  ASSUME NEW talk \in Seq(Message), Follows(talk), NEW m \in Message,
         m.role = "user" \/ Asked(talk, m.turn)
  PROVE  /\ Follows(Append(talk, m))
         /\ \A t \in Turns : m = [turn |-> t, role |-> "user"] => Asked(Append(talk, m), t)
<1>. DEFINE n == Len(talk)  more == Append(talk, m)
<1>1. /\ n \in Nat /\ DOMAIN talk = 1..n /\ DOMAIN more = 1..(n + 1) /\ Len(more) = n + 1
      /\ more[n + 1] = m /\ \A i \in 1..n : more[i] = talk[i]
  OBVIOUS
<1>2. Asked(talk, m.turn) => n > 0 /\ talk[n] = [turn |-> m.turn, role |-> "user"]
  BY DEF Asked
<1>3. m.role = "user" => m.role # "assistant"
  OBVIOUS
<1>. HIDE DEF n, more
<1>4. ASSUME NEW i \in 1..(n + 1), more[i].role = "assistant"
      PROVE  i > 1 /\ more[i - 1] = [turn |-> more[i].turn, role |-> "user"]
  <2>1. CASE i = n + 1
    <3>1. n > 0 /\ talk[n] = [turn |-> m.turn, role |-> "user"]
      BY <1>1, <1>2, <1>3, <1>4, <2>1
    <3>2. i > 1 /\ i - 1 = n /\ n \in 1..n
      BY <1>1, <2>1, <3>1
    <3>. QED  BY <1>1, <2>1, <3>1, <3>2
  <2>2. CASE i \in 1..n
    <3>1. talk[i].role = "assistant" /\ more[i] = talk[i]
      BY <1>1, <1>4, <2>2
    <3>2. i > 1 /\ talk[i - 1] = [turn |-> talk[i].turn, role |-> "user"]
      BY <1>1, <2>2, <3>1 DEF Follows
    <3>3. i - 1 \in 1..n
      BY <1>1, <2>2, <3>2
    <3>. QED  BY <1>1, <3>1, <3>2, <3>3
  <2>. QED  BY <1>1, <2>1, <2>2
<1>5. Follows(more)
  BY <1>1, <1>4 DEF Follows
<1>6. \A t \in Turns : m = [turn |-> t, role |-> "user"] => Asked(more, t)
  BY <1>1 DEF Asked
<1>. QED  BY <1>5, <1>6 DEF more

\* What says nothing, and takes no call to where something was said.
LEMMA FollowSilence ==
  ASSUME FollowInv, UNCHANGED <<history, messages>>,
         \A t \in Turns : /\ pc'[t] \in Stored => pc[t] \in Stored
                          /\ pc'[t] \in Remembered => pc[t] \in Remembered
  PROVE  FollowInv'
  BY DEF FollowInv, Follows, Asked

LEMMA FollowMove ==
  ASSUME GateInv, FollowInv, UNCHANGED <<history, messages>>,
         NEW c \in Calls, NEW from, NEW to, Goto(c, from, to),
         to \in Stored => from \in Stored, to \in Remembered => from \in Remembered
  PROVE  FollowInv'
<1>1. ASSUME NEW t \in Turns
      PROVE  /\ pc'[t] \in Stored => pc[t] \in Stored
             /\ pc'[t] \in Remembered => pc[t] \in Remembered
  <2>1. pc[c] = from /\ pc'[c] = to /\ (t # c => pc'[t] = pc[t])
    BY DEF Goto, GateInv, Calls
  <2>. QED  BY <2>1
<1>. QED  BY <1>1, FollowSilence

\* What the call at the gate says or takes back.
LEMMA FollowSpeech ==
  ASSUME GateInv, FollowInv, NEW c \in Calls, pc[c] \in Inside,
         NEW from, NEW to, Goto(c, from, to),
         Follows(messages'), Follows(history'),
         c \in Turns /\ to \in Stored => Asked(messages', c),
         c \in Turns /\ to \in Remembered => Asked(history', c)
  PROVE  FollowInv'
<1>1. pc'[c] = to /\ \A t \in Turns \ {c} : pc'[t] = pc[t]
  BY DEF Goto, GateInv, Calls
<1>2. \A t \in Turns \ {c} : pc[t] \notin Stored \cup Remembered
  BY OthersOutside DEF Calls, Inside, Stored, Remembered
<1>3. ASSUME NEW t \in Turns
      PROVE  /\ pc'[t] \in Stored => Asked(messages', t)
             /\ pc'[t] \in Remembered => Asked(history', t)
  BY <1>1, <1>2
<1>. QED  BY <1>3 DEF FollowInv

LEMMA TurnFollows ==
  ASSUME GateInv, TalkInv, FollowInv, NEW t \in Turns, Submit(t)
  PROVE  FollowInv'
<1>. DEFINE asked == [turn |-> t, role |-> "user"]
            told == [turn |-> t, role |-> "assistant"]
<1>0. /\ t \in Calls /\ asked \in Message /\ told \in Message
      /\ messages \in Seq(Message) /\ history \in Seq(Message)
      /\ Follows(messages) /\ Follows(history)
      /\ asked.role = "user" /\ told.turn = t
  BY DEF Calls, Message, TalkInv, FollowInv
<1>1. CASE Check(t) \/ Enter(t) \/ Activate(t)
  <2>1. UNCHANGED <<history, messages>> /\ \E from, to \in Points \ (Stored \cup Remembered) : Goto(t, from, to)
    <3>1. {"new", "checked", "gated", "done", "active"} \subseteq Points \ (Stored \cup Remembered)
      BY DEF Points, Final, Stored, Remembered
    <3>. QED  BY <1>1, <3>1 DEF Check, Enter, Activate, Goto, memory
  <2>. QED  BY <1>0, <2>1, FollowMove
<1>2. CASE Start(t) \/ Refuse(t)
  <2>1. /\ UNCHANGED <<history, messages>>
        /\ \E from, to \in {"active", "started", "unsettled", "unsaved", "done"} : Goto(t, from, to)
    BY <1>2 DEF Start, Refuse
  <2>. QED  BY <1>0, <2>1, FollowMove DEF Stored, Remembered
<1>3. CASE SaveInstruction(t)
  <2>1. pc[t] = "started" /\ pc[t] \in Inside /\ history' = history
    BY <1>3 DEF SaveInstruction, Goto, Inside, memory
  <2>2. CASE Goto(t, "started", "unsaved") /\ messages' = messages
    BY <1>0, <2>1, <2>2, FollowMove DEF Stored, Remembered
  <2>3. CASE Goto(t, "started", "saved") /\ messages' = Append(messages, asked)
    <3>1. Follows(messages') /\ Asked(messages', t)
      BY <1>0, <2>3, FollowsOn
    <3>. QED  BY <1>0, <2>1, <2>3, <3>1, FollowSpeech DEF Remembered
  <2>. QED  BY <1>3, <2>2, <2>3 DEF SaveInstruction
<1>4. CASE Remember(t)
  <2>1. /\ Goto(t, "saved", "select") /\ pc[t] = "saved" /\ pc[t] \in Inside
        /\ messages' = messages /\ history' = Append(history, asked)
    BY <1>4 DEF Remember, Goto, Inside
  <2>2. Follows(history') /\ Asked(history', t) /\ Asked(messages, t)
    BY <1>0, <2>1, FollowsOn DEF FollowInv, Stored
  <2>. QED  BY <1>0, <2>1, <2>2, FollowSpeech
<1>5. CASE \/ Poll(t) \/ ObserveCancel(t) \/ Wait(t) \/ Answer(t) \/ Err(t) \/ TimeOut(t)
           \/ Sweep(t) \/ Deactivate(t)
  <2>1. /\ UNCHANGED <<history, messages>>
        /\ \E from, to \in {"select", "chat", "ended", "swept", "cleared"} : Goto(t, from, to)
    BY <1>5 DEF Poll, ObserveCancel, Wait, Answer, Err, TimeOut, Sweep, Deactivate, End, memory
  <2>. QED  BY <1>0, <2>1, FollowMove DEF Stored, Remembered
<1>6. CASE BeginStep(t) \/ StopStep(t)
  BY <1>6, FollowSilence DEF BeginStep, StopStep, memory
<1>7. CASE BecomeIdle(t) \/ Report(t)
  <2>1. /\ UNCHANGED <<history, messages>>
        /\ \E from \in {"cleared", "idle"}, to \in {"idle", "unsettled", "done"} : Goto(t, from, to)
    BY <1>7 DEF BecomeIdle, Report, Return
  <2>. QED  BY <1>0, <2>1, FollowMove DEF Stored, Remembered
<1>8. CASE SaveAnswer(t)
  <2>1. pc[t] = "idle" /\ pc[t] \in Inside /\ history' = history
    BY <1>8 DEF SaveAnswer, Return, Goto, Inside
  <2>2. Asked(messages, t) /\ Asked(history, t)
    BY <2>1 DEF FollowInv, Stored, Remembered
  <2>3. CASE Goto(t, "idle", "answered") /\ messages' = Append(messages, told)
    <3>1. Follows(messages')
      BY <1>0, <2>2, <2>3, FollowsOn
    <3>. QED  BY <1>0, <2>1, <2>2, <2>3, <3>1, FollowSpeech DEF Stored
  <2>4. CASE Goto(t, "idle", "done") /\ messages' = messages
    BY <1>0, <2>1, <2>4, FollowMove DEF Stored, Remembered
  <2>. QED  BY <1>8, <2>3, <2>4 DEF SaveAnswer, Return
<1>9. CASE Publish(t)
  <2>1. /\ Goto(t, "answered", "done") /\ pc[t] = "answered" /\ pc[t] \in Inside
        /\ messages' = messages /\ history' = Append(history, told)
    BY <1>9 DEF Publish, Return, Goto, Inside
  <2>2. Asked(history, t)
    BY <2>1 DEF FollowInv, Remembered
  <2>3. Follows(history')
    BY <1>0, <2>1, <2>2, FollowsOn
  <2>. QED  BY <1>0, <2>1, <2>3, FollowSpeech DEF Stored, Remembered
<1>. QED
  BY <1>1, <1>2, <1>3, <1>4, <1>5, <1>6, <1>7, <1>8, <1>9 DEF Submit

LEMMA FollowStep == GateInv /\ TalkInv /\ FollowInv /\ [Next]_vars => FollowInv'
<1>. SUFFICES ASSUME GateInv, TalkInv, FollowInv, [Next]_vars PROVE FollowInv'
  OBVIOUS
<1>0. Follows(<<>>) /\ Follows(messages) /\ Follows(history)
  BY DEF Follows, FollowInv
<1>1. ASSUME NEW c \in Commands, Command(c) PROVE FollowInv'
  <2>0. c \in Calls /\ c \notin Turns
    BY SessionAssumption DEF Calls
  <2>1. CASE Take(c) \/ Manage(c)
    <3>1. /\ UNCHANGED <<history, messages>>
          /\ \E from \in {"new", "gated"}, to \in {"gated", "done"} : Goto(c, from, to)
      BY <2>1 DEF Take, Manage
    <3>. QED  BY <2>0, <3>1, FollowMove DEF Stored, Remembered
  <2>2. CASE WipeRows(c)
    <3>1. /\ messages' \in {messages, <<>>} /\ history' = history /\ pc[c] \in Inside
          /\ \E to \in {"wiped", "done"} : Goto(c, "gated", to)
      BY <2>2 DEF WipeRows, Goto, Inside
    <3>. QED  BY <1>0, <2>0, <3>1, FollowSpeech
  <2>3. CASE WipeMemory(c)
    <3>1. /\ messages' = messages /\ history' = <<>> /\ pc[c] \in Inside
          /\ Goto(c, "wiped", "done")
      BY <2>3 DEF WipeMemory, Goto, Inside
    <3>. QED  BY <1>0, <2>0, <3>1, FollowSpeech
  <2>. QED  BY <1>1, <2>1, <2>2, <2>3 DEF Command
<1>2. ASSUME NEW k \in Closers, Close(k) PROVE FollowInv'
  <2>1. /\ k \in Calls /\ UNCHANGED <<history, messages>>
        /\ \E from, to \in {"new", "waiting", "done", "unsettled"} : Goto(k, from, to)
    BY <1>2 DEF Close, StartClose, EndClose, Calls
  <2>. QED  BY <2>1, FollowMove DEF Stored, Remembered
<1>3. ASSUME NEW c \in Calls, Drop(c) PROVE FollowInv'
  <2>1. UNCHANGED <<history, messages>> /\ Goto(c, pc[c], "dropped")
    BY <1>3 DEF Drop, Goto
  <2>. QED  BY <2>1, FollowMove DEF Stored, Remembered
<1>4. CASE Cancel \/ UNCHANGED vars
  BY <1>4, FollowSilence DEF Cancel, vars, memory
<1>5. CASE Reopen
  <2>1. /\ messages' = messages /\ history' = messages
        /\ \A t \in Turns : pc'[t] \notin Stored \cup Remembered
    BY <1>5 DEF Reopen, Final, Stored, Remembered, Calls
  <2>. QED  BY <1>0, <2>1 DEF FollowInv
<1>. QED
  BY <1>1, <1>2, <1>3, <1>4, <1>5, TurnFollows DEF Next

\* In the rows and in memory every answer follows its own instruction directly,
\* whatever raced, failed, was cleared, dropped or lost.
THEOREM AnswersFollowHold == Spec => []AnswersFollowInstructions
<1>1. Init => FollowInv
  BY DEF Init, FollowInv, Follows, Stored, Remembered, Calls
<1>2. FollowInv => AnswersFollowInstructions
  BY DEF FollowInv, Follows, AnswersFollowInstructions
<1>. QED
  BY <1>1, <1>2, FollowStep, GateHolds, TalkInvHolds, PTL DEF Spec

-----------------------------------------------------------------------------
(***************************************************************************)
(* Cancellation.  A turn has no outcome before it ends, has one answer only   *)
(* if it completed, and completes only out of a poll, which looks at the      *)
(* token first.                                                               *)
(***************************************************************************)
Unasked == {"new", "checked", "gated"}
Undecided == Unasked \cup {"active", "started", "unsaved", "saved", "select", "chat"}

ServedInv == \A t \in Turns :
    /\ pc[t] \in Undecided => outcome[t] = None
    /\ pc[t] = "answered" => outcome[t] = "Completed"
    /\ Answered(t) => outcome[t] = "Completed"

\* Only a poll takes a turn into the runtime.
LEMMA IntoTheRuntime ==
  ASSUME GateInv, NEW t \in Turns, [Next]_vars, pc[t] # "chat", pc'[t] = "chat"
  PROVE  t \notin cancelled
<1>. USE DEF GateInv, Goto, memory
<1>0. t \in Calls /\ pc \in [Calls -> Points]
  BY DEF Calls
<1>1. ASSUME NEW u \in Turns, Submit(u) PROVE t \notin cancelled
  <2>1. ~Check(u) /\ ~Enter(u) /\ ~Activate(u) /\ ~Start(u) /\ ~SaveInstruction(u)
    BY <1>0 DEF Check, Enter, Activate, Start, SaveInstruction
  <2>2. ~Refuse(u) /\ ~Remember(u) /\ ~BeginStep(u) /\ ~Wait(u) /\ ~StopStep(u)
    BY <1>0 DEF Refuse, Remember, BeginStep, Wait, StopStep
  <2>3. ~Answer(u) /\ ~Err(u) /\ ~TimeOut(u) /\ ~Sweep(u) /\ ~Deactivate(u)
    BY <1>0 DEF Answer, Err, TimeOut, Sweep, Deactivate, End
  <2>4. ~BecomeIdle(u) /\ ~SaveAnswer(u) /\ ~Publish(u) /\ ~Report(u)
    BY <1>0 DEF BecomeIdle, SaveAnswer, Publish, Report, Return
  <2>5. ~ObserveCancel(u)
    BY <1>0 DEF ObserveCancel, End
  <2>6. Poll(u)
    BY <1>1, <2>1, <2>2, <2>3, <2>4, <2>5 DEF Submit
  <2>. QED  BY <1>0, <2>6 DEF Poll
<1>2. ASSUME NEW c \in Commands, Command(c) PROVE FALSE
  BY <1>0, <1>2 DEF Command, Take, Manage, WipeRows, WipeMemory
<1>3. ASSUME NEW k \in Closers, Close(k) PROVE FALSE
  BY <1>0, <1>3 DEF Close, StartClose, EndClose
<1>4. ASSUME NEW c \in Calls, Drop(c) PROVE FALSE
  BY <1>0, <1>4 DEF Drop
<1>5. ~Reopen /\ ~Cancel /\ ~UNCHANGED vars
  BY <1>0 DEF Reopen, Cancel, vars
<1>. QED
  BY <1>1, <1>2, <1>3, <1>4, <1>5 DEF Next

\* Where one call goes, as far as outcomes are concerned.
Onward(from, to) ==
    /\ to \in Undecided => from \in Undecided
    /\ to \in Unasked => from \in Unasked
    /\ to = "answered" => from = "answered"

\* What a step leaves of the outcomes: those that were reached, and no new
\* completion but out of a poll.
Served ==
    \A t \in Turns :
        /\ outcome[t] = "Completed" => outcome'[t] = "Completed"
        /\ outcome'[t] = "Completed" => outcome[t] = "Completed" \/ pc[t] = "chat"
        /\ pc'[t] \in Undecided => pc[t] \in Undecided /\ outcome'[t] = outcome[t]
        /\ pc'[t] \in Unasked => pc[t] \in Unasked
        /\ pc'[t] = "answered" => outcome[t] = "Completed"

LEMMA ServedMove ==
  ASSUME GateInv, ServedInv, NEW c \in Calls, NEW from, NEW to,
         Goto(c, from, to), Onward(from, to), UNCHANGED outcome
  PROVE  Served
<1>. SUFFICES ASSUME NEW t \in Turns
     PROVE  /\ outcome[t] = "Completed" => outcome'[t] = "Completed"
            /\ outcome'[t] = "Completed" => outcome[t] = "Completed" \/ pc[t] = "chat"
            /\ pc'[t] \in Undecided => pc[t] \in Undecided /\ outcome'[t] = outcome[t]
            /\ pc'[t] \in Unasked => pc[t] \in Unasked
            /\ pc'[t] = "answered" => outcome[t] = "Completed"
  BY DEF Served
<1>1. pc[c] = from /\ pc'[c] = to /\ (t # c => pc'[t] = pc[t])
  BY DEF Goto, GateInv, Calls
<1>. QED  BY <1>1 DEF Onward, ServedInv

\* A turn that ends, from where it had no outcome.
LEMMA ServedEnd ==
  ASSUME GateInv, RunnerInv, ServedInv, NEW t \in Turns, NEW from \in {"select", "chat"},
         NEW result, End(t, from, result), result = "Completed" => from = "chat"
  PROVE  Served
<1>1. /\ pc[t] = from /\ pc'[t] = "ended" /\ outcome'[t] = result /\ outcome[t] = None
      /\ \A u \in Turns \ {t} : pc'[u] = pc[u] /\ outcome'[u] = outcome[u]
  BY DEF End, Goto, GateInv, RunnerInv, ServedInv, Undecided, Calls
<1>2. None # "Completed"
  BY SessionAssumption
<1>. QED  BY <1>1, <1>2 DEF Served, ServedInv, Undecided, Unasked

LEMMA TurnServed ==
  ASSUME GateInv, RunnerInv, ServedInv, NEW t \in Turns, Submit(t)
  PROVE  Served
<1>0. t \in Calls
  BY DEF Calls
<1>1. CASE Check(t) \/ Enter(t) \/ Activate(t) \/ Start(t)
  <2>1. /\ UNCHANGED outcome
        /\ \/ \E to \in {"done", "checked"} : Goto(t, "new", to)
           \/ \E to \in {"done", "gated"} : Goto(t, "checked", to)
           \/ Goto(t, "gated", "active")
           \/ \E to \in {"started", "unsettled"} : Goto(t, "active", to)
    BY <1>1 DEF Check, Enter, Activate, Start, Goto
  <2>. QED  BY <1>0, <2>1, ServedMove DEF Onward, Undecided, Unasked
<1>2. CASE SaveInstruction(t) \/ Refuse(t) \/ Remember(t) \/ Poll(t) \/ Wait(t)
  <2>1. /\ UNCHANGED outcome
        /\ \/ \E to \in {"saved", "unsaved"} : Goto(t, "started", to)
           \/ Goto(t, "unsaved", "done")
           \/ Goto(t, "saved", "select")
           \/ Goto(t, "select", "chat")
           \/ Goto(t, "chat", "select")
    BY <1>2 DEF SaveInstruction, Refuse, Remember, Poll, Wait
  <2>. QED  BY <1>0, <2>1, ServedMove DEF Onward, Undecided, Unasked
<1>3. CASE ObserveCancel(t)
  BY <1>3, ServedEnd DEF ObserveCancel
<1>4. CASE Answer(t) \/ Err(t) \/ TimeOut(t)
  BY <1>4, ServedEnd DEF Answer, Err, TimeOut
<1>5. CASE BeginStep(t) \/ StopStep(t)
  BY <1>5 DEF BeginStep, StopStep, Served, ServedInv
<1>6. CASE Sweep(t)
  <2>1. CASE UNCHANGED outcome
    BY <1>0, <1>6, <2>1, ServedMove DEF Sweep, Onward, Undecided, Unasked
  <2>2. CASE outcome[t] # "Completed" /\ outcome' = [outcome EXCEPT ![t] = "Unswept"]
    <3>1. /\ pc'[t] = "swept" /\ outcome'[t] = "Unswept"
          /\ \A u \in Turns \ {t} : pc'[u] = pc[u] /\ outcome'[u] = outcome[u]
      BY <1>6, <2>2 DEF Sweep, Goto, GateInv, RunnerInv, Calls
    <3>. QED  BY <2>2, <3>1 DEF Served, ServedInv, Undecided, Unasked
  <2>. QED  BY <1>6, <2>1, <2>2 DEF Sweep
<1>7. CASE Deactivate(t) \/ BecomeIdle(t) \/ Report(t) \/ Publish(t)
  <2>1. /\ UNCHANGED outcome
        /\ \E from \in {"swept", "cleared", "idle", "answered"},
              to \in {"cleared", "idle", "unsettled", "done"} : Goto(t, from, to)
    BY <1>7 DEF Deactivate, BecomeIdle, Report, Publish, Return
  <2>. QED  BY <1>0, <2>1, ServedMove DEF Onward, Undecided, Unasked
<1>8. CASE SaveAnswer(t)
  <2>1. /\ UNCHANGED outcome /\ outcome[t] = "Completed"
        /\ \E to \in {"answered", "done"} : Goto(t, "idle", to)
    BY <1>8 DEF SaveAnswer, Return
  <2>2. /\ pc'[t] \in {"answered", "done"} /\ \A u \in Turns \ {t} : pc'[u] = pc[u]
    BY <2>1 DEF Goto, GateInv, Calls
  <2>. QED  BY <2>1, <2>2 DEF Served, ServedInv, Undecided, Unasked
<1>. QED
  BY <1>1, <1>2, <1>3, <1>4, <1>5, <1>6, <1>7, <1>8 DEF Submit

LEMMA StepServed ==
  ASSUME GateInv, RunnerInv, ServedInv, [Next]_vars
  PROVE  Served /\ cancelled \subseteq cancelled'
<1>. USE DEF memory
<1>1. ASSUME NEW t \in Turns, Submit(t) PROVE Served /\ UNCHANGED cancelled
  <2>1. CASE Check(t) \/ Enter(t) \/ Activate(t) \/ Start(t) \/ SaveInstruction(t) \/ Refuse(t)
    BY <1>1, <2>1, TurnServed DEF Check, Enter, Activate, Start, SaveInstruction, Refuse
  <2>2. CASE \/ Remember(t) \/ Poll(t) \/ ObserveCancel(t) \/ BeginStep(t) \/ Wait(t)
             \/ StopStep(t) \/ Answer(t) \/ Err(t)
    BY <2>2, <1>1, TurnServed DEF Remember, Poll, ObserveCancel, BeginStep, Wait, StopStep, Answer, Err
  <2>3. CASE \/ TimeOut(t) \/ Sweep(t) \/ Deactivate(t) \/ BecomeIdle(t) \/ SaveAnswer(t)
             \/ Publish(t) \/ Report(t)
    BY <2>3, <1>1, TurnServed DEF TimeOut, Sweep, Deactivate, BecomeIdle, SaveAnswer, Publish, Report
  <2>. QED  BY <1>1, <2>1, <2>2, <2>3 DEF Submit
<1>2. ASSUME NEW c \in Calls, UNCHANGED outcome, cancelled \subseteq cancelled',
             NEW from, NEW to, Goto(c, from, to), Onward(from, to)
      PROVE  Served /\ cancelled \subseteq cancelled'
  BY <1>2, ServedMove
<1>3. ASSUME NEW c \in Commands, Command(c) PROVE Served /\ cancelled \subseteq cancelled'
  <2>1. /\ UNCHANGED <<outcome, cancelled>> /\ c \in Calls
        /\ \/ \E to \in {"gated", "done"} : Goto(c, "new", to)
           \/ \E to \in {"wiped", "done"} : Goto(c, "gated", to)
           \/ Goto(c, "wiped", "done")
    BY <1>3 DEF Command, Take, Manage, WipeRows, WipeMemory, Calls
  <2>. QED  BY <1>2, <2>1 DEF Onward, Undecided, Unasked
<1>4. ASSUME NEW k \in Closers, Close(k) PROVE Served /\ cancelled \subseteq cancelled'
  <2>1. /\ UNCHANGED outcome /\ cancelled \subseteq cancelled' /\ k \in Calls
        /\ \E from \in {"new", "waiting"}, to \in {"waiting", "done", "unsettled"} : Goto(k, from, to)
    BY <1>4 DEF Close, StartClose, EndClose, Calls
  <2>. QED  BY <1>2, <2>1 DEF Onward, Undecided, Unasked
<1>5. ASSUME NEW c \in Calls, Drop(c) PROVE Served /\ cancelled \subseteq cancelled'
  <2>1. UNCHANGED <<outcome, cancelled>> /\ Goto(c, pc[c], "dropped")
    BY <1>5 DEF Drop, Goto
  <2>. QED  BY <1>2, <1>5, <2>1 DEF Onward, Undecided, Unasked
<1>6. CASE Reopen
  <2>1. /\ UNCHANGED <<outcome, cancelled>>
        /\ \A t \in Turns : pc'[t] = pc[t] \/ pc'[t] = "lost"
    BY <1>6 DEF Reopen, Calls
  <2>. QED  BY <2>1 DEF Served, ServedInv, Undecided, Unasked
<1>7. CASE Cancel \/ UNCHANGED vars
  <2>1. UNCHANGED <<outcome, pc>> /\ cancelled \subseteq cancelled'
    BY <1>7 DEF Cancel, vars
  <2>. QED  BY <2>1 DEF Served, ServedInv
<1>. QED
  BY <1>1, <1>3, <1>4, <1>5, <1>6, <1>7 DEF Next

\* An answer is new only if SaveAnswer or Publish gave it, of a turn that
\* completed.
LEMMA AnswersAreServed ==
  ASSUME GateInv, TalkInv, EventInv, ServedInv, [Next]_vars, NEW t \in Turns, Answered(t)'
  PROVE  Answered(t) \/ outcome[t] = "Completed"
<1>. USE DEF memory, ui
<1>. DEFINE told == [turn |-> t, role |-> "assistant"]
            news == [turn |-> t, kind |-> "Completed"]
            In(s, e) == \E i \in DOMAIN s : s[i] = e
<1>0. /\ messages \in Seq(Message) /\ history \in Seq(Message) /\ events \in Seq(Event)
      /\ Answered(t) <=> In(messages, told) \/ In(history, told) \/ In(events, news)
      /\ In(messages', told) \/ In(history', told) \/ In(events', news)
  BY DEF Answered, TalkInv, EventInv
<1>1. \A S : \A s \in Seq(S) : \A e, x : In(Append(s, x), e) => In(s, e) \/ e = x
  <2>. SUFFICES ASSUME NEW S, NEW s \in Seq(S), NEW e, NEW x, In(Append(s, x), e)
       PROVE  In(s, e) \/ e = x
    OBVIOUS
  <2>1. PICK i \in DOMAIN Append(s, x) : Append(s, x)[i] = e
    OBVIOUS
  <2>2. CASE i \in DOMAIN s
    BY <2>1, <2>2
  <2>3. CASE i = Len(s) + 1
    BY <2>1, <2>3
  <2>. QED  BY <2>1, <2>2, <2>3
<1>2. ~In(<<>>, told)
  OBVIOUS
<1>. HIDE DEF In
<1>3. ASSUME UNCHANGED <<messages, history, events>>
      PROVE  Answered(t)
  BY <1>0, <1>3
<1>4. ASSUME NEW u \in Turns, Submit(u) PROVE Answered(t) \/ outcome[t] = "Completed"
  <2>1. CASE \/ Check(u) \/ Enter(u) \/ Activate(u) \/ Poll(u) \/ ObserveCancel(u)
             \/ BeginStep(u) \/ Wait(u) \/ StopStep(u) \/ Answer(u) \/ Err(u) \/ TimeOut(u)
    BY <1>3, <2>1 DEF Check, Enter, Activate, Poll, ObserveCancel, BeginStep, Wait, StopStep,
       Answer, Err, TimeOut
  <2>2. CASE Sweep(u) \/ Deactivate(u) \/ BecomeIdle(u)
    BY <1>3, <2>2 DEF Sweep, Deactivate, BecomeIdle
  <2>3. CASE SaveInstruction(u) \/ Remember(u)
    <3>. DEFINE m == [turn |-> u, role |-> "user"]
    <3>1. m # told /\ events' = events
      BY <2>3 DEF SaveInstruction, Remember
    <3>2. messages' \in {messages, Append(messages, m)} /\ history' \in {history, Append(history, m)}
      BY <2>3 DEF SaveInstruction, Remember
    <3>. HIDE DEF m, told, news
    <3>. QED  BY <1>0, <1>1, <3>1, <3>2
  <2>4. CASE Start(u) \/ Refuse(u) \/ Report(u)
    <3>0. UNCHANGED <<messages, history>>
      BY <2>4 DEF Start, Refuse, Report
    <3>1. \/ events' = events
          \/ \E i, k : events' = Append(events, [turn |-> i, kind |-> k]) /\ k # "Completed"
      <4>. DEFINE end == IF outcome[u] = "Cancelled" THEN "Cancelled" ELSE "Failed"
      <4>1. Start(u) => \/ events' = events
                        \/ events' = Append(events, [turn |-> u, kind |-> "Started"])
        BY DEF Start
      <4>2. Refuse(u) => events' = Append(events, [turn |-> uiTurn, kind |-> "Failed"])
        BY DEF Refuse, Emit
      <4>3. Report(u) => events' = Append(events, [turn |-> uiTurn, kind |-> end])
        BY DEF Report, Emit
      <4>4. end # "Completed" /\ "Started" # "Completed" /\ "Failed" # "Completed"
        OBVIOUS
      <4>. HIDE DEF end
      <4>. QED  BY <2>4, <4>1, <4>2, <4>3, <4>4
    <3>2. In(events', news) => In(events, news)
      <4>1. CASE events' = events
        BY <4>1
      <4>2. ASSUME NEW i, NEW k, events' = Append(events, [turn |-> i, kind |-> k]), k # "Completed"
            PROVE  In(events', news) => In(events, news)
        <5>. DEFINE e == [turn |-> i, kind |-> k]
        <5>1. e # news
          BY <4>2
        <5>. HIDE DEF e, news
        <5>2. events' = Append(events, e)
          BY <4>2 DEF e
        <5>. QED  BY <1>0, <1>1, <5>1, <5>2
      <4>. QED  BY <3>1, <4>1, <4>2
    <3>. QED  BY <1>0, <3>0, <3>2
  <2>5. CASE SaveAnswer(u)
    <3>1. CASE u = t
      BY <2>5, <3>1 DEF SaveAnswer
    <3>2. CASE u # t
      <4>. DEFINE m == [turn |-> u, role |-> "assistant"]  e == [turn |-> uiTurn, kind |-> "Failed"]
      <4>1. m # told /\ e # news
        BY <3>2
      <4>2. /\ history' = history /\ messages' \in {messages, Append(messages, m)}
            /\ events' \in {events, Append(events, e)}
        BY <2>5 DEF SaveAnswer, Emit
      <4>. HIDE DEF m, e, told, news
      <4>. QED  BY <1>0, <1>1, <4>1, <4>2
    <3>. QED  BY <3>1, <3>2
  <2>6. CASE Publish(u)
    <3>1. pc[u] = "answered" /\ outcome[u] = "Completed" /\ uiTurn = u
      BY <2>6 DEF Publish, Return, Goto, ServedInv, EventInv, Told, During
    <3>2. CASE u = t
      BY <3>1, <3>2
    <3>3. CASE u # t
      <4>. DEFINE m == [turn |-> u, role |-> "assistant"]  e == [turn |-> u, kind |-> "Completed"]
      <4>1. m # told /\ e # news
        BY <3>3
      <4>2. messages' = messages /\ history' = Append(history, m) /\ events' = Append(events, e)
        BY <2>6, <3>1 DEF Publish, Emit
      <4>. HIDE DEF m, e, told, news
      <4>. QED  BY <1>0, <1>1, <4>1, <4>2
    <3>. QED  BY <3>2, <3>3
  <2>. QED  BY <1>4, <2>1, <2>2, <2>3, <2>4, <2>5, <2>6 DEF Submit
<1>5. ASSUME NEW c \in Commands, Command(c) PROVE Answered(t)
  <2>1. /\ messages' \in {messages, <<>>} /\ history' \in {history, <<>>} /\ events' = events
    BY <1>5 DEF Command, Take, Manage, WipeRows, WipeMemory
  <2>. QED  BY <1>0, <1>2, <2>1
<1>6. ASSUME NEW k \in Closers, Close(k) PROVE Answered(t)
  BY <1>3, <1>6 DEF Close, StartClose, EndClose
<1>7. ASSUME NEW c \in Calls, Drop(c) PROVE Answered(t)
  BY <1>3, <1>7 DEF Drop
<1>8. CASE Cancel \/ UNCHANGED vars
  BY <1>3, <1>8 DEF Cancel, vars
<1>9. CASE Reopen
  <2>1. messages' = messages /\ history' = messages /\ events' = events
    BY <1>9 DEF Reopen
  <2>. QED  BY <1>0, <2>1
<1>. QED
  BY <1>4, <1>5, <1>6, <1>7, <1>8, <1>9 DEF Next

LEMMA ServedStep ==
  GateInv /\ RunnerInv /\ TalkInv /\ EventInv /\ ServedInv /\ [Next]_vars => ServedInv'
<1>. SUFFICES ASSUME GateInv, RunnerInv, TalkInv, EventInv, ServedInv, [Next]_vars,
                     NEW t \in Turns
     PROVE  /\ pc'[t] \in Undecided => outcome'[t] = None
            /\ pc'[t] = "answered" => outcome'[t] = "Completed"
            /\ Answered(t)' => outcome'[t] = "Completed"
  BY DEF ServedInv
<1>1. Served
  BY StepServed
<1>2. Answered(t)' => Answered(t) \/ outcome[t] = "Completed"
  BY AnswersAreServed
<1>. QED  BY <1>1, <1>2 DEF Served, ServedInv

LEMMA RunnerInvHolds == Spec => []RunnerInv
<1>1. Init => RunnerInv
  BY DEF Init, RunnerInv, Outcomes
<1>. QED
  BY <1>1, RunnerStep, GateHolds, PTL DEF Spec

LEMMA ServedInvHolds == Spec => []ServedInv
<1>1. Init => ServedInv
  <2>. SUFFICES ASSUME Init, NEW t \in Turns
       PROVE  outcome[t] = None /\ pc[t] = "new" /\ ~Answered(t)
    BY DEF ServedInv
  <2>1. messages = <<>> /\ history = <<>> /\ events = <<>>
    BY DEF Init
  <2>. QED  BY <2>1 DEF Init, Answered, Calls
<1>. QED
  BY <1>1, ServedStep, GateHolds, RunnerInvHolds, TalkInvHolds, EventInvHolds, PTL DEF Spec

LEMMA UnservedStays ==
  ASSUME GateInv, RunnerInv, TalkInv, EventInv, ServedInv, [Next]_vars,
         NEW t \in Turns, Unserved(t)
  PROVE  Unserved(t)'
<1>1. Served /\ cancelled \subseteq cancelled'
  BY StepServed
<1>2. ~Answered(t)'
  BY AnswersAreServed DEF Unserved
<1>3. pc'[t] # "chat"
  BY IntoTheRuntime DEF Unserved
<1>4. outcome'[t] # "Completed" /\ pc'[t] \notin Unasked
  BY <1>1 DEF Served, Unserved, Unasked
<1>. QED  BY <1>1, <1>2, <1>3, <1>4 DEF Unserved, Unasked

\* A turn cancelled while its runtime is not being polled, and before it
\* completed, asks for nothing and has no answer from then on.
THEOREM CancelledIsHeededHolds == Spec => CancelledIsHeeded
<1>1. GateInv /\ RunnerInv /\ TalkInv /\ EventInv /\ ServedInv /\ [Next]_vars
        => \A t \in Turns : Unserved(t) => Unserved(t)'
  BY UnservedStays
<1>. QED
  BY <1>1, GateHolds, RunnerInvHolds, TalkInvHolds, EventInvHolds, ServedInvHolds, PTL
     DEF Spec, CancelledIsHeeded

\* The same of whole runs: a turn whose token is cancelled at a point where it
\* cannot have an answer yet, from the moment it is active to the last of its
\* waits, is never polled and never answered for the rest of the behaviour,
\* whatever fails, is dropped, cleared or restarted.
Pending == {"active", "started", "saved", "select"}
THEOREM CancelledForGood ==
  ASSUME NEW t \in Turns
  PROVE  Spec => [](t \in cancelled /\ pc[t] \in Pending
                    => [](pc[t] # "chat" /\ ~Answered(t)))
<1>1. ServedInv /\ t \in cancelled /\ pc[t] \in Pending => Unserved(t)
  BY SessionAssumption DEF ServedInv, Unserved, Pending, Undecided, Unasked
<1>2. Unserved(t) => pc[t] # "chat" /\ ~Answered(t)
  BY DEF Unserved
<1>3. GateInv /\ RunnerInv /\ TalkInv /\ EventInv /\ ServedInv /\ [Next]_vars /\ Unserved(t)
        => Unserved(t)'
  BY UnservedStays
<1>4. UNCHANGED vars => (Unserved(t) => Unserved(t)')
  BY DEF vars, memory, ui, Unserved, Answered
<1>. QED
  BY <1>1, <1>2, <1>3, <1>4, GateHolds, RunnerInvHolds, TalkInvHolds, EventInvHolds,
     ServedInvHolds, PTL DEF Spec
=============================================================================
