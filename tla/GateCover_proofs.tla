--------------------------- MODULE GateCover_proofs ---------------------------
(***************************************************************************)
(* Theorems about GateCover for every number of coroutine slots, travel    *)
(* levels, settings, device listings and user commands.                    *)
(***************************************************************************)
EXTENDS GateCover, TLAPS

USE DEF Unknown, Off, NoRetry

\* A task that _async_command has just started is a well-formed one, and the cloud has
\* not carried out anything for it.
LEMMA DispatchedType ==
    ASSUME NEW c \in CoordinatorView, NEW op \in Op, NEW cmd \in Command, NEW no \in Number
    PROVE  /\ Dispatched(c, op, cmd, no) \in TaskRecord
           /\ Dispatched(c, op, cmd, no).executed = "no"
<1>0. Idle \in TaskRecord
  BY MaxCallsAssumption DEF Idle, TaskRecord, Op, Command, Number
<1>1. CASE ~Reaches(c)
  BY <1>0, <1>1 DEF Dispatched, Idle
<1>2. CASE Reaches(c)
  <2>1. Dispatched(c, op, cmd, no) =
          [Idle EXCEPT !.pc = IF Route(c) = "CLOUD" THEN "cloud" ELSE "ble",
                       !.op = op, !.cmd = cmd, !.no = no]
    BY <1>2 DEF Dispatched
  <2>2. QED
    BY <2>1, <1>0 DEF TaskRecord, Idle
<1>3. QED
  BY <1>1, <1>2

\* What the cloud's answers leave in a slot's history: an action that was carried out goes
\* on over BLE only if the answer's meta names no usable code.
LEMMA EvidenceOfAnswer ==
    ASSUME NEW answer \in CloudAnswer
    PROVE  /\ Evidence(answer) \in {"no", "yes", "unsaid"}
           /\ SendIotAction(answer) = "EzvizActionRejected" => Evidence(answer) # "yes"
<1>1. Evidence(answer) \in {"no", "yes", "unsaid"}
  BY DEF Evidence
<1>2. CASE answer.shape = "noCode"
  BY <1>1, <1>2 DEF Evidence
<1>3. CASE answer.shape = "errorCode"
  <2>1. CASE answer = [shape |-> "code200", executed |-> TRUE]
    BY <1>3, <2>1
  <2>2. CASE answer = [shape |-> "errorCode", executed |-> FALSE]
    BY <1>1, <2>2 DEF Evidence
  <2>3. CASE answer \in [shape : {"noCode", "noMeta", "notDict", "lost"}, executed : BOOLEAN]
    BY <1>3, <2>3
  <2>4. QED
    BY <2>1, <2>2, <2>3 DEF CloudAnswer
<1>4. CASE answer.shape \notin {"noCode", "errorCode"}
  BY <1>1, <1>4 DEF SendIotAction
<1>5. QED
  BY <1>2, <1>3, <1>4, <1>1

\* Whatever a refresh leaves is a well-formed view of the coordinator.
LEMMA OutcomeType ==
    ASSUME NEW c \in CoordinatorView, NEW o \in RefreshOutcome(c)
    PROVE  o \in CoordinatorView
<1>1. \A l \in Listing : l.known \in BOOLEAN /\ l.routed \in BOOLEAN
  BY ListingAssumption
<1>2. ASSUME NEW l \in Listing, NEW s \in Status, NEW r \in Read
      PROVE  Published(c, l, s, r) \in CoordinatorView
  BY <1>1 DEF Published, CoordinatorView, Read, Status
<1>3. Failures(c) \subseteq CoordinatorView
  BY DEF Failures, CoordinatorView
<1>4. c.listing \in Listing /\ c.status \in Status
  BY DEF CoordinatorView
<1>5. CASE o \in Failures(c)
  BY <1>3, <1>5
<1>6. ASSUME NEW r \in Read, o = Published(c, c.listing, c.status, r)
      PROVE  o \in CoordinatorView
  BY <1>2, <1>4, <1>6
<1>7. ASSUME NEW l \in Listing, NEW s \in Status, NEW r \in Read, o = Published(c, l, s, r)
      PROVE  o \in CoordinatorView
  BY <1>2, <1>7
<1>8. QED
  BY <1>5, <1>6, <1>7 DEF RefreshOutcome

\* The estimate is well-formed after each operation of the estimator and each update.
LEMMA MovementType ==
    ASSUME NEW m \in MovementRecord, NEW end \in {0, Top}, NEW c
    PROVE  /\ StartMovement(m, end) \in MovementRecord
           /\ ClearMovement(m) \in MovementRecord
           /\ HandleCoordinatorUpdate(c, m) \in MovementRecord
BY TopAssumption DEF StartMovement, ClearMovement, HandleCoordinatorUpdate, MovementRecord,
                     Level

\* Every step of the cover keeps every variable in its type.
LEMMA TypeStep == TypeOK /\ [Next]_vars => TypeOK'
<1> SUFFICES ASSUME TypeOK, [Next]_vars PROVE TypeOK'
  OBVIOUS
<1> USE DEF TypeOK
<1>0. Idle \in TaskRecord
  BY MaxCallsAssumption DEF Idle, TaskRecord, Op, Command, Number
<1>1. Off \in Number \cup {Off} /\ NoRetry \in [owner : Number, seen : Number]
  BY MaxCallsAssumption DEF Number
<1>2. ASSUME NEW t \in Task, UserStep(t) PROVE TypeOK'
  <2>1. ASSUME NEW op \in Op, NEW cmd \in Command, UserCalls(t, op, cmd)
        PROVE  /\ task' \in [Task -> TaskRecord] /\ {calls', opposed'} \subseteq Number
               /\ calls + 1 \in Number
               /\ UNCHANGED <<mv, coord, added, retried>>
    <3>1. calls + 1 \in Number
      BY <2>1, MaxCallsAssumption DEF UserCalls, Number
    <3>2. Dispatched(coord, op, cmd, calls + 1) \in TaskRecord
      BY <3>1, DispatchedType
    <3>3. QED
      BY <2>1, <3>1, <3>2 DEF UserCalls
  <2>2. CASE AsyncOpenCover(t) \/ AsyncCloseCover(t) \/ AsyncStopCover(t)
    BY <2>1, <2>2, <1>1 DEF AsyncOpenCover, AsyncCloseCover, AsyncStopCover,
                            CancelsBothTimers, Op, Command
  <2>3. CASE AsyncSetCoverPosition(t)
    BY <2>1, <2>3, <1>1 DEF AsyncSetCoverPosition, Op, Command
  <2>4. QED
    BY <1>2, <2>2, <2>3 DEF UserStep
<1>3. ASSUME NEW t \in Task, Completes(t) PROVE TypeOK'
  <2>1. task[t] \in TaskRecord /\ task[t].no \in Number
    BY DEF TaskRecord
  <2>2. End(task[t].cmd) \in {0, Top}
    BY DEF End
  <2>3. mv' \in MovementRecord
    BY <1>3, <2>2, MovementType DEF Completes
  <2>4. QED
    BY <1>0, <1>3, <2>1, <2>3 DEF Completes
<1>4. ASSUME NEW t \in Task, Raises(t) PROVE TypeOK'
  BY <1>0, <1>4 DEF Raises
<1>5. ASSUME NEW t \in Task, CloudReplies(t) PROVE TypeOK'
  <2>1. PICK answer \in CloudAnswer :
          \/ Raises(t)
          \/ \E pc \in {"refresh", "ble"} :
               /\ task' = [task EXCEPT ![t].pc = pc, ![t].executed = Evidence(answer)]
               /\ UNCHANGED <<mv, autoStop, openRetry, coord, added, calls, hard,
                              opposed, retried>>
    BY <1>5 DEF CloudReplies
  <2>2. Evidence(answer) \in {"no", "yes", "unsaid"}
    BY EvidenceOfAnswer
  <2>3. CASE Raises(t)
    BY <2>3, <1>4
  <2>4. ASSUME NEW pc \in {"refresh", "ble"},
               task' = [task EXCEPT ![t].pc = pc, ![t].executed = Evidence(answer)]
        PROVE  task' \in [Task -> TaskRecord]
    BY <2>2, <2>4 DEF TaskRecord
  <2>5. QED
    BY <2>1, <2>3, <2>4
<1>6. ASSUME NEW t \in Task, RetryChecks(t) PROVE TypeOK'
  <2>1. PICK o \in RefreshOutcome(coord) :
          /\ coord' = o
          /\ mv' = HandleCoordinatorUpdate(o, mv)
          /\ IF FreshStatus(o) = 0
             THEN /\ task' = [task EXCEPT ![t] = Dispatched(o, "retry", "open", task[t].no)]
                  /\ retried' = retried \cup {task[t].no}
             ELSE task' = [task EXCEPT ![t] = Idle] /\ UNCHANGED retried
    BY <1>6 DEF RetryChecks
  <2>2. o \in CoordinatorView
    BY OutcomeType
  <2>3. task[t].no \in Number
    BY DEF TaskRecord
  <2>4. Dispatched(o, "retry", "open", task[t].no) \in TaskRecord
    BY <2>2, <2>3, DispatchedType DEF Op, Command
  <2>6. mv' \in MovementRecord
    BY <2>1, MovementType
  <2>7. task' \in [Task -> TaskRecord] /\ retried' \subseteq Number
    <3>1. CASE FreshStatus(o) = 0
      BY <2>1, <2>3, <2>4, <3>1
    <3>2. CASE FreshStatus(o) # 0
      BY <2>1, <3>2, <1>0
    <3>3. QED
      BY <3>1, <3>2
  <2>8. UNCHANGED <<autoStop, openRetry, added, calls, hard, opposed>>
    BY <1>6 DEF RetryChecks
  <2>9. QED
    BY <2>1, <2>2, <2>6, <2>7, <2>8
<1>7. ASSUME NEW t \in Task, AutoStopFires(t) PROVE TypeOK'
  <2>1. autoStop \in Number /\ "autoStop" \in Op /\ "pause" \in Command
    BY <1>7 DEF AutoStopFires, TypeOK, Op, Command
  <2>2. coord \in CoordinatorView
    OBVIOUS
  <2>3. Dispatched(coord, "autoStop", "pause", autoStop) \in TaskRecord
    BY <2>1, <2>2, DispatchedType
  <2>4. QED
    BY <1>1, <1>7, <2>3 DEF AutoStopFires
<1>8. ASSUME NEW t \in Task, OpenRetryFires(t) PROVE TypeOK'
  <2>1. openRetry.owner \in Number
    OBVIOUS
  <2>2. [Idle EXCEPT !.pc = "checking", !.op = "retry", !.cmd = "open",
                     !.no = openRetry.owner] \in TaskRecord
    BY <1>0, <2>1 DEF TaskRecord, Idle, Op, Command
  <2>3. QED
    BY <1>1, <1>8, <2>2 DEF OpenRetryFires
<1>9. CASE EstimateAdvances
  BY <1>9, TopAssumption DEF EstimateAdvances, MovementRecord, Level
<1>10. CASE EstimateElapses
  BY <1>10, TopAssumption DEF EstimateElapses, MovementRecord, Level
<1>11. CASE CoordinatorRefreshes
  BY <1>11, OutcomeType, MovementType DEF CoordinatorRefreshes
<1>12. CASE WillRemoveFromHass
  BY <1>1, <1>12 DEF WillRemoveFromHass
<1>13. CASE UNCHANGED vars
  BY <1>13 DEF vars
<1>14. QED
  BY <1>2, <1>3, <1>4, <1>5, <1>6, <1>7, <1>8, <1>9, <1>10, <1>11, <1>12, <1>13
     DEF Next, Continues, BleSucceeds, BleFails, RefreshReturns

\* Every variable of the cover always has its type.
THEOREM TypeCorrect == Spec => []TypeOK
<1>1. Init => TypeOK
  <2> SUFFICES ASSUME Init PROVE TypeOK
    OBVIOUS
  <2>1. Idle \in TaskRecord
    BY MaxCallsAssumption DEF Idle, TaskRecord, Op, Command, Number
  <2>2. 0 \in Number
    BY MaxCallsAssumption DEF Number
  <2>3. task \in [Task -> TaskRecord]
    BY <2>1 DEF Init
  <2>4. mv \in MovementRecord
    BY DEF Init, MovementRecord
  <2>5. coord \in CoordinatorView
    BY DEF Init, CoordinatorView
  <2>6. QED
    BY <2>2, <2>3, <2>4, <2>5 DEF Init, TypeOK
<1>2. QED
  BY <1>1, TypeStep, PTL DEF Spec

------------------------------------------------------------------------------
(* One route per command                                                    *)

\* A command that was carried out, other than one whose answer had no usable code in its
\* meta, only waits for the refresh that follows a cloud action: the strengthening that
\* makes AtMostOneRoute inductive.
ExecutedIsOver == \A t \in Task : task[t].executed = "yes" => task[t].pc = "refresh"

\* No step of the cover breaks ExecutedIsOver.
LEMMA RouteStep == TypeOK /\ ExecutedIsOver /\ [Next]_vars => ExecutedIsOver'
<1> SUFFICES ASSUME TypeOK, ExecutedIsOver, [Next]_vars PROVE ExecutedIsOver'
  OBVIOUS
<1> USE DEF ExecutedIsOver
<1>0. task \in [Task -> TaskRecord] /\ coord \in CoordinatorView
  BY DEF TypeOK
<1>1. ASSUME NEW t \in Task, NEW k, task' = [task EXCEPT ![t] = k], k.executed = "no"
      PROVE  ExecutedIsOver'
  BY <1>0, <1>1
<1>2. Idle.executed = "no"
  BY DEF Idle
<1>3. ASSUME NEW t \in Task, UserStep(t) PROVE ExecutedIsOver'
  <2>1. ASSUME NEW op \in Op, NEW cmd \in Command, UserCalls(t, op, cmd)
        PROVE  ExecutedIsOver'
    <3>1. calls + 1 \in Number
      BY <2>1, MaxCallsAssumption DEF UserCalls, Number, TypeOK
    <3>2. QED
      BY <1>0, <1>1, <2>1, <3>1, DispatchedType DEF UserCalls
  <2>2. QED
    BY <1>3, <2>1 DEF UserStep, AsyncOpenCover, AsyncCloseCover, AsyncStopCover,
                      AsyncSetCoverPosition, Op, Command
<1>4. ASSUME NEW t \in Task, Completes(t) \/ Raises(t) PROVE ExecutedIsOver'
  BY <1>1, <1>2, <1>4 DEF Completes, Raises
<1>5. ASSUME NEW t \in Task, CloudReplies(t) PROVE ExecutedIsOver'
  <2>1. PICK answer \in CloudAnswer :
          \/ Raises(t)
          \/ task' = [task EXCEPT ![t].pc = "refresh", ![t].executed = Evidence(answer)]
          \/ /\ SendIotAction(answer) = "EzvizActionRejected"
             /\ task' = [task EXCEPT ![t].pc = "ble", ![t].executed = Evidence(answer)]
    BY <1>5 DEF CloudReplies, ShouldFallbackToBle
  <2>2. CASE Raises(t)
    BY <1>4, <2>2
  <2>3. CASE task' = [task EXCEPT ![t].pc = "refresh", ![t].executed = Evidence(answer)]
    <3>1. task'[t].pc = "refresh"
      BY <1>0, <2>3 DEF TaskRecord
    <3>2. \A u \in Task \ {t} : task'[u] = task[u]
      BY <1>0, <2>3
    <3>3. QED
      BY <3>1, <3>2
  <2>4. CASE /\ SendIotAction(answer) = "EzvizActionRejected"
             /\ task' = [task EXCEPT ![t].pc = "ble", ![t].executed = Evidence(answer)]
    <3>1. Evidence(answer) # "yes"
      BY <2>4, EvidenceOfAnswer
    <3>3. task'[t].executed # "yes"
      BY <1>0, <2>4, <3>1 DEF TaskRecord
    <3>4. \A u \in Task \ {t} : task'[u] = task[u]
      BY <1>0, <2>4
    <3>5. QED
      BY <3>3, <3>4
  <2>5. QED
    BY <2>1, <2>2, <2>3, <2>4
<1>6. ASSUME NEW t \in Task, RetryChecks(t) PROVE ExecutedIsOver'
  <2>1. PICK o \in RefreshOutcome(coord) :
          \/ task' = [task EXCEPT ![t] = Dispatched(o, "retry", "open", task[t].no)]
          \/ task' = [task EXCEPT ![t] = Idle]
    BY <1>6 DEF RetryChecks
  <2>2. task[t].no \in Number /\ "retry" \in Op /\ "open" \in Command
    BY <1>0 DEF TaskRecord, Op, Command
  <2>3. Dispatched(o, "retry", "open", task[t].no).executed = "no"
    BY <1>0, <2>2, OutcomeType, DispatchedType
  <2>4. QED
    BY <1>1, <1>2, <2>1, <2>3
<1>7. ASSUME NEW t \in Task, AutoStopFires(t) PROVE ExecutedIsOver'
  <2>1. autoStop \in Number /\ "autoStop" \in Op /\ "pause" \in Command
    BY <1>7 DEF AutoStopFires, TypeOK, Op, Command
  <2>2. Dispatched(coord, "autoStop", "pause", autoStop).executed = "no"
    BY <1>0, <2>1, DispatchedType
  <2>3. QED
    BY <1>1, <1>7, <2>2 DEF AutoStopFires
<1>8. ASSUME NEW t \in Task, OpenRetryFires(t) PROVE ExecutedIsOver'
  <2>1. [Idle EXCEPT !.pc = "checking", !.op = "retry", !.cmd = "open",
                     !.no = openRetry.owner].executed = "no"
    BY DEF Idle
  <2>2. QED
    BY <1>1, <1>8, <2>1 DEF OpenRetryFires
<1>9. ASSUME task' = task PROVE ExecutedIsOver'
  BY <1>9
<1>10. QED
  BY <1>3, <1>4, <1>5, <1>6, <1>7, <1>8, <1>9
     DEF Next, Continues, BleSucceeds, BleFails, RefreshReturns, EstimateAdvances,
         EstimateElapses, CoordinatorRefreshes, WillRemoveFromHass, vars

\* A motor command the cloud carried out is sent over BLE too only after an answer whose
\* meta mapping carries no usable code, however many commands overlap.
THEOREM OneRoute == Spec => []AtMostOneRoute
<1>1. Init => ExecutedIsOver
  BY DEF Init, ExecutedIsOver, Idle
<1>2. ExecutedIsOver => AtMostOneRoute
  BY DEF ExecutedIsOver, AtMostOneRoute
<1>3. QED
  BY <1>1, <1>2, TypeCorrect, RouteStep, PTL DEF Spec

------------------------------------------------------------------------------
(* The timers belong to the latest commands                                 *)

\* No step of the cover leaves a timer armed behind a newer command.
LEMMA TimerStep == TypeOK /\ NoStaleTimer /\ [Next]_vars => NoStaleTimer'
<1> SUFFICES ASSUME TypeOK, NoStaleTimer, [Next]_vars PROVE NoStaleTimer'
  OBVIOUS
<1> USE DEF NoStaleTimer
<1>1. ASSUME NEW t \in Task, UserStep(t) PROVE NoStaleTimer'
  <2>1. CASE AsyncOpenCover(t) \/ AsyncCloseCover(t) \/ AsyncStopCover(t)
    BY <2>1 DEF AsyncOpenCover, AsyncCloseCover, AsyncStopCover, CancelsBothTimers
  <2>2. CASE AsyncSetCoverPosition(t)
    BY <2>2 DEF AsyncSetCoverPosition
  <2>3. QED
    BY <1>1, <2>1, <2>2 DEF UserStep
<1>2. ASSUME NEW t \in Task, Completes(t) PROVE NoStaleTimer'
  <2>1. CASE task[t].op = "open"
    BY <1>2, <2>1 DEF Completes
  <2>2. CASE task[t].op = "position"
    BY <1>2, <2>2 DEF Completes
  <2>3. CASE task[t].op \notin {"open", "position"}
    BY <1>2, <2>3 DEF Completes
  <2>4. QED
    BY <2>1, <2>2, <2>3
<1>3. ASSUME NEW t \in Task, CloudReplies(t) PROVE NoStaleTimer'
  BY <1>3 DEF CloudReplies, Raises
<1>4. ASSUME NEW t \in Task, RetryChecks(t) PROVE NoStaleTimer'
  BY <1>4 DEF RetryChecks
<1>5. ASSUME NEW t \in Task, AutoStopFires(t) \/ OpenRetryFires(t) PROVE NoStaleTimer'
  BY <1>5 DEF AutoStopFires, OpenRetryFires
<1>6. QED
  BY <1>1, <1>2, <1>3, <1>4, <1>5
     DEF Next, Continues, BleSucceeds, BleFails, RefreshReturns, Raises, EstimateAdvances,
         EstimateElapses, CoordinatorRefreshes, WillRemoveFromHass, vars

\* An armed timer never has a newer command behind it that should have disarmed it.
THEOREM TimersAreCurrent == Spec => []NoStaleTimer
<1>1. Init => NoStaleTimer
  BY DEF Init, NoStaleTimer
<1>2. QED
  BY <1>1, TypeCorrect, TimerStep, PTL DEF Spec

------------------------------------------------------------------------------
(* One retry per open                                                       *)

\* A coroutine that may still lead to the retry of its open command.
MayRetry(k) == (k.op = "open" /\ k.pc # "idle") \/ k.pc = "checking"

\* Every open that may still be retried is held by one coroutine or by the timer, and by
\* one only, and none of them was retried before: what makes RetryOnce inductive.
RetryIsOwned ==
    /\ \A t \in Task : MayRetry(task[t]) => /\ task[t].no \in 1..calls
                                            /\ task[t].no \notin retried
                                            /\ task[t].no # openRetry.owner
    /\ \A t, u \in Task :
         MayRetry(task[t]) /\ MayRetry(task[u]) /\ task[t].no = task[u].no => t = u
    /\ openRetry.owner \in 0..calls /\ openRetry.owner \notin retried
    /\ openRetry = NoRetry \/ openRetry.owner # 0
    /\ retried \subseteq 1..calls

\* What _async_command starts is idle, or waits for a transport under its own number.
LEMMA DispatchedShape ==
    ASSUME NEW c, NEW op \in Op, NEW cmd \in Command, NEW no \in Number
    PROVE  LET k == Dispatched(c, op, cmd, no)
           IN  k = Idle \/ (k.op = op /\ k.no = no /\ k.pc \in {"cloud", "ble"})
BY DEF Dispatched, Idle

\* A step that leaves in one slot a coroutine that leads to no retry, and arms no timer,
\* keeps every open owned once.
LEMMA NoNewOwner ==
    ASSUME TypeOK, RetryIsOwned, NEW t \in Task, NEW k, ~MayRetry(k),
           task' = [task EXCEPT ![t] = k], openRetry' \in {openRetry, NoRetry},
           retried' = retried, calls' \in {calls, calls + 1}
    PROVE  RetryIsOwned'
<1>1. calls \in Nat
  BY MaxCallsAssumption DEF TypeOK, Number
<1>2. 1..calls \subseteq 1..calls' /\ 0..calls \subseteq 0..calls'
  BY <1>1
<1>3. \A u \in Task : MayRetry(task'[u]) => u # t /\ task'[u] = task[u]
  BY DEF TypeOK
<1>4. \A u \in Task : MayRetry(task[u]) => task[u].no # 0
  BY <1>1 DEF RetryIsOwned
<1>5. 0 \notin retried
  BY DEF RetryIsOwned
<1>6. QED
  BY <1>1, <1>2, <1>3, <1>4, <1>5 DEF RetryIsOwned

\* No step of the cover lets an open be owned twice or retried while it is owned.
LEMMA RetryStep == TypeOK /\ RetryIsOwned /\ [Next]_vars => RetryIsOwned'
<1> SUFFICES ASSUME TypeOK, RetryIsOwned, [Next]_vars PROVE RetryIsOwned'
  OBVIOUS
<1>0. /\ task \in [Task -> TaskRecord] /\ coord \in CoordinatorView
      /\ calls \in Nat /\ calls \in Number /\ openRetry \in [owner : Number, seen : Number]
  BY MaxCallsAssumption DEF TypeOK, Number
<1>1. ~MayRetry(Idle)
  BY DEF MayRetry, Idle
<1>2. ASSUME NEW t \in Task, UserStep(t) PROVE RetryIsOwned'
  <2>1. ASSUME NEW op \in Op, NEW cmd \in Command, UserCalls(t, op, cmd)
        PROVE  /\ calls + 1 \in Number /\ calls' = calls + 1 /\ retried' = retried
               /\ task' = [task EXCEPT ![t] = Dispatched(coord, op, cmd, calls + 1)]
    BY <1>0, <2>1, MaxCallsAssumption DEF UserCalls, Number
  <2>2. ASSUME NEW op \in Op \ {"open"}, NEW cmd \in Command, UserCalls(t, op, cmd),
               openRetry' \in {openRetry, NoRetry}
        PROVE  RetryIsOwned'
    <3>1. ~MayRetry(Dispatched(coord, op, cmd, calls + 1))
      BY <1>1, <2>1, <2>2, DispatchedShape DEF MayRetry
    <3>2. QED
      BY <2>1, <2>2, <3>1, NoNewOwner
  <2>3. CASE AsyncOpenCover(t)
    <3> DEFINE k == Dispatched(coord, "open", "open", calls + 1)
    <3>1. /\ calls' = calls + 1 /\ retried' = retried /\ openRetry' = NoRetry
          /\ task' = [task EXCEPT ![t] = k]
      BY <2>1, <2>3 DEF AsyncOpenCover, CancelsBothTimers, Op, Command
    <3>2. k = Idle \/ k.no = calls + 1
      BY <2>1, <2>3, DispatchedShape DEF AsyncOpenCover, Op, Command
    <3> HIDE DEF k
    <3>3. \A u \in Task \ {t} : task'[u] = task[u]
      BY <1>0, <3>1
    <3>4. task'[t] = k
      BY <1>0, <3>1
    <3>5. MayRetry(task'[t]) => task'[t].no = calls + 1
      BY <1>1, <3>2, <3>4
    <3>6. \A u \in Task \ {t} : MayRetry(task'[u]) =>
                 /\ task'[u].no \in 1..calls /\ task'[u].no \notin retried
      BY <3>3 DEF RetryIsOwned
    <3>7. \A u \in Task : MayRetry(task'[u]) =>
                 /\ task'[u].no \in 1..(calls + 1) /\ task'[u].no \notin retried
                 /\ task'[u].no # 0
      BY <1>0, <3>5, <3>6 DEF RetryIsOwned
    <3>8. \A u, v \in Task : /\ MayRetry(task'[u]) /\ MayRetry(task'[v])
                             /\ task'[u].no = task'[v].no
                             => u = v
      <4> SUFFICES ASSUME NEW u \in Task, NEW v \in Task, MayRetry(task'[u]),
                          MayRetry(task'[v]), task'[u].no = task'[v].no
                   PROVE  u = v
        OBVIOUS
      <4>1. CASE u # t /\ v # t
        BY <3>3, <4>1 DEF RetryIsOwned
      <4>2. CASE u = t \/ v = t
        BY <1>0, <3>5, <3>6, <4>2
      <4>3. QED
        BY <4>1, <4>2
    <3>9. 0 \notin retried /\ retried \subseteq 1..(calls + 1)
      BY <1>0 DEF RetryIsOwned
    <3>10. QED
      BY <1>0, <3>1, <3>7, <3>8, <3>9 DEF RetryIsOwned
  <2>4. CASE AsyncCloseCover(t) \/ AsyncStopCover(t)
    BY <2>2, <2>4 DEF AsyncCloseCover, AsyncStopCover, CancelsBothTimers, Op, Command
  <2>5. CASE AsyncSetCoverPosition(t)
    BY <2>2, <2>5 DEF AsyncSetCoverPosition, Op, Command
  <2>6. QED
    BY <1>2, <2>3, <2>4, <2>5 DEF UserStep
<1>3. ASSUME NEW t \in Task, Completes(t), task[t].pc \in {"ble", "refresh"}
      PROVE  RetryIsOwned'
  <2>1. /\ task' = [task EXCEPT ![t] = Idle] /\ calls' = calls /\ retried' = retried
    BY <1>3 DEF Completes
  <2>2. CASE task[t].op # "open"
    BY <1>1, <1>3, <2>1, <2>2, NoNewOwner DEF Completes
  <2>3. CASE task[t].op = "open"
    <3>1. MayRetry(task[t])
      BY <1>3, <2>3 DEF MayRetry
    <3>2. openRetry'.owner = task[t].no
      BY <1>3, <2>3 DEF Completes
    <3>3. \A u \in Task : MayRetry(task'[u]) => u # t /\ task'[u] = task[u]
      BY <1>0, <1>1, <2>1
    <3>4. \A u \in Task : MayRetry(task'[u]) => task'[u].no # openRetry'.owner
      BY <3>1, <3>2, <3>3 DEF RetryIsOwned
    <3>5. openRetry'.owner \in 0..calls /\ openRetry'.owner \notin retried
      BY <1>0, <3>1, <3>2 DEF RetryIsOwned
    <3>6. openRetry'.owner # 0
      BY <1>0, <3>1, <3>2 DEF RetryIsOwned
    <3>7. QED
      BY <2>1, <3>3, <3>4, <3>5, <3>6 DEF RetryIsOwned
  <2>4. QED
    BY <2>2, <2>3
<1>4. ASSUME NEW t \in Task, Raises(t) PROVE RetryIsOwned'
  BY <1>1, <1>4, NoNewOwner DEF Raises
<1>5. ASSUME NEW t \in Task, CloudReplies(t) PROVE RetryIsOwned'
  <2>1. PICK answer \in CloudAnswer :
          \/ Raises(t)
          \/ \E pc \in {"refresh", "ble"} :
               /\ task' = [task EXCEPT ![t].pc = pc, ![t].executed = Evidence(answer)]
               /\ UNCHANGED <<openRetry, calls, retried>>
    BY <1>5 DEF CloudReplies
  <2>2. CASE Raises(t)
    BY <1>4, <2>2
  <2>3. ASSUME NEW pc \in {"refresh", "ble"},
               task' = [task EXCEPT ![t].pc = pc, ![t].executed = Evidence(answer)],
               UNCHANGED <<openRetry, calls, retried>>
        PROVE  RetryIsOwned'
    <3>1. task[t].pc = "cloud"
      BY <1>5 DEF CloudReplies
    <3>2. \A u \in Task \ {t} : task'[u] = task[u]
      BY <1>0, <2>3
    <3>3. task'[t].pc = pc /\ task'[t].op = task[t].op /\ task'[t].no = task[t].no
      BY <1>0, <2>3 DEF TaskRecord
    <3>4. MayRetry(task'[t]) => MayRetry(task[t])
      BY <3>1, <3>3 DEF MayRetry
    <3>5. \A u \in Task : /\ task'[u].no = task[u].no
                          /\ MayRetry(task'[u]) => MayRetry(task[u])
      BY <3>2, <3>3, <3>4
    <3>6. openRetry' = openRetry /\ calls' = calls /\ retried' = retried
      BY <2>3
    <3>7. \A u \in Task : MayRetry(task'[u]) => /\ task'[u].no \in 1..calls
                                               /\ task'[u].no \notin retried
                                               /\ task'[u].no # openRetry.owner
      BY <3>5 DEF RetryIsOwned
    <3>8. \A u, v \in Task : /\ MayRetry(task'[u]) /\ MayRetry(task'[v])
                             /\ task'[u].no = task'[v].no
                             => u = v
      BY <3>5 DEF RetryIsOwned
    <3>9. QED
      BY <3>6, <3>7, <3>8 DEF RetryIsOwned
  <2>4. QED
    BY <2>1, <2>2, <2>3
<1>6. ASSUME NEW t \in Task, RetryChecks(t) PROVE RetryIsOwned'
  <2>1. PICK o \in RefreshOutcome(coord) :
          \/ /\ task' = [task EXCEPT ![t] = Dispatched(o, "retry", "open", task[t].no)]
             /\ retried' = retried \cup {task[t].no}
          \/ task' = [task EXCEPT ![t] = Idle] /\ retried' = retried
    BY <1>6 DEF RetryChecks
  <2> DEFINE new == Dispatched(o, "retry", "open", task[t].no)
  <2>2. openRetry' = openRetry /\ calls' = calls /\ task[t].pc = "checking"
    BY <1>6 DEF RetryChecks
  <2>3. ~MayRetry(new)
    <3>1. task[t].no \in Number /\ "retry" \in Op /\ "open" \in Command
      BY <1>0 DEF TaskRecord, Op, Command
    <3>2. new = Idle \/ (new.op = "retry" /\ new.pc \in {"cloud", "ble"})
      BY <3>1, DispatchedShape
    <3>3. new \in TaskRecord
      BY <1>0, <3>1, OutcomeType, DispatchedType
    <3> HIDE DEF new
    <3>4. QED
      BY <1>1, <3>2, <3>3 DEF MayRetry, TaskRecord
  <2>4. MayRetry(task[t])
    BY <2>2 DEF MayRetry
  <2> HIDE DEF new
  <2>5. CASE task' = [task EXCEPT ![t] = new] /\ retried' = retried \cup {task[t].no}
    <3>1. \A u \in Task : MayRetry(task'[u]) => u # t /\ task'[u] = task[u]
      BY <1>0, <2>3, <2>5
    <3>2. \A u \in Task : MayRetry(task'[u]) => task'[u].no # task[t].no
      BY <2>4, <3>1 DEF RetryIsOwned
    <3>3. task[t].no \in 1..calls /\ task[t].no # openRetry.owner
      BY <2>4 DEF RetryIsOwned
    <3>4. \A u \in Task : MayRetry(task'[u]) => /\ task'[u].no \in 1..calls
                                               /\ task'[u].no \notin retried'
                                               /\ task'[u].no # openRetry.owner
      BY <2>5, <3>1, <3>2 DEF RetryIsOwned
    <3>5. \A u, v \in Task : /\ MayRetry(task'[u]) /\ MayRetry(task'[v])
                             /\ task'[u].no = task'[v].no
                             => u = v
      BY <3>1 DEF RetryIsOwned
    <3>6. openRetry.owner \notin retried' /\ retried' \subseteq 1..calls
      BY <2>5, <3>3 DEF RetryIsOwned
    <3>7. QED
      BY <2>2, <3>4, <3>5, <3>6 DEF RetryIsOwned
  <2>6. CASE task' = [task EXCEPT ![t] = Idle] /\ retried' = retried
    BY <1>1, <2>2, <2>6, NoNewOwner
  <2>7. QED
    BY <2>1, <2>5, <2>6 DEF new
<1>7. ASSUME NEW t \in Task, AutoStopFires(t) PROVE RetryIsOwned'
  <2>1. autoStop \in Number /\ "autoStop" \in Op /\ "pause" \in Command
    BY <1>7 DEF AutoStopFires, TypeOK, Op, Command
  <2>2. ~MayRetry(Dispatched(coord, "autoStop", "pause", autoStop))
    BY <1>1, <2>1, DispatchedShape DEF MayRetry
  <2>3. QED
    BY <1>7, <2>2, NoNewOwner DEF AutoStopFires
<1>8. ASSUME NEW t \in Task, OpenRetryFires(t) PROVE RetryIsOwned'
  <2> DEFINE k == [Idle EXCEPT !.pc = "checking", !.op = "retry", !.cmd = "open",
                               !.no = openRetry.owner]
  <2>1. /\ task' = [task EXCEPT ![t] = k] /\ openRetry' = NoRetry /\ openRetry # NoRetry
        /\ calls' = calls /\ retried' = retried
    BY <1>8 DEF OpenRetryFires
  <2>2. k.no = openRetry.owner
    BY DEF Idle
  <2> HIDE DEF k
  <2>3. \A u \in Task \ {t} : task'[u] = task[u]
    BY <1>0, <2>1
  <2>4. task'[t].no = openRetry.owner
    BY <1>0, <2>1, <2>2
  <2>5. openRetry.owner \in 1..calls /\ openRetry.owner \notin retried
    BY <1>0, <2>1 DEF RetryIsOwned
  <2>6. \A u \in Task : MayRetry(task'[u]) => /\ task'[u].no \in 1..calls
                                             /\ task'[u].no \notin retried
                                             /\ task'[u].no # 0
    BY <1>0, <2>3, <2>4, <2>5 DEF RetryIsOwned
  <2>7. \A u, v \in Task : /\ MayRetry(task'[u]) /\ MayRetry(task'[v])
                           /\ task'[u].no = task'[v].no
                           => u = v
    BY <2>3, <2>4 DEF RetryIsOwned
  <2>8. 0 \notin retried
    BY <1>0 DEF RetryIsOwned
  <2>9. QED
    BY <1>0, <2>1, <2>6, <2>7, <2>8 DEF RetryIsOwned
<1>9. ASSUME UNCHANGED <<task, calls, retried>>, openRetry' \in {openRetry, NoRetry}
      PROVE  RetryIsOwned'
  BY <1>0, <1>9 DEF RetryIsOwned
<1>10. QED
  BY <1>2, <1>3, <1>4, <1>5, <1>6, <1>7, <1>8, <1>9
     DEF Next, Continues, BleSucceeds, BleFails, RefreshReturns, EstimateAdvances,
         EstimateElapses, CoordinatorRefreshes, WillRemoveFromHass, vars

\* One open command is followed by at most one retry.
THEOREM OneRetry == Spec => RetryOnce
<1>1. Init => RetryIsOwned
  BY MaxCallsAssumption DEF Init, RetryIsOwned, MayRetry, Idle
<1>2. RetryIsOwned => \A t \in Task : task[t].pc = "checking" => task[t].no \notin retried
  BY DEF RetryIsOwned, MayRetry
<1>3. RetryIsOwned =>
        [\A t \in Task : task[t].pc = "checking" /\ task'[t].pc \in {"cloud", "ble"}
                             => task[t].no \notin retried]_vars
  BY <1>2
<1>4. QED
  BY <1>1, <1>3, TypeCorrect, RetryStep, PTL DEF Spec, RetryOnce

\* A step of the estimate is one of those that EstimateNeverJumps names.
SmoothStep ==
    mv'.position # mv.position =>
        \/ mv'.position = mv.target
        \/ mv.position # Unknown /\ mv'.position - mv.position \in {-1, 1}
        \/ mv'.position = 0 /\ FreshStatus(coord') = 0
        \/ mv.position = Unknown /\ mv'.target = Top - mv'.position

\* A movement that starts or ends moves the estimate only out of the unknown, to the end of
\* the travel from which the gate leaves.
LEMMA CompletesSmoothly ==
    ASSUME TypeOK, NEW t \in Task, Completes(t)
    PROVE  SmoothStep
<1>1. CASE task[t].cmd = "pause"
  BY <1>1 DEF Completes, ClearMovement, TypeOK, MovementRecord, SmoothStep
<1>2. CASE task[t].cmd # "pause"
  <2>1. PICK end \in {0, Top} : mv' = StartMovement(mv, end)
    BY <1>2 DEF Completes, End
  <2>2. \/ mv' = mv
        \/ mv' = [position |-> IF mv.position = Unknown THEN Top - end ELSE mv.position,
                  target |-> end]
    BY <2>1 DEF StartMovement
  <2>3. Top - (Top - end) = end
    BY TopAssumption
  <2>4. QED
    BY <2>2, <2>3 DEF SmoothStep
<1>3. QED
  BY <1>1, <1>2

\* A refresh moves the estimate only to the closed end, and only on a fresh closed status.
LEMMA UpdatesSmoothly ==
    ASSUME NEW c, coord' = c, mv' = HandleCoordinatorUpdate(c, mv)
    PROVE  SmoothStep
BY DEF HandleCoordinatorUpdate, SmoothStep

\* The estimate never jumps, whichever commands, timers and refreshes follow each other.
THEOREM NeverJumps == Spec => EstimateNeverJumps
<1>1. TypeOK /\ [Next]_vars => [SmoothStep]_vars
  <2> SUFFICES ASSUME TypeOK, [Next]_vars PROVE mv' # mv => SmoothStep
    BY DEF vars, SmoothStep
  <2>1. ASSUME NEW t \in Task, Completes(t) PROVE SmoothStep
    BY <2>1, CompletesSmoothly
  <2>2. ASSUME NEW t \in Task, UserStep(t) \/ Raises(t) \/ CloudReplies(t)
                                \/ AutoStopFires(t) \/ OpenRetryFires(t)
        PROVE  mv' = mv
    BY <2>2 DEF UserStep, AsyncOpenCover, AsyncCloseCover, AsyncStopCover,
                AsyncSetCoverPosition, UserCalls, Raises, CloudReplies, AutoStopFires,
                OpenRetryFires
  <2>3. ASSUME NEW t \in Task, RetryChecks(t) PROVE SmoothStep
    BY <2>3, UpdatesSmoothly DEF RetryChecks
  <2>4. CASE CoordinatorRefreshes
    BY <2>4, UpdatesSmoothly DEF CoordinatorRefreshes
  <2>5. CASE EstimateAdvances
    <3>1. mv \in MovementRecord
      BY DEF TypeOK
    <3>2. PICK p \in Level : /\ p # mv.target
                             /\ p = mv.position + (IF mv.target = Top THEN 1 ELSE -1)
                             /\ mv' = [mv EXCEPT !.position = p]
      BY <2>5 DEF EstimateAdvances
    <3>3. mv'.position = p /\ mv'.target = mv.target
      BY <3>1, <3>2 DEF MovementRecord
    <3>4. mv.position \in Int /\ mv.target \in Int /\ p \in Int
      BY <3>1, TopAssumption DEF MovementRecord, Level
    <3>5. CASE mv.position # Unknown
      BY <3>2, <3>3, <3>4, <3>5 DEF SmoothStep
    <3>6. CASE mv.position = Unknown
      \* From the unknown an upward step could only lead to 0, the bottom of the travel.
      <4>1. mv.target = Top /\ p = 0
        BY <3>2, <3>4, <3>6, TopAssumption DEF Level
      <4>2. QED
        BY <3>3, <3>6, <4>1, TopAssumption DEF SmoothStep
    <3>7. QED
      BY <3>5, <3>6
  <2>6. CASE EstimateElapses
    BY <2>6 DEF EstimateElapses, SmoothStep
  <2>7. CASE WillRemoveFromHass \/ UNCHANGED vars
    BY <2>7 DEF WillRemoveFromHass, vars
  <2>8. QED
    BY <2>1, <2>2, <2>3, <2>4, <2>5, <2>6, <2>7
       DEF Next, Continues, BleSucceeds, BleFails, RefreshReturns
<1>2. QED
  BY <1>1, TypeCorrect, PTL DEF Spec, EstimateNeverJumps, SmoothStep
==============================================================================
