------------------------------ MODULE GateCover ------------------------------
(***************************************************************************)
(* One EzvizHg2Cover entity (cover.py) with its movement estimator         *)
(* (travel.py) on Home Assistant's event loop.                             *)
(*                                                                         *)
(* The loop runs one coroutine at a time and switches only at an await, so *)
(* an action is what a coroutine does between two awaits.  A task slot     *)
(* holds one coroutine: a service call of the user or the callback of one  *)
(* of the two timers.  The awaits of a command are                         *)
(*    "cloud"    the executor job that sends the cloud action,             *)
(*    "ble"      the BLE send,                                             *)
(*    "refresh"  coordinator.async_request_refresh() after a cloud action, *)
(*    "checking" the retry's own coordinator.async_refresh().              *)
(*                                                                         *)
(* Time is not measured: a timer may fire whenever it is armed and the     *)
(* estimate may advance whenever it moves.  The travel range 0..100 is     *)
(* 0..Top.  What the cloud reports of the door is arbitrary: the gate has  *)
(* its own remote controls.                                                *)
(***************************************************************************)
EXTENDS Integers, DeviceRouting

CONSTANTS
    Task,           \* coroutine slots
    Top,            \* level of a fully open gate
    OpenTimed,      \* is _open_duration configured?
    CloseTimed,     \* is _close_duration configured?
    BleConfigured,  \* does this gate have a BLE controller?
    Listing,        \* what the account's device list may say of this gate
    MaxCalls        \* bound on the user's commands

ASSUME TopAssumption == Top \in Nat \ {0}
ASSUME MaxCallsAssumption == MaxCalls \in Nat
ASSUME SettingsAssumption == {OpenTimed, CloseTimed, BleConfigured} \subseteq BOOLEAN
ASSUME ListingAssumption ==
    Listing \subseteq [known : BOOLEAN, offline : BOOLEAN, routed : BOOLEAN]

VARIABLES
    task,       \* the coroutine slots
    mv,         \* the MovementEstimator: estimated position and target
    autoStop,   \* _auto_stop_unsub
    openRetry,  \* _open_retry_unsub
    coord,      \* the coordinator as the cover reads it
    added,      \* is the entity still in Home Assistant?
    calls,      \* user commands issued so far: the number of the latest one
    hard,       \* number of the user's latest open, close or stop
    opposed,    \* number of the user's latest command that is not to open
    retried     \* numbers of the open commands whose retry was sent

vars == <<task, mv, autoStop, openRetry, coord, added, calls, hard, opposed, retried>>

Unknown == -1                       \* Python's None for a position or a status
Off == -1                           \* no auto-stop timer
NoRetry == [owner |-> 0, seen |-> 0]
Op == {"open", "close", "stop", "position", "autoStop", "retry"}
Command == {"open", "close", "pause"}
Number == 0..MaxCalls
Level == 0..Top
Status == {Unknown, 0, 1}           \* doorStatus: 0 closed, 1 not closed

Idle == [pc |-> "idle", op |-> "stop", cmd |-> "pause", no |-> 0,
         executed |-> "no"]

TaskRecord ==
    [pc : {"idle", "cloud", "ble", "refresh", "checking"}, op : Op, cmd : Command,
     no : Number,          \* the user command it is, or serves
     \* history: did the cloud carry the command out ("unsaid": it did, though the code
     \* in the answer's meta is missing or unusable)?
     executed : {"no", "yes", "unsaid"}]

MovementRecord == [position : Level \cup {Unknown}, target : {Unknown, 0, Top}]

CoordinatorView ==
    [success : BOOLEAN,    \* last_update_success
     fresh : BOOLEAN,      \* this gate's GateStatusFreshness.available
     status : Status,      \* get_door_status of the published data
     listing : Listing]    \* is the gate in the data, is it offline, has it a route

TypeOK ==
    /\ task \in [Task -> TaskRecord]
    /\ mv \in MovementRecord
    /\ autoStop \in Number \cup {Off}
    /\ openRetry \in [owner : Number, seen : Number]
    /\ coord \in CoordinatorView
    /\ added \in BOOLEAN
    /\ {calls, hard, opposed} \subseteq Number
    /\ retried \subseteq Number

Init ==
    /\ task = [t \in Task |-> Idle]
    /\ mv = [position |-> Unknown, target |-> Unknown]
    /\ autoStop = Off
    /\ openRetry = NoRetry
    /\ coord \in [success : {TRUE}, fresh : BOOLEAN, status : Status,
                  listing : {l \in Listing : l.known}]
    /\ added = TRUE
    /\ calls = 0 /\ hard = 0 /\ opposed = 0
    /\ retried = {}

------------------------------------------------------------------------------
(* The movement estimator                                                   *)

\* MovementEstimator.start that always takes the opposite end for granted (a mutation).
StartFromFarEnd(m, target) == [position |-> Top - target, target |-> target]

\* MovementEstimator.start with the opposite end subtracted the wrong way round
\* (a mutation).
StartFromSwappedEnd(m, target) ==
    [position |-> IF m.position = Unknown THEN target - Top ELSE m.position,
     target |-> target]

\* MovementEstimator.start: redirects from the current estimate; from an unknown
\* position it assumes the opposite end; without a duration it does nothing.
StartMovement(m, target) ==
    IF ~(IF target = Top THEN OpenTimed ELSE CloseTimed) THEN m
    ELSE [position |-> IF m.position = Unknown THEN Top - target ELSE m.position,
          target |-> target]

\* MovementEstimator.clear
ClearMovement(m) == [m EXCEPT !.target = Unknown]

\* The estimate one level further on its way: position_at before the end of the travel.
EstimateAdvances ==
    /\ mv.target # Unknown
    /\ \E p \in Level : /\ p # mv.target
                        /\ p = mv.position + (IF mv.target = Top THEN 1 ELSE -1)
                        /\ mv' = [mv EXCEPT !.position = p]
    /\ UNCHANGED <<task, autoStop, openRetry, coord, added, calls, hard, opposed, retried>>

\* The duration has elapsed: position_at snaps to the target and clears the movement.
EstimateElapses ==
    /\ mv.target # Unknown
    /\ mv' = [position |-> mv.target, target |-> Unknown]
    /\ UNCHANGED <<task, autoStop, openRetry, coord, added, calls, hard, opposed, retried>>

------------------------------------------------------------------------------
(* _async_command up to its first await, and its continuations              *)

Route(c) == DecideCommandRoute(BleConfigured, c.listing.offline, c.success,
                               c.listing.routed)

\* Can a command leave under coordinator state c?  A vanished device (KeyError) and
\* NO_ROUTE raise at once.
Reaches(c) == c.listing.known /\ Route(c) # "NO_ROUTE"

\* The slot of a command that starts under coordinator state c: it raises, or waits for
\* the transport of its route.
Dispatched(c, op, cmd, no) ==
    IF ~Reaches(c) THEN Idle
    ELSE [Idle EXCEPT !.pc = IF Route(c) = "CLOUD" THEN "cloud" ELSE "ble",
                      !.op = op, !.cmd = cmd, !.no = no]

End(cmd) == IF cmd = "open" THEN Top ELSE 0

\* Completes where the retry, too, schedules a retry (a mutation).
RetryCompletesLikeAnOpen(t) ==
    LET k == task[t] IN
    /\ mv' = IF k.cmd = "pause" THEN ClearMovement(mv) ELSE StartMovement(mv, End(k.cmd))
    /\ openRetry' = IF k.op \in {"open", "retry"} THEN [owner |-> k.no, seen |-> hard]
                    ELSE openRetry
    /\ autoStop' = IF k.op = "position" THEN calls ELSE autoStop
    /\ task' = [task EXCEPT ![t] = Idle]
    /\ UNCHANGED <<coord, added, calls, hard, opposed, retried>>

\* What the caller of _async_command does once it returned: start or pause the
\* estimate, and schedule the open retry or the auto-stop.
Completes(t) ==
    LET k == task[t] IN
    /\ mv' = IF k.cmd = "pause" THEN ClearMovement(mv) ELSE StartMovement(mv, End(k.cmd))
    /\ openRetry' = IF k.op = "open" THEN [owner |-> k.no, seen |-> hard] ELSE openRetry
    /\ autoStop' = IF k.op = "position" THEN calls ELSE autoStop
    /\ task' = [task EXCEPT ![t] = Idle]
    /\ UNCHANGED <<coord, added, calls, hard, opposed, retried>>

\* The command raised: HomeAssistantError reaches the caller and nothing follows.
Raises(t) ==
    /\ task' = [task EXCEPT ![t] = Idle]
    /\ UNCHANGED <<mv, autoStop, openRetry, coord, added, calls, hard, opposed, retried>>

\* What an answer leaves in a slot's history.
Evidence(answer) ==
    IF ~answer.executed THEN "no" ELSE IF answer.shape = "noCode" THEN "unsaid" ELSE "yes"

\* The executor job ends.  A clean rejection goes on over BLE if it is configured.
CloudReplies(t) ==
    /\ task[t].pc = "cloud"
    /\ \E answer \in CloudAnswer :
         LET outcome == SendIotAction(answer)
             next(pc) == task' = [task EXCEPT ![t].pc = pc, ![t].executed = Evidence(answer)]
         IN  \/ /\ outcome = "returned"
                /\ next("refresh")
                /\ UNCHANGED <<mv, autoStop, openRetry, coord, added, calls, hard, opposed, retried>>
             \/ /\ outcome # "returned"
                /\ ShouldFallbackToBle(outcome) /\ BleConfigured
                /\ next("ble")
                /\ UNCHANGED <<mv, autoStop, openRetry, coord, added, calls, hard, opposed, retried>>
             \/ /\ outcome # "returned"
                /\ ~(ShouldFallbackToBle(outcome) /\ BleConfigured)
                /\ Raises(t)

BleSucceeds(t) == task[t].pc = "ble" /\ Completes(t)

BleFails(t) == task[t].pc = "ble" /\ Raises(t)

\* async_request_refresh returns: the debouncer may or may not have polled meanwhile.
RefreshReturns(t) == task[t].pc = "refresh" /\ Completes(t)

------------------------------------------------------------------------------
(* The user's service calls                                                 *)

\* The available property; whether the BLE device is in sight is the radio's choice.
Available(present) ==
    /\ coord.listing.known
    /\ (coord.success /\ coord.listing.routed) \/ (BleConfigured /\ present)

\* Home Assistant calls an entity it still has, and only while it is available.
UserCalls(t, op, cmd) ==
    /\ added /\ calls < MaxCalls
    /\ \E present \in BOOLEAN : Available(present)
    /\ task[t].pc = "idle"
    /\ calls' = calls + 1
    /\ opposed' = IF cmd = "open" THEN opposed ELSE calls + 1
    /\ task' = [task EXCEPT ![t] = Dispatched(coord, op, cmd, calls + 1)]
    /\ UNCHANGED <<mv, coord, added, retried>>

\* A handler that forgets _cancel_open_retry (a mutation).
CancelsOnlyAutoStop == autoStop' = Off /\ openRetry' = openRetry /\ hard' = calls + 1

\* async_open_cover, async_close_cover, async_stop_cover up to the first await.
CancelsBothTimers == autoStop' = Off /\ openRetry' = NoRetry /\ hard' = calls + 1

AsyncOpenCover(t) == UserCalls(t, "open", "open") /\ CancelsBothTimers
AsyncCloseCover(t) == UserCalls(t, "close", "close") /\ CancelsBothTimers
AsyncStopCover(t) == UserCalls(t, "stop", "pause") /\ CancelsBothTimers

\* async_set_cover_position: from an unknown position the far end is assumed; a
\* target within one percent of the estimate returns early and changes nothing.
AsyncSetCoverPosition(t) ==
    /\ OpenTimed /\ CloseTimed
    /\ \E target \in Level :
         LET current == IF mv.position # Unknown THEN mv.position
                        ELSE IF 2 * target >= Top THEN 0 ELSE Top
         IN  /\ target # current
             /\ UserCalls(t, "position", IF target > current THEN "open" ELSE "close")
    /\ autoStop' = Off
    /\ UNCHANGED <<openRetry, hard>>

------------------------------------------------------------------------------
(* The coordinator's refreshes, as far as this gate sees them               *)

\* The answer to the DoorStatus read: a list whose first value is status, an answer
\* without such a list, or a failed read.
Read == [kind : {"list"}, status : Status] \cup [kind : {"nothing", "error"}, status : {Unknown}]

\* Coordinator c after a refresh that found listing and cached, for the door status
\* before the read, base.
Published(c, listing, base, read) ==
    [success |-> TRUE,
     listing |-> listing,
     status |-> IF ~listing.known THEN Unknown
                ELSE IF listing.routed /\ read.kind = "list" THEN read.status ELSE base,
     fresh |-> IF listing.known /\ listing.routed THEN read.kind # "error" ELSE c.fresh]

\* UpdateFailed or ConfigEntryAuthFailed leave the data and the freshness as they were;
\* an exception nothing expects may come after this gate's read has set its freshness.
Failures(c) == {[c EXCEPT !.success = FALSE, !.fresh = f] : f \in BOOLEAN}

\* What a refresh may leave: it fails, it polls the known devices, or it takes a new
\* device list first.
RefreshOutcome(c) ==
    Failures(c) \cup {Published(c, c.listing, c.status, r) : r \in Read}
                \cup {Published(c, l, s, r) : l \in Listing, s \in Status, r \in Read}

\* The door status a consumer that checks the freshness sees.
FreshStatus(c) == IF c.listing.known /\ c.fresh THEN c.status ELSE Unknown

\* _handle_coordinator_update, called by Home Assistant unless the entity is gone or
\* this refresh failed like the one before.
HandleCoordinatorUpdate(c, m) ==
    IF added /\ (c.success \/ coord.success) /\ FreshStatus(c) = 0
    THEN [position |-> 0, target |-> Unknown] ELSE m

CoordinatorRefreshes ==
    /\ \E c \in RefreshOutcome(coord) :
         /\ coord' = c
         /\ mv' = HandleCoordinatorUpdate(c, mv)
    /\ UNCHANGED <<task, autoStop, openRetry, added, calls, hard, opposed, retried>>

------------------------------------------------------------------------------
(* The timers' callbacks and the removal of the entity                      *)

\* _auto_stop that gives up when the estimate is no longer moving (a mutation).
AutoStopFiresIfMoving(t) ==
    /\ autoStop # Off
    /\ task[t].pc = "idle"
    /\ autoStop' = Off /\ openRetry' = NoRetry
    /\ task' = [task EXCEPT ![t] = IF mv.target = Unknown THEN Idle
                                   ELSE Dispatched(coord, "autoStop", "pause", autoStop)]
    /\ UNCHANGED <<mv, coord, added, calls, hard, opposed, retried>>

\* _auto_stop: async_stop_cover from the timer.
AutoStopFires(t) ==
    /\ autoStop # Off
    /\ task[t].pc = "idle"
    /\ autoStop' = Off /\ openRetry' = NoRetry
    /\ task' = [task EXCEPT ![t] = Dispatched(coord, "autoStop", "pause", autoStop)]
    /\ UNCHANGED <<mv, coord, added, calls, hard, opposed, retried>>

\* _retry_if_still_closed up to its own refresh.
OpenRetryFires(t) ==
    /\ openRetry # NoRetry
    /\ task[t].pc = "idle"
    /\ openRetry' = NoRetry
    /\ task' = [task EXCEPT ![t] = [Idle EXCEPT !.pc = "checking", !.op = "retry",
                                               !.cmd = "open", !.no = openRetry.owner]]
    /\ UNCHANGED <<mv, autoStop, coord, added, calls, hard, opposed, retried>>

\* The retry's refresh is published, and without another await the status is checked
\* and the open sent again.
RetryChecks(t) ==
    /\ task[t].pc = "checking"
    /\ \E c \in RefreshOutcome(coord) :
         /\ coord' = c
         /\ mv' = HandleCoordinatorUpdate(c, mv)
         /\ IF FreshStatus(c) = 0
            THEN /\ task' = [task EXCEPT ![t] = Dispatched(c, "retry", "open", task[t].no)]
                 /\ retried' = retried \cup {task[t].no}
            ELSE /\ task' = [task EXCEPT ![t] = Idle]
                 /\ UNCHANGED retried
    /\ UNCHANGED <<autoStop, openRetry, added, calls, hard, opposed>>

\* async_will_remove_from_hass: the timers are cancelled, the coroutines go on.
WillRemoveFromHass ==
    /\ added
    /\ added' = FALSE
    /\ autoStop' = Off /\ openRetry' = NoRetry
    /\ UNCHANGED <<task, mv, coord, calls, hard, opposed, retried>>

------------------------------------------------------------------------------
UserStep(t) == \/ AsyncOpenCover(t) \/ AsyncCloseCover(t) \/ AsyncStopCover(t)
               \/ AsyncSetCoverPosition(t)

Continues(t) == \/ CloudReplies(t) \/ BleSucceeds(t) \/ BleFails(t)
                \/ RefreshReturns(t) \/ RetryChecks(t)

Next == \/ \E t \in Task : \/ UserStep(t) \/ Continues(t)
                           \/ AutoStopFires(t) \/ OpenRetryFires(t)
        \/ EstimateAdvances \/ EstimateElapses
        \/ CoordinatorRefreshes \/ WillRemoveFromHass

Spec == Init /\ [][Next]_vars

\* Every request has a timeout, the loop runs its timers, and time passes.  Nobody has
\* to press a button, and a refresh outside the retry need never come.
Fairness ==
    /\ \A t \in Task : WF_vars(Continues(t))
    /\ WF_vars(\E t \in Task : AutoStopFires(t))
    /\ WF_vars(\E t \in Task : OpenRetryFires(t))
    /\ WF_vars(EstimateElapses)

FairSpec == Spec /\ Fairness

------------------------------------------------------------------------------
(* Properties                                                               *)

\* A motor command that the cloud carried out is not sent over BLE as well, however the
\* answer was lost or malformed (should_fallback_to_ble, _async_command), with one
\* exception that the code makes and its docstring does not ("malformed responses are
\* ambiguous ... does not duplicate it over BLE", api.py:20-24): an answer whose "meta"
\* mapping carries no usable code counts as a clean rejection (api.py:80).
AtMostOneRoute == \A t \in Task : task[t].pc = "ble" => task[t].executed # "yes"

\* An armed auto-stop has no newer user command behind it, and an armed open retry no
\* newer open, close or stop: whichever coroutine armed it, every later command that
\* was issued would have disarmed it (_cancel_auto_stop, _cancel_open_retry).
NoStaleTimer ==
    /\ autoStop # Off => autoStop = calls
    /\ openRetry # NoRetry => openRetry.seen = hard

\* One open command is followed by at most one retry, whatever other commands, polls
\* and retries overlap with it ("retrying once", _schedule_open_retry).
RetryOnce ==
    [][\A t \in Task : task[t].pc = "checking" /\ task'[t].pc \in {"cloud", "ble"}
                           => task[t].no \notin retried]_vars

\* The estimate never jumps: it moves by a level, or snaps to the end of a travel that
\* was under way, or to 0 when the cloud confirms the gate closed; out of the unknown
\* it only comes by one of these or at the far end of a movement that starts
\* (MovementEstimator, _handle_coordinator_update).
EstimateNeverJumps ==
    [][mv'.position # mv.position =>
         \/ mv'.position = mv.target
         \/ mv.position # Unknown /\ mv'.position - mv.position \in {-1, 1}
         \/ mv'.position = 0 /\ FreshStatus(coord') = 0
         \/ mv.position = Unknown /\ mv'.target = Top - mv'.position]_vars

\* The pause of a slider movement is sent: once its auto-stop is armed, the pause of this
\* very command is handed to the cloud or to BLE, or the user issues another command, or
\* the entity goes away, or the timer fires while the device is gone or no route leads to
\* it: then _async_command raises and the gate runs on (_schedule_auto_stop, cover.py:284).
\* Whether the pause then gets through is the transport's affair.
SliderPauseIsSent ==
    \A n \in Number \ {0} :
        autoStop = n ~> \/ \E t \in Task : task[t].op = "autoStop" /\ task[t].no = n
                        \/ calls > n \/ ~added
                        \/ autoStop # n /\ ~Reaches(coord)

\* Once the user stops issuing commands the cover comes to rest: no coroutine runs, no
\* timer is armed and no movement is simulated.  A retry that could arm the next one
\* would break it.
EventuallyAtRest ==
    <>[](/\ \A t \in Task : task[t] = Idle
         /\ autoStop = Off /\ openRetry = NoRetry /\ mv.target = Unknown)

\* "One harmless retry" (async_open_cover): the retry of an open is never sent after the
\* user's newer command to close, to pause or to move the slider down.
RetryIsHarmless ==
    [][\A t \in Task : task[t].pc = "checking" /\ task'[t].pc \in {"cloud", "ble"}
                      => task[t].no > opposed]_vars

==============================================================================
