--------------------------- MODULE MovementEstimator ---------------------------
(***************************************************************************)
(* The arithmetic of a cover's estimated travel (travel.py) and of the     *)
(* slider (cover.py), in integers: fractions of 1 are counted in Unit,     *)
(* positions in thousandths of the travel, time in ticks.                  *)
(*                                                                         *)
(* One command of the cover is under way at a time, and beside it at most  *)
(* one retry of an open; how commands overlap is GateCover's subject,      *)
(* which has no measure of time or place.                                  *)
(***************************************************************************)
EXTENDS Integers

CONSTANTS
    OpenDuration, CloseDuration,    \* the full travel, in ticks
    RetryDelay,                     \* from an open to its retry, in ticks
    Goal,                           \* positions the slider is moved to
    MaxCalls                        \* bound on the user's commands

Unit == 1000
Top == 1000
Percent == Top \div 100
Unknown == -1                       \* Python's None

ASSUME DurationAssumption == {OpenDuration, CloseDuration} \subseteq Nat \ {0}
ASSUME RetryAssumption == RetryDelay \in Nat \ {0}
ASSUME GoalAssumption == Goal \subseteq 0..Top
ASSUME CallsAssumption == MaxCalls \in Nat

VARIABLES
    est,        \* the MovementEstimator; elapsed is the time since _start_time
    command,    \* the command under way: what is done once it has been sent
    autoStop,   \* time left to the auto-stop
    retry,      \* time left to the open retry
    resend,     \* what the retry's coroutine awaits: "checking" the status, "sending" open
    slide,      \* history: the slider movement that the auto-stop is to end
    calls       \* number of the user's commands

vars == <<est, command, autoStop, retry, resend, slide, calls>>

Off == -1
NoSlide == [goal |-> Unknown, drift |-> 0, restarted |-> FALSE]
None == [op |-> "none", end |-> 0, delay |-> 0, goal |-> Unknown, current |-> 0]

Distance(x, y) == IF x < y THEN y - x ELSE x - y

Clamp(x) == IF x < 0 THEN 0 ELSE IF x > Unit THEN Unit ELSE x

------------------------------------------------------------------------------
(* travel.py                                                                *)

\* eased_fraction: the smoothstep.
EasedFraction(x) ==
    LET f == Clamp(x) IN (f * f * (3 * Unit - 2 * f)) \div (Unit * Unit)

\* A guess of the inverse after one step of Newton's method, which gives up where the
\* curve is flat.
Improved(guess, target) ==
    LET value == guess * guess * (3 * Unit - 2 * guess) - target * Unit * Unit
        slope == 6 * guess * (Unit - guess)
    IN  IF slope = 0 THEN guess ELSE Clamp(guess - value \div slope)

\* inverse_eased_fraction: 20 steps, starting from the straight line.
InverseEasedFraction(x) ==
    LET target == Clamp(x)
        guess[n \in 0..20] == IF n = 0 THEN target
                              ELSE LET last == guess[n - 1] IN Improved(last, target)
    IN  guess[20]

\* It is the inverse over the whole range, the flat ends included, but for the rounding: a fact
\* of two functions of finite domain, which TLC evaluates for every argument.
ASSUME InverseAssumption ==
    \A x \in 0..Unit : /\ InverseEasedFraction(x) \in 0..Unit
                       /\ Distance(EasedFraction(InverseEasedFraction(x)), x) <= 1

Resting(p) == [position |-> p, target |-> Unknown, start |-> 0, duration |-> 1, elapsed |-> 0]

IsMoving(m) == m.target # Unknown

\* position_at, but for what it changes.
PositionAt(m) ==
    IF ~IsMoving(m) THEN m.position
    ELSE LET fraction == EasedFraction((m.elapsed * Unit) \div m.duration)
         IN  IF fraction >= Unit THEN m.target
             ELSE m.start + (fraction * (m.target - m.start)) \div Unit

\* position_at: a movement whose duration has elapsed ends at its target.
Resolved(m) == IF IsMoving(m) /\ m.elapsed >= m.duration THEN Resting(m.target) ELSE m

\* start without the position so far (a mutation).
StartFromFarEnd(m, target, duration) ==
    [position |-> Top - target, target |-> target, start |-> Top - target,
     duration |-> duration, elapsed |-> 0]

\* start: from the position so far, or from the other end if it is not known.
Start(m, target, duration) ==
    LET known == PositionAt(m)
        current == IF known = Unknown THEN Top - target ELSE known
    IN  [position |-> current, target |-> target, start |-> current,
         duration |-> duration, elapsed |-> 0]

\* The end of async_stop_cover: the position so far is kept, and the movement cleared.
Paused(m) == Resting(PositionAt(m))

------------------------------------------------------------------------------
(* cover.py                                                                 *)

DurationTo(end) == IF end = Top THEN OpenDuration ELSE CloseDuration

\* The time to the auto-stop taken from the whole travel instead of the way to the end (a
\* mutation).
StopDelayOfWholeTravel(goal, current, end) ==
    LET fraction == InverseEasedFraction((Distance(goal, current) * Unit) \div Top)
    IN  (fraction * DurationTo(end) + Unit - 1) \div Unit

\* The time to the auto-stop: the eased share of the way to the end, up to the next tick.
StopDelay(goal, current, end) ==
    LET fraction == InverseEasedFraction(
                        (Distance(goal, current) * Unit) \div Distance(end, current))
    IN  (fraction * DurationTo(end) + Unit - 1) \div Unit

Init ==
    /\ est = Resting(Unknown)
    /\ command = None
    /\ autoStop = Off /\ slide = NoSlide
    /\ retry = Off /\ resend = "no"
    /\ calls = 0

Calls ==
    /\ command = None /\ calls < MaxCalls
    /\ calls' = calls + 1
    /\ autoStop' = Off /\ slide' = NoSlide
    /\ UNCHANGED resend

\* async_open_cover, async_close_cover and async_stop_cover up to the await of the command.
Commands(op, end) ==
    /\ Calls
    /\ command' = [None EXCEPT !.op = op, !.end = end]
    /\ retry' = Off
    /\ UNCHANGED est

Opens == Commands("move", Top)
Closes == Commands("move", 0)
Stops == Commands("pause", 0)

\* async_set_cover_position up to its await: the end to run to, and for how long.  The retry
\* of an open that it redirects stays armed.
Slides(goal) ==
    LET known == PositionAt(est)
        current == IF known # Unknown THEN known ELSE IF 2 * goal >= Top THEN 0 ELSE Top
        end == IF goal > current THEN Top ELSE 0
    IN  /\ Distance(goal, current) >= Percent
        /\ Calls
        /\ est' = Resolved(est)
        /\ command' = [op |-> "move", end |-> end, goal |-> goal, current |-> current,
                       delay |-> StopDelay(goal, current, end)]
        /\ UNCHANGED retry

\* The command has been sent: the estimate starts or is paused, a slider movement gets its
\* auto-stop, and an open its retry.
Sent ==
    /\ command # None
    /\ est' = IF command.op = "move" THEN Start(est, command.end, DurationTo(command.end))
              ELSE Paused(est)
    /\ IF command.goal = Unknown THEN UNCHANGED <<autoStop, slide>>
       ELSE /\ autoStop' = command.delay
            /\ slide' = [goal |-> command.goal, restarted |-> FALSE,
                         drift |-> Distance(PositionAt(est'), command.current)]
    /\ retry' = IF command.op = "move" /\ command.end = Top /\ command.goal = Unknown
                THEN RetryDelay ELSE retry
    /\ command' = None
    /\ UNCHANGED <<resend, calls>>

\* The command raises.
Fails ==
    /\ command # None
    /\ command' = None
    /\ UNCHANGED <<est, autoStop, retry, resend, slide, calls>>

\* The auto-stop fires: async_stop_cover.
AutoStopFires ==
    /\ autoStop = 0
    /\ autoStop' = Off /\ slide' = NoSlide
    /\ retry' = Off
    /\ command' = [None EXCEPT !.op = "pause"]
    /\ UNCHANGED <<est, resend, calls>>

\* _retry_if_still_closed up to its own refresh; one retry at a time.
RetryFires ==
    /\ retry = 0 /\ resend = "no"
    /\ retry' = Off /\ resend' = "checking"
    /\ UNCHANGED <<est, command, autoStop, slide, calls>>

\* The retry's refresh is over: the gate is not known to be closed, or it is, and open is
\* sent again.  A published closed status resets the estimate; a status from before a
\* refresh that failed does not.
RetryChecks ==
    /\ resend = "checking"
    /\ \/ resend' = "no" /\ UNCHANGED est
       \/ resend' = "sending" /\ est' \in {est, Resting(0)}
    /\ UNCHANGED <<command, autoStop, retry, slide, calls>>

\* The open was sent again: the estimate starts anew, and whatever timer is armed stays so.
RetrySent ==
    /\ resend = "sending"
    /\ resend' = "no"
    /\ est' = Start(est, Top, OpenDuration)
    /\ slide' = [goal |-> slide.goal, drift |-> slide.drift, restarted |-> autoStop # Off]
    /\ UNCHANGED <<command, autoStop, retry, calls>>

RetryFails ==
    /\ resend = "sending"
    /\ resend' = "no"
    /\ UNCHANGED <<est, command, autoStop, retry, slide, calls>>

\* Somebody reads is_opening, is_closing or current_cover_position.
Reads ==
    /\ est' = Resolved(est)
    /\ UNCHANGED <<command, autoStop, retry, resend, slide, calls>>

\* _handle_coordinator_update with a closed status.
ConfirmedClosed ==
    /\ est' = Resting(0)
    /\ UNCHANGED <<command, autoStop, retry, resend, slide, calls>>

Left(timer) == IF timer = Off THEN Off ELSE timer - 1

\* A tick of the clock; a timer does not wait when it is due.
Tick ==
    /\ autoStop # 0 /\ retry # 0
    /\ IsMoving(est) \/ autoStop # Off \/ retry # Off
    /\ est' = IF IsMoving(est) /\ est.elapsed < est.duration
              THEN [est EXCEPT !.elapsed = @ + 1] ELSE est
    /\ autoStop' = Left(autoStop) /\ retry' = Left(retry)
    /\ UNCHANGED <<command, resend, slide, calls>>

Next == \/ Opens \/ Closes \/ Stops \/ \E goal \in Goal : Slides(goal)
        \/ Sent \/ Fails \/ AutoStopFires \/ Reads \/ ConfirmedClosed \/ Tick
        \/ RetryFires \/ RetryChecks \/ RetrySent \/ RetryFails

Spec == Init /\ [][Next]_vars

------------------------------------------------------------------------------
(* Properties                                                               *)

\* The steepest slope of the smoothstep is 3/2: what a tick moves the estimate at most, one
\* for rounding included.
TickOf(duration) == (3 * Top) \div (2 * duration) + 2

\* "Automatically paused near the target" (CHANGELOG.md:53): when the auto-stop of a slider
\* movement fires, the estimate is as near the target as the travel of one tick and of the
\* time the command itself took allow, whatever movement the slider interrupted
\* (async_set_cover_position) -- unless the retry of an earlier open, which the slider does
\* not disarm, has started the gate anew meanwhile (cover.py:211-214): then the auto-stop
\* fires wherever it happens to be, and nothing is claimed here.
SliderStopsNear ==
    autoStop = 0 /\ IsMoving(est) /\ ~slide.restarted =>
        Distance(PositionAt(est), slide.goal) <= slide.drift + TickOf(est.duration)

\* Starting, redirecting, pausing, finishing and reading a movement never move the estimate:
\* only time does, towards the target and no faster than the travel, and a closed status
\* (MovementEstimator, _handle_coordinator_update).
EstimateIsSmooth ==
    [][LET old == PositionAt(est)
           new == PositionAt(est')
       IN  new # old =>
             \/ est' = Resting(0)
             \/ old = Unknown /\ IsMoving(est') /\ new = Top - est'.target
             \/ /\ est'.elapsed = est.elapsed + 1
                /\ Distance(new, old) <= TickOf(est.duration)
                /\ Distance(new, est.target) <= Distance(old, est.target)]_vars
==============================================================================
