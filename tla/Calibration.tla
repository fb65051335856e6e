----------------------------- MODULE Calibration -----------------------------
(***************************************************************************)
(* The travel calibration of one gate (button.py): the button that opens   *)
(* the gate, closes it again and times the closing by the door status of   *)
(* the coordinator, and the button that clears the durations.              *)
(*                                                                         *)
(* Time is counted in ticks, one for each sleep of the polling loop.  The  *)
(* gate moves by a step in a tick.  The awaits of a press other than its   *)
(* sleeps last any time.  A coordinator makes its scheduled and requested  *)
(* refreshes one at a time, under the debouncer's lock; the refresh of an  *)
(* open retry (cover.py) takes no lock and runs beside them.  A reload of  *)
(* the entry replaces the coordinator; a press that is under way goes on   *)
(* with its own, which is shut down.                                       *)
(***************************************************************************)
EXTENDS Integers

CONSTANTS
    Press,          \* presses of the calibration button
    Retry,          \* open retries whose refreshes may overlap
    Travel,         \* ticks of a full travel of the gate
    Settle,         \* CALIBRATION_OPEN_SETTLE
    Timeout,        \* CALIBRATION_TIMEOUT
    MinDuration,    \* MIN_TRAVEL_DURATION
    MaxDuration,    \* MAX_TRAVEL_DURATION
    Cooldown,       \* ticks for which the debouncer makes no other refresh
    MaxReloads      \* bound on the reloads of the entry

ASSUME CalibrationAssumption ==
    /\ {Travel, Settle, Timeout, MinDuration, MaxDuration, Cooldown, MaxReloads} \subseteq Nat
    /\ 0 < MinDuration /\ MinDuration <= MaxDuration /\ MaxDuration <= Timeout

VARIABLES
    door,       \* how far the gate is open
    motor,      \* what the motor does
    gen,        \* which coordinator is the loaded one
    status,     \* the door status in the data of each coordinator
    stage,      \* where each of its refreshes is
    held,       \* the door status in the devices that refresh is to publish
    cooling,    \* ticks left of each coordinator's cooldown
    pc,         \* where each press is
    coord,      \* its entity's coordinator
    clock,      \* ticks since it began to settle, then since its "start"
    durations,  \* both durations in the gate's subentry; 0 if unset
    source,     \* history: the press that stored them
    confirmed,  \* history: that press, if the status that ended its timing was read after
                \* the gate took its close
    alone       \* history: nobody else moved the gate since it took the press's open

gate == <<door, motor>>
refreshes == <<gen, status, stage, held, cooling>>
presses == <<pc, coord, clock>>
stored == <<durations, source, confirmed>>
vars == <<gate, refreshes, presses, stored, alone>>

Smaller(a, b) == IF a < b THEN a ELSE b
Larger(a, b) == IF a < b THEN b ELSE a

Gen == 0..MaxReloads
Refresh == Gen \X ({"lock"} \cup Retry)   \* under the lock, or an open retry's own
Stage == {"none", "asked", "read"}
Phase == {"new", "asksOpen", "opens", "settles", "asksClose", "closes", "sleeps", "asks",
          "awaits", "polls", "over"}

\* The gate has taken a command of the press, which is not over.
Moving == Phase \ {"new", "asksOpen", "over"}

\* It has also taken the close.
Closing == {"closes", "sleeps", "asks", "awaits", "polls"}
Timing == {"asksClose"} \cup Closing

\* A door status as it is handed on.
Reading ==
    [door : {"closed", "other"},
     after : SUBSET Press]      \* history: this coordinator's presses whose close the
                                \* gate had taken when the cloud gave it
Nothing == [door |-> "other", after |-> {}]

\* What a device list says of the door: the cloud's own copy.
Listed == {r \in Reading : r.after = {}}

TypeOK ==
    /\ door \in 0..Travel /\ motor \in {"open", "close", "pause"}
    /\ gen \in Gen /\ status \in [Gen -> Reading]
    /\ stage \in [Refresh -> Stage] /\ held \in [Refresh -> Reading]
    /\ cooling \in [Gen -> 0..Cooldown]
    /\ pc \in [Press -> Phase] /\ coord \in [Press -> Gen] /\ clock \in [Press -> Nat]
    /\ durations \in {0} \cup MinDuration..MaxDuration
    /\ source \subseteq Press /\ confirmed \subseteq source /\ alone \in [Press -> BOOLEAN]

Init ==
    /\ door \in 0..Travel /\ motor = "pause"
    /\ gen = 0
    /\ status \in {[g \in Gen |-> IF g = 0 THEN r ELSE Nothing] : r \in Listed}
    /\ stage = [r \in Refresh |-> "none"] /\ held = [r \in Refresh |-> Nothing]
    /\ cooling = [g \in Gen |-> 0]
    /\ pc = [p \in Press |-> "new"]
    /\ coord = [p \in Press |-> 0]
    /\ clock = [p \in Press |-> 0]
    /\ durations = 0 /\ source = {} /\ confirmed = {}
    /\ alone = [p \in Press |-> FALSE]

------------------------------------------------------------------------------
(* The gate                                                                 *)

DoorMoves == door' = CASE motor = "open"  -> Smaller(door + 1, Travel)
                       [] motor = "close" -> Larger(door - 1, 0)
                       [] OTHER           -> door

\* The door and every clock advance, and each sleep of a polling loop ends.
Tick ==
    /\ DoorMoves
    /\ clock' = [p \in Press |-> CASE pc[p] = "settles" -> Smaller(clock[p] + 1, Settle)
                                   [] pc[p] \in Timing  -> Smaller(clock[p] + 1, Timeout)
                                   [] OTHER             -> clock[p]]
    /\ pc' = [p \in Press |-> IF pc[p] = "sleeps" THEN "asks" ELSE pc[p]]
    /\ cooling' = [g \in Gen |-> Larger(cooling[g] - 1, 0)]
    /\ UNCHANGED <<motor, gen, status, stage, held, coord, stored, alone>>

\* The motor takes a command; the presses under way that did not send it note that.
Commands(command, senders) ==
    /\ motor' = command
    /\ alone' = [p \in Press |-> IF p \in senders THEN alone[p] \/ command = "open"
                                 ELSE alone[p] /\ pc[p] \notin Moving]

\* The cover, a remote control, an obstacle.
OtherMoves ==
    /\ \E command \in {"open", "close", "pause"} : Commands(command, {})
    /\ UNCHANGED <<door, refreshes, presses, stored>>

------------------------------------------------------------------------------
(* A press of the calibration button                                        *)

Goto(p, phase) == pc' = [pc EXCEPT ![p] = phase]

\* async_press up to its first await; without a route it raises.
Presses(p) ==
    /\ pc[p] = "new"
    /\ Goto(p, "asksOpen") \/ Goto(p, "over")
    /\ coord' = [coord EXCEPT ![p] = gen]
    /\ UNCHANGED <<gate, refreshes, clock, stored, alone>>

GateOpens(p) ==
    /\ pc[p] = "asksOpen"
    /\ Goto(p, "opens") /\ Commands("open", {p})
    /\ UNCHANGED <<door, refreshes, coord, clock, stored>>

OpenAnswered(p) ==
    /\ pc[p] = "opens"
    /\ Goto(p, "settles") /\ clock' = [clock EXCEPT ![p] = 0]
    /\ UNCHANGED <<gate, refreshes, coord, stored, alone>>

\* The close sent as soon as the open is answered (a mutation).
SettlesNot(p) ==
    /\ pc[p] = "settles"
    /\ Goto(p, "asksClose") /\ clock' = [clock EXCEPT ![p] = 0]
    /\ UNCHANGED <<gate, refreshes, coord, stored, alone>>

\* The sleep ends; start is taken, and the close is sent or, without a route, the press raises.
Settles(p) ==
    /\ pc[p] = "settles" /\ clock[p] >= Settle
    /\ Goto(p, "asksClose") \/ Goto(p, "over")
    /\ clock' = [clock EXCEPT ![p] = 0]
    /\ UNCHANGED <<gate, refreshes, coord, stored, alone>>

GateCloses(p) ==
    /\ pc[p] = "asksClose"
    /\ Goto(p, "closes") /\ Commands("close", {p})
    /\ UNCHANGED <<door, refreshes, coord, clock, stored>>

\* A command is rejected, or it or its answer is lost: HomeAssistantError.
SendFails(p) ==
    /\ pc[p] \in {"asksOpen", "opens", "asksClose", "closes"}
    /\ Goto(p, "over")
    /\ UNCHANGED <<gate, refreshes, coord, clock, stored, alone>>

\* A loop without its timeout (a mutation).
LoopsForEver(p) == Goto(p, "sleeps")

\* The test of the polling loop.
Loops(p) == Goto(p, IF clock[p] < Timeout THEN "sleeps" ELSE "over")

CloseAnswered(p) ==
    /\ pc[p] = "closes"
    /\ Loops(p)
    /\ UNCHANGED <<gate, refreshes, coord, clock, stored, alone>>

\* duration without its lower limit (a mutation).
MeasuredWithoutLimit(p) == Smaller(MaxDuration, clock[p])

\* duration, between its limits.
Measured(p) == Smaller(MaxDuration, Larger(MinDuration, clock[p]))

\* _async_update_gate_settings, for both durations; the reload follows (Reload).
UpdateGateSettings(p) ==
    /\ durations' = Measured(p) /\ source' = {p}
    /\ confirmed' = {p} \cap status[coord[p]].after

\* A refresh of coordinator g ends its cooldown and begins with a copy of its devices, or a
\* new device list.
RefreshBegins(g, lane) ==
    /\ stage[<<g, lane>>] = "none"
    /\ cooling' = [cooling EXCEPT ![g] = 0]
    /\ stage' = [stage EXCEPT ![<<g, lane>>] = "asked"]
    /\ \E r \in {status[g]} \cup Listed : held' = [held EXCEPT ![<<g, lane>>] = r]

\* async_request_refresh: a coordinator that is shut down, refreshing or cooling down returns
\* at once; with another one the press waits for a refresh of its own.
AsksRefresh(p) ==
    /\ pc[p] = "asks"
    /\ LET g == coord[p] IN
         IF g # gen \/ stage[<<g, "lock">>] # "none" \/ cooling[g] > 0
         THEN Goto(p, "polls") /\ UNCHANGED <<stage, held, cooling>>
         ELSE Goto(p, "awaits") /\ RefreshBegins(g, "lock")
    /\ UNCHANGED <<gate, gen, status, coord, clock, stored, alone>>

\* The test of the door status after it.
Polls(p) ==
    /\ pc[p] = "polls"
    /\ IF status[coord[p]].door = "closed"
       THEN Goto(p, "over") /\ UpdateGateSettings(p)
       ELSE Loops(p) /\ UNCHANGED stored
    /\ UNCHANGED <<gate, refreshes, coord, clock, alone>>

\* The reset button.
Reset ==
    /\ durations # 0
    /\ durations' = 0 /\ source' = {} /\ confirmed' = {}
    /\ UNCHANGED <<gate, refreshes, presses, alone>>

------------------------------------------------------------------------------
(* The coordinators                                                         *)

\* A scheduled refresh, one that another entity asks for or one put off by the cooldown, under
\* the lock; or an open retry's.  Those begun while no press of the coordinator is under way
\* are left out: a press may find any status, and any of them may begin as it does.
RefreshStarts ==
    /\ gen \in {coord[p] : p \in {q \in Press : pc[q] \notin {"new", "over"}}}
    /\ \E lane \in {"lock"} \cup Retry : RefreshBegins(gen, lane)
    /\ UNCHANGED <<gate, gen, status, presses, stored, alone>>

\* The cloud answers with the status of the door.
RefreshReads(r) ==
    /\ stage[r] = "asked"
    /\ stage' = [stage EXCEPT ![r] = "read"]
    /\ held' = [held EXCEPT ![r] = [door |-> IF door = 0 THEN "closed" ELSE "other",
                                   after |-> {p \in Press : coord[p] = r[1] /\ pc[p] \in Closing}]]
    /\ UNCHANGED <<gate, gen, status, cooling, presses, stored, alone>>

\* A refresh is over, and the press that waited for it goes on.  A requested one is followed
\* by a cooldown.
Over(r) ==
    /\ \E ticks \in IF r[2] = "lock" THEN {0, Cooldown} ELSE {cooling[r[1]]} :
         cooling' = [cooling EXCEPT ![r[1]] = ticks]
    /\ stage' = [stage EXCEPT ![r] = "none"] /\ held' = [held EXCEPT ![r] = Nothing]
    /\ pc' = [p \in Press |-> IF r = <<coord[p], "lock">> /\ pc[p] = "awaits"
                              THEN "polls" ELSE pc[p]]
    /\ UNCHANGED <<gate, gen, coord, clock, stored, alone>>

\* Its devices are published, with the status they came with if the read failed.
RefreshEnds(r) ==
    /\ stage[r] # "none"
    /\ status' = [status EXCEPT ![r[1]] = held[r]]
    /\ Over(r)

\* The whole refresh fails and publishes nothing.
RefreshFails(r) == stage[r] # "none" /\ Over(r) /\ UNCHANGED status

\* _async_update_listener, after new durations and other changes of the entry: the old
\* coordinator is shut down, and the new one has had its first refresh.
Reload ==
    /\ gen < MaxReloads
    /\ gen' = gen + 1
    /\ \E r \in Listed : status' = [status EXCEPT ![gen + 1] = r]
    /\ UNCHANGED <<gate, stage, held, cooling, presses, stored, alone>>

------------------------------------------------------------------------------
PressContinues(p) == \/ GateOpens(p) \/ OpenAnswered(p) \/ Settles(p) \/ GateCloses(p)
                     \/ SendFails(p) \/ CloseAnswered(p) \/ AsksRefresh(p) \/ Polls(p)

RefreshContinues(r) == RefreshReads(r) \/ RefreshEnds(r) \/ RefreshFails(r)

Next ==
    \/ Tick \/ OtherMoves \/ Reset \/ RefreshStarts \/ Reload
    \/ \E p \in Press : Presses(p) \/ PressContinues(p)
    \/ \E r \in Refresh : RefreshContinues(r)

Spec == Init /\ [][Next]_vars

\* Time passes and the awaits of a press and of a refresh end.  None need ever succeed.
FairSpec == /\ Spec /\ WF_vars(Tick)
            /\ \A p \in Press : WF_vars(PressContinues(p))
            /\ \A g \in Gen : WF_vars(RefreshContinues(<<g, "lock">>))

------------------------------------------------------------------------------
(* Properties                                                               *)

\* The closed status may be older than the close it ends (it is not checked against
\* gate_status_freshness, and a refresh may be skipped, fail or be published late), and the
\* gate opens for CALIBRATION_OPEN_SETTLE only.  If neither is so and nobody else moves the
\* gate, what is stored is no shorter than the travel: a status read after the gate took the
\* close ends no timing before the gate is down from where it opened to, whatever reads of
\* overlapping refreshes and reloads come between (EzvizTravelDurationCalibrationButton).
FullTravelTimed ==
    \A p \in confirmed : alone[p] => durations >= Smaller(Smaller(Travel, Settle), MaxDuration)

\* The button "times a full close" down to a "confirmed closed status": unless others move
\* the gate, what is stored is no shorter than a full travel (button.py, README.md).
TimesAFullClose ==
    \A p \in source : alone[p] => durations >= Smaller(Travel, MaxDuration)

\* A press comes to its end though the gate may never close nor a refresh ever succeed
\* (CALIBRATION_TIMEOUT).
PressEnds == \A p \in Press : pc[p] = "asksOpen" ~> pc[p] = "over"
==============================================================================
