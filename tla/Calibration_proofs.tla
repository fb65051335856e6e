-------------------------- MODULE Calibration_proofs --------------------------
(***************************************************************************)
(* Theorems about Calibration for every number of presses, overlapping     *)
(* refreshes and reloads and every travel time, settling time, timeout,    *)
(* cooldown and limit of the durations.                                    *)
(***************************************************************************)
EXTENDS Calibration, TLAPS

USE CalibrationAssumption DEF Smaller, Larger, Gen, Refresh, Stage, Phase

\* A refresh begins within the types.
LEMMA BeginTypes ==
    ASSUME TypeOK, NEW g \in Gen, NEW lane \in {"lock"} \cup Retry, RefreshBegins(g, lane)
    PROVE  /\ stage' \in [Refresh -> Stage] /\ held' \in [Refresh -> Reading]
           /\ cooling' \in [Gen -> 0..Cooldown]
<1>1. stage' \in [Refresh -> Stage] /\ cooling' \in [Gen -> 0..Cooldown]
  BY DEF TypeOK, RefreshBegins
<1>2. PICK r \in {status[g]} \cup Listed : held' = [held EXCEPT ![<<g, lane>>] = r]
  BY DEF RefreshBegins
<1>3. r \in Reading /\ held \in [Refresh -> Reading]
  BY DEF TypeOK, Listed
<1>4. held' \in [Refresh -> Reading]
  BY <1>2, <1>3
<1>5. QED
  BY <1>1, <1>4

\* A refresh ends within the types.
LEMMA OverTypes ==
    ASSUME TypeOK, NEW r \in Refresh, Over(r)
    PROVE  /\ stage' \in [Refresh -> Stage] /\ held' \in [Refresh -> Reading]
           /\ cooling' \in [Gen -> 0..Cooldown] /\ pc' \in [Press -> Phase]
           /\ UNCHANGED <<gate, gen, coord, clock, stored, alone>>
<1>1. stage' \in [Refresh -> Stage] /\ pc' \in [Press -> Phase]
  BY DEF TypeOK, Over
<1>2. Nothing \in Reading
  BY DEF Nothing, Reading
<1>3. held' \in [Refresh -> Reading]
  BY <1>2 DEF TypeOK, Over
<1>4. PICK ticks \in 0..Cooldown : cooling' = [cooling EXCEPT ![r[1]] = ticks]
  <2>1. r[1] \in Gen /\ cooling[r[1]] \in 0..Cooldown
    BY DEF TypeOK
  <2>2. {0, Cooldown} \subseteq 0..Cooldown
    OBVIOUS
  <2>3. PICK ticks \in IF r[2] = "lock" THEN {0, Cooldown} ELSE {cooling[r[1]]} :
             cooling' = [cooling EXCEPT ![r[1]] = ticks]
    BY DEF Over
  <2>4. ticks \in 0..Cooldown
    BY <2>1, <2>2, <2>3
  <2>5. QED
    BY <2>3, <2>4
<1>5. cooling' \in [Gen -> 0..Cooldown]
  BY <1>4 DEF TypeOK
<1>6. QED
  BY <1>1, <1>3, <1>5 DEF Over, gate, stored

\* The types of the state, one operation after the other.
LEMMA TypeStep == TypeOK /\ [Next]_vars => TypeOK'
<1> SUFFICES ASSUME TypeOK, [Next]_vars PROVE TypeOK'
  OBVIOUS
<1> USE DEF TypeOK, gate, refreshes, presses, stored, Goto, Commands
<1>1. CASE Tick
  <2>1. door' \in 0..Travel
    BY <1>1 DEF Tick, DoorMoves
  <2>2. clock' \in [Press -> Nat]
    BY <1>1 DEF Tick
  <2>3. pc' \in [Press -> Phase]
    BY <1>1 DEF Tick
  <2>4. cooling' \in [Gen -> 0..Cooldown]
    BY <1>1 DEF Tick
  <2>5. QED
    BY <1>1, <2>1, <2>2, <2>3, <2>4 DEF Tick
<1>2. CASE OtherMoves
  BY <1>2 DEF OtherMoves
<1>3. CASE Reset
  BY <1>3 DEF Reset
<1>4. CASE RefreshStarts
  <2>1. PICK lane \in {"lock"} \cup Retry : RefreshBegins(gen, lane)
    BY <1>4 DEF RefreshStarts
  <2>2. /\ stage' \in [Refresh -> Stage] /\ held' \in [Refresh -> Reading]
        /\ cooling' \in [Gen -> 0..Cooldown]
    BY <2>1, BeginTypes
  <2>3. QED
    BY <1>4, <2>2 DEF RefreshStarts
<1>5. CASE Reload
  BY <1>5 DEF Reload, Listed
<1>6. ASSUME NEW p \in Press, Presses(p) PROVE TypeOK'
  BY <1>6 DEF Presses
<1>7. ASSUME NEW p \in Press, GateOpens(p) \/ GateCloses(p) PROVE TypeOK'
  BY <1>7 DEF GateOpens, GateCloses
<1>8. ASSUME NEW p \in Press, OpenAnswered(p) \/ Settles(p) \/ SendFails(p) PROVE TypeOK'
  <2>1. PICK phase \in Phase : pc' = [pc EXCEPT ![p] = phase]
    BY <1>8 DEF OpenAnswered, Settles, SendFails
  <2>2. clock' \in [Press -> Nat]
    <3>1. clock' = [clock EXCEPT ![p] = 0] \/ clock' = clock
      BY <1>8 DEF OpenAnswered, Settles, SendFails
    <3>2. [clock EXCEPT ![p] = 0] \in [Press -> Nat] /\ clock \in [Press -> Nat]
      OBVIOUS
    <3>3. QED
      BY <3>1, <3>2, Zenon
  <2>3. UNCHANGED <<door, motor, gen, status, stage, held, cooling, coord, stored, alone>>
    BY <1>8 DEF OpenAnswered, Settles, SendFails
  <2>4. QED
    BY <2>1, <2>2, <2>3
<1>9. ASSUME NEW p \in Press, CloseAnswered(p) PROVE TypeOK'
  BY <1>9 DEF CloseAnswered, Loops
<1>10. ASSUME NEW p \in Press, AsksRefresh(p) PROVE TypeOK'
  <2>1. /\ stage' \in [Refresh -> Stage] /\ held' \in [Refresh -> Reading]
        /\ cooling' \in [Gen -> 0..Cooldown]
    BY <1>10, BeginTypes DEF AsksRefresh
  <2>2. PICK phase \in Phase : pc' = [pc EXCEPT ![p] = phase]
    BY <1>10 DEF AsksRefresh
  <2>3. UNCHANGED <<door, motor, gen, status, coord, clock, stored, alone>>
    BY <1>10 DEF AsksRefresh
  <2>4. QED
    BY <2>1, <2>2, <2>3
<1>11. ASSUME NEW p \in Press, Polls(p) PROVE TypeOK'
  <2>1. Measured(p) \in MinDuration..MaxDuration
    BY DEF Measured
  <2>2. PICK phase \in Phase : pc' = [pc EXCEPT ![p] = phase]
    BY <1>11 DEF Polls, Loops, UpdateGateSettings
  <2>3. /\ durations' \in {0} \cup MinDuration..MaxDuration /\ source' \subseteq Press
        /\ confirmed' \subseteq source'
    BY <1>11, <2>1 DEF Polls, UpdateGateSettings
  <2>4. UNCHANGED <<door, motor, gen, status, stage, held, cooling, coord, clock, alone>>
    BY <1>11 DEF Polls, UpdateGateSettings
  <2>5. QED
    BY <2>2, <2>3, <2>4
<1>12. ASSUME NEW r \in Refresh, RefreshReads(r) PROVE TypeOK'
  <2>1. PICK k \in Reading : held' = [held EXCEPT ![r] = k]
    BY <1>12 DEF RefreshReads, Reading
  <2>2. QED
    BY <1>12, <2>1 DEF RefreshReads
<1>13. ASSUME NEW r \in Refresh, RefreshEnds(r) \/ RefreshFails(r) PROVE TypeOK'
  <2>1. Over(r)
    BY <1>13 DEF RefreshEnds, RefreshFails
  <2>2. status' \in [Gen -> Reading]
    <3>1. held[r] \in Reading /\ (status' = status \/ status' = [status EXCEPT ![r[1]] = held[r]])
      BY <1>13 DEF RefreshEnds, RefreshFails
    <3>2. QED
      BY <3>1
  <2>3. QED
    BY <2>1, <2>2, OverTypes
<1>14. CASE UNCHANGED vars
  BY <1>14 DEF vars
<1>15. QED
  BY <1>1, <1>2, <1>3, <1>4, <1>5, <1>6, <1>7, <1>8, <1>9, <1>10, <1>11, <1>12, <1>13, <1>14
     DEF Next, PressContinues, RefreshContinues

\* The state of the calibration stays well-formed, and what it stores lies between
\* MIN_TRAVEL_DURATION and MAX_TRAVEL_DURATION.
THEOREM TypeCorrect == Spec => []TypeOK
<1>1. Init => TypeOK
  <2>1. Listed \subseteq Reading /\ Nothing \in Reading
    BY DEF Listed, Nothing, Reading
  <2>2. Init => status \in [Gen -> Reading]
    BY <2>1 DEF Init
  <2>3. Init => held \in [Refresh -> Reading] /\ stage \in [Refresh -> Stage]
    BY <2>1 DEF Init
  <2>4. Init => /\ cooling \in [Gen -> 0..Cooldown] /\ coord \in [Press -> Gen] /\ gen \in Gen
                /\ pc \in [Press -> Phase] /\ alone \in [Press -> BOOLEAN]
                /\ clock \in [Press -> Nat]
    BY DEF Init
  <2>5. QED
    BY <2>2, <2>3, <2>4 DEF Init, TypeOK
<1>2. QED
  BY <1>1, TypeStep, PTL DEF Spec

------------------------------------------------------------------------------
\* How far the gate is open when it is closed again, and what of it may be stored.
Depth == Smaller(Travel, Settle)
Least == Smaller(Depth, MaxDuration)

\* The press has timed enough.
Timed(p) == pc[p] \in Closing /\ clock[p] >= Least

\* A gate that only the press moves does what the press has got to.
Obeys(p) ==
    alone[p] /\ pc[p] \in Moving =>
        /\ pc[p] \notin Closing => motor = "open"
        /\ pc[p] = "settles" => door >= Smaller(Travel, clock[p])
        /\ pc[p] = "asksClose" => door >= Depth
        /\ pc[p] \in Closing => motor = "close" /\ (door + clock[p] >= Depth \/ Timed(p))

GateObeys == \A p \in Press : Obeys(p)

\* Every status there is, published or not.
Given == {status[g] : g \in Gen} \cup {held[r] : r \in Refresh}

\* A status counts as read after a press's close only once the gate has taken that close,
\* and such a status is closed only when the press has timed enough.
Follows(p) ==
    /\ pc[p] \notin Closing \cup {"over"} => \A k \in Given : p \notin k.after
    /\ alone[p] /\ pc[p] \in Closing =>
           \A k \in Given : p \in k.after /\ k.door = "closed" => Timed(p)

ReadsFollow == \A p \in Press : Follows(p)

\* The press whose measurement is stored is over.
SourceIsOver == \A p \in source : pc[p] = "over"

CalibrationInv == GateObeys /\ ReadsFollow /\ SourceIsOver /\ FullTravelTimed

\* Every step keeps the gate at what each press has got to.
LEMMA ObeysStep == TypeOK /\ GateObeys /\ [Next]_vars => GateObeys'
<1> SUFFICES ASSUME TypeOK, GateObeys, [Next]_vars, NEW q \in Press PROVE Obeys(q)'
  BY DEF GateObeys
<1>0. /\ Obeys(q)
      /\ door \in 0..Travel /\ pc \in [Press -> Phase] /\ clock \in [Press -> Nat]
      /\ alone \in [Press -> BOOLEAN]
  BY DEF GateObeys, TypeOK
<1> USE DEF gate, refreshes, presses, stored, Goto, Moving, Closing
<1>1. ASSUME UNCHANGED <<door, motor>>, pc'[q] = pc[q], clock'[q] = clock[q],
             alone'[q] => alone[q]
      PROVE  Obeys(q)'
  BY <1>0, <1>1 DEF Obeys, Timed
<1>2. ASSUME pc'[q] = pc[q], alone'[q] => pc[q] \notin Moving PROVE Obeys(q)'
  BY <1>2 DEF Obeys
<1>3. CASE Tick
  <2>1. /\ motor' = motor /\ alone' = alone
        /\ door' \in 0..Travel
        /\ motor = "open" => door' = Smaller(door + 1, Travel)
        /\ motor = "close" => door' = Larger(door - 1, 0)
    BY <1>0, <1>3 DEF Tick, DoorMoves
  <2>2. pc'[q] = (IF pc[q] = "sleeps" THEN "asks" ELSE pc[q])
    BY <1>0, <1>3 DEF Tick
  <2>3. /\ pc[q] = "settles" => clock'[q] = Smaller(clock[q] + 1, Settle)
        /\ pc[q] \in Closing => clock'[q] = Smaller(clock[q] + 1, Timeout)
    BY <1>0, <1>3 DEF Tick, Timing
  <2>4. CASE pc[q] \notin Closing
    BY <1>0, <2>1, <2>2, <2>3, <2>4 DEF Obeys, Depth
  <2>5. CASE pc[q] \in Closing
    BY <1>0, <2>1, <2>2, <2>3, <2>5 DEF Obeys, Timed, Depth, Least
  <2>6. QED
    BY <2>4, <2>5
<1>4. CASE OtherMoves
  BY <1>0, <1>2, <1>4 DEF OtherMoves, Commands
<1>5. CASE Reset \/ RefreshStarts \/ Reload \/ UNCHANGED vars
  BY <1>1, <1>5 DEF Reset, RefreshStarts, Reload, vars
<1>6. ASSUME NEW p \in Press, Presses(p) PROVE Obeys(q)'
  BY <1>0, <1>1, <1>6 DEF Presses, Obeys
<1>7. ASSUME NEW p \in Press, GateOpens(p) PROVE Obeys(q)'
  BY <1>0, <1>2, <1>7 DEF GateOpens, Commands, Obeys
<1>8. ASSUME NEW p \in Press, GateCloses(p) PROVE Obeys(q)'
  <2>1. CASE p # q
    BY <1>0, <1>2, <1>8, <2>1 DEF GateCloses, Commands
  <2>2. CASE p = q
    <3>1. pc[q] = "asksClose" /\ pc'[q] = "closes" /\ motor' = "close"
      BY <1>0, <1>8, <2>2 DEF GateCloses, Commands
    <3>2. alone'[q] => alone[q]
      BY <1>0, <1>8, <2>2 DEF GateCloses, Commands
    <3>3. UNCHANGED <<door, clock>>
      BY <1>8 DEF GateCloses
    <3>4. QED
      BY <1>0, <3>1, <3>2, <3>3 DEF Obeys, Depth
  <2>3. QED
    BY <2>1, <2>2
<1>9. ASSUME NEW p \in Press, OpenAnswered(p) PROVE Obeys(q)'
  BY <1>0, <1>1, <1>9 DEF OpenAnswered, Obeys
<1>10. ASSUME NEW p \in Press, Settles(p) PROVE Obeys(q)'
  BY <1>0, <1>1, <1>10 DEF Settles, Obeys, Depth
<1>11. ASSUME NEW p \in Press, SendFails(p) PROVE Obeys(q)'
  BY <1>0, <1>1, <1>11 DEF SendFails, Obeys
<1>12. ASSUME NEW p \in Press, CloseAnswered(p) \/ AsksRefresh(p) \/ Polls(p) PROVE Obeys(q)'
  <2>1. UNCHANGED <<door, motor, clock, alone>>
    BY <1>12 DEF CloseAnswered, AsksRefresh, Polls, UpdateGateSettings
  <2>2. pc'[q] = pc[q] \/ (pc[q] \in Closing /\ pc'[q] \in Closing \cup {"over"})
    BY <1>0, <1>12 DEF CloseAnswered, AsksRefresh, Polls, Loops
  <2>3. QED
    BY <1>0, <2>1, <2>2 DEF Obeys, Timed
<1>13. ASSUME NEW r \in Refresh, RefreshReads(r) PROVE Obeys(q)'
  BY <1>1, <1>13 DEF RefreshReads
<1>14. ASSUME NEW r \in Refresh, RefreshEnds(r) \/ RefreshFails(r) PROVE Obeys(q)'
  <2>1. UNCHANGED <<door, motor, clock, alone>>
    BY <1>14 DEF RefreshEnds, RefreshFails, Over
  <2>2. pc'[q] = pc[q] \/ (pc[q] = "awaits" /\ pc'[q] = "polls")
    BY <1>0, <1>14 DEF RefreshEnds, RefreshFails, Over
  <2>3. QED
    BY <1>0, <2>1, <2>2 DEF Obeys, Timed
<1>15. QED
  BY <1>3, <1>4, <1>5, <1>6, <1>7, <1>8, <1>9, <1>10, <1>11, <1>12, <1>13, <1>14
     DEF Next, PressContinues, RefreshContinues

\* What a step adds to the statuses there are: nothing but the cloud's own copy, which counts
\* as old, and what is read of the door.
LEMMA GivenStep ==
    ASSUME TypeOK, [Next]_vars, NEW k \in Given'
    PROVE  \/ k \in Given \/ k.after = {}
           \/ \E g \in Gen : /\ k.after = {p \in Press : coord[p] = g /\ pc[p] \in Closing}
                             /\ k.door = "closed" => door = 0
                             /\ UNCHANGED <<door, pc, clock, alone>>
<1> USE DEF gate, refreshes, presses, stored, Given
<1>1. CASE UNCHANGED <<status, held>>
  BY <1>1
<1>2. ASSUME NEW g \in Gen, NEW lane \in {"lock"} \cup Retry, RefreshBegins(g, lane),
             status' = status
      PROVE  k \in Given \/ k.after = {}
  <2>1. PICK r \in {status[g]} \cup Listed : held' = [held EXCEPT ![<<g, lane>>] = r]
    BY <1>2 DEF RefreshBegins
  <2>2. held \in [Refresh -> Reading] /\ status \in [Gen -> Reading]
    BY DEF TypeOK
  <2>3. QED
    BY <1>2, <2>1, <2>2 DEF Listed
<1>3. CASE RefreshStarts
  BY <1>2, <1>3 DEF RefreshStarts, TypeOK
<1>4. ASSUME NEW p \in Press, AsksRefresh(p) PROVE k \in Given \/ k.after = {}
  <2>1. coord[p] \in Gen
    BY DEF TypeOK
  <2>2. status' = status /\ (RefreshBegins(coord[p], "lock") \/ held' = held)
    BY <1>4 DEF AsksRefresh
  <2>3. QED
    BY <1>1, <1>2, <2>1, <2>2
<1>5. CASE Reload
  BY <1>5 DEF Reload, Listed, TypeOK
<1>6. ASSUME NEW r \in Refresh, RefreshReads(r)
      PROVE  \/ k \in Given
             \/ \E g \in Gen : /\ k.after = {p \in Press : coord[p] = g /\ pc[p] \in Closing}
                               /\ k.door = "closed" => door = 0
                               /\ UNCHANGED <<door, pc, clock, alone>>
  <2>1. held \in [Refresh -> Reading] /\ r[1] \in Gen
    BY DEF TypeOK
  <2>2. \A h \in Refresh : held'[h] = IF h # r THEN held[h] ELSE
            [door |-> IF door = 0 THEN "closed" ELSE "other",
             after |-> {p \in Press : coord[p] = r[1] /\ pc[p] \in Closing}]
    BY <1>6, <2>1 DEF RefreshReads
  <2>3. UNCHANGED <<status, door, pc, clock, alone>>
    BY <1>6 DEF RefreshReads
  <2>4. k \in Given \/ k = held'[r]
    BY <2>1, <2>2, <2>3
  <2>5. ASSUME k = held'[r]
        PROVE  /\ k.after = {p \in Press : coord[p] = r[1] /\ pc[p] \in Closing}
               /\ k.door = "closed" => door = 0
    <3>1. k = [door |-> IF door = 0 THEN "closed" ELSE "other",
               after |-> {p \in Press : coord[p] = r[1] /\ pc[p] \in Closing}]
      BY <2>2, <2>5
    <3>2. QED
      BY <3>1
  <2>6. QED
    BY <2>1, <2>3, <2>4, <2>5
<1>7. ASSUME NEW r \in Refresh, RefreshEnds(r) \/ RefreshFails(r)
      PROVE  k \in Given \/ k.after = {}
  <2>1. Over(r)
    BY <1>7 DEF RefreshEnds, RefreshFails
  <2>2. \A q \in Refresh : held'[q] \in {held[q], Nothing}
    BY <2>1 DEF Over, TypeOK
  <2>3. \A g \in Gen : status'[g] \in {status[g], held[r]}
    BY <1>7 DEF RefreshEnds, RefreshFails, TypeOK
  <2>4. QED
    BY <2>2, <2>3 DEF Nothing
<1>8. QED
  <2>1. ASSUME NEW p \in Press, PressContinues(p) PROVE UNCHANGED <<status, held>> \/ AsksRefresh(p)
    BY <2>1 DEF PressContinues, GateOpens, OpenAnswered, Settles, GateCloses, SendFails,
                CloseAnswered, Polls
  <2>2. Tick \/ OtherMoves \/ Reset \/ UNCHANGED vars => UNCHANGED <<status, held>>
    BY DEF Tick, OtherMoves, Reset, vars
  <2>3. ASSUME NEW p \in Press, Presses(p) PROVE UNCHANGED <<status, held>>
    BY <2>3 DEF Presses
  <2>4. QED
    BY <1>1, <1>3, <1>4, <1>5, <1>6, <1>7, <2>1, <2>2, <2>3 DEF Next, RefreshContinues

\* What a press has got to does not go back.
LEMMA OnlyOn ==
    ASSUME TypeOK, [Next]_vars, NEW q \in Press
    PROVE  /\ pc'[q] \notin Closing \cup {"over"} => pc[q] \notin Closing \cup {"over"}
           /\ alone'[q] /\ pc'[q] \in Closing =>
                 /\ alone[q]
                 /\ \/ pc[q] = "asksClose"
                    \/ pc[q] \in Closing /\ (Timed(q) => Timed(q)')
<1> USE DEF gate, refreshes, presses, stored, Goto, Moving, Closing, TypeOK, Timed, Least, Depth
<1>1. CASE Tick
  BY <1>1 DEF Tick, Timing
<1>2. CASE OtherMoves \/ Reset \/ RefreshStarts \/ Reload \/ UNCHANGED vars
  BY <1>2 DEF OtherMoves, Commands, Reset, RefreshStarts, Reload, vars
<1>3. ASSUME NEW p \in Press, Presses(p) \/ OpenAnswered(p) \/ Settles(p) \/ SendFails(p)
      PROVE  /\ UNCHANGED alone /\ (p # q => pc'[q] = pc[q] /\ clock'[q] = clock[q])
             /\ p = q => pc'[q] \notin Closing
             /\ pc[p] \in Closing => pc'[p] = "over"
             /\ pc[p] # "over"
  BY <1>3 DEF Presses, OpenAnswered, Settles, SendFails
<1>4. ASSUME NEW p \in Press, GateOpens(p) \/ GateCloses(p)
      PROVE  /\ p # q => pc'[q] = pc[q] /\ (alone'[q] /\ pc[q] \in Moving => alone[q])
             /\ clock' = clock /\ pc[p] \in {"asksOpen", "asksClose"}
             /\ pc[p] = "asksOpen" => pc'[p] = "opens"
             /\ pc[p] = "asksClose" => pc'[p] = "closes" /\ (alone'[p] => alone[p])
  BY <1>4 DEF GateOpens, GateCloses, Commands
<1>5. ASSUME NEW p \in Press, CloseAnswered(p) \/ AsksRefresh(p) \/ Polls(p)
      PROVE  /\ UNCHANGED <<alone, clock>> /\ (p # q => pc'[q] = pc[q])
             /\ pc[p] \in Closing /\ pc'[p] \in Closing \cup {"over"}
  BY <1>5 DEF CloseAnswered, AsksRefresh, Polls, Loops
<1>6. ASSUME NEW r \in Refresh, RefreshContinues(r)
      PROVE  /\ UNCHANGED <<alone, clock>>
             /\ pc'[q] = pc[q] \/ (pc[q] = "awaits" /\ pc'[q] = "polls")
  BY <1>6 DEF RefreshContinues, RefreshReads, RefreshEnds, RefreshFails, Over
<1>7. QED
  BY <1>1, <1>2, <1>3, <1>4, <1>5, <1>6 DEF Next, PressContinues

\* Every step keeps what is read behind the door.
LEMMA FollowsStep == TypeOK /\ GateObeys /\ ReadsFollow /\ [Next]_vars => ReadsFollow'
<1> SUFFICES ASSUME TypeOK, GateObeys, ReadsFollow, [Next]_vars, NEW q \in Press
             PROVE  Follows(q)'
  BY DEF ReadsFollow
<1>0. Obeys(q) /\ Follows(q)
  BY DEF GateObeys, ReadsFollow
<1>a. /\ pc'[q] \notin Closing \cup {"over"} => pc[q] \notin Closing \cup {"over"}
      /\ alone'[q] /\ pc'[q] \in Closing =>
            /\ alone[q]
            /\ \/ pc[q] = "asksClose"
               \/ pc[q] \in Closing /\ (Timed(q) => Timed(q)')
  BY OnlyOn
<1>b. ASSUME NEW k \in Given'
      PROVE  \/ k \in Given \/ q \notin k.after
             \/ /\ pc[q] \in Closing /\ (k.door = "closed" => door = 0)
                /\ UNCHANGED <<door, pc, clock, alone>>
  <2>1. \/ k \in Given \/ k.after = {}
        \/ \E g \in Gen : /\ k.after = {p \in Press : coord[p] = g /\ pc[p] \in Closing}
                          /\ k.door = "closed" => door = 0
                          /\ UNCHANGED <<door, pc, clock, alone>>
    BY <1>b, GivenStep
  <2>2. ASSUME NEW g \in Gen, k.after = {p \in Press : coord[p] = g /\ pc[p] \in Closing},
               q \in k.after
        PROVE  pc[q] \in Closing
    BY <2>2
  <2>3. QED
    BY <2>1, <2>2
<1>1. ASSUME pc'[q] \notin Closing \cup {"over"}, NEW k \in Given' PROVE q \notin k.after
  BY <1>0, <1>a, <1>b, <1>1 DEF Follows
<1>2. ASSUME alone'[q], pc'[q] \in Closing, NEW k \in Given', q \in k.after, k.door = "closed"
      PROVE  Timed(q)'
  <2>1. CASE k \in Given
    BY <1>0, <1>a, <1>2, <2>1 DEF Follows, Closing
  <2>2. CASE pc[q] \in Closing /\ door = 0 /\ UNCHANGED <<door, pc, clock, alone>>
    BY <1>0, <1>2, <2>2 DEF Obeys, Timed, Least, Depth, Moving, Closing, TypeOK
  <2>3. QED
    BY <1>b, <1>2, <2>1, <2>2
<1>3. QED
  BY <1>1, <1>2 DEF Follows

\* What a press stores has been timed, and nothing changes it or the press's history.
LEMMA MeasureStep ==
    TypeOK /\ ReadsFollow /\ SourceIsOver /\ FullTravelTimed /\ [Next]_vars
        => (SourceIsOver /\ FullTravelTimed)'
<1> SUFFICES ASSUME TypeOK, ReadsFollow, SourceIsOver, FullTravelTimed, [Next]_vars
             PROVE  (SourceIsOver /\ FullTravelTimed)'
  OBVIOUS
<1>0. /\ pc \in [Press -> Phase] /\ clock \in [Press -> Nat] /\ source \subseteq Press
      /\ confirmed \subseteq source /\ alone \in [Press -> BOOLEAN]
  BY DEF TypeOK
<1> USE DEF gate, refreshes, presses, stored, Goto, Moving, Closing
<1> DEFINE Kept == UNCHANGED stored \/ (durations' = 0 /\ source' = {} /\ confirmed' = {})
           Still(p) == pc[p] = "over" => pc'[p] = "over" /\ alone'[p] = alone[p]
<1>1. ASSUME Kept, \A p \in Press : Still(p) PROVE (SourceIsOver /\ FullTravelTimed)'
  BY <1>0, <1>1 DEF SourceIsOver, FullTravelTimed
<1>2. CASE Tick
  <2>1. Kept /\ \A p \in Press : Still(p)
    BY <1>0, <1>2 DEF Tick
  <2>2. QED
    BY <1>1, <2>1
<1>3. CASE OtherMoves
  <2>1. Kept /\ \A p \in Press : Still(p)
    BY <1>0, <1>3 DEF OtherMoves, Commands
  <2>2. QED
    BY <1>1, <2>1
<1>4. CASE Reset \/ Reload \/ RefreshStarts \/ UNCHANGED vars
  <2>1. Kept /\ \A p \in Press : Still(p)
    BY <1>0, <1>4 DEF Reset, Reload, RefreshStarts, vars
  <2>2. QED
    BY <1>1, <2>1
<1>5. ASSUME NEW p \in Press, Presses(p) \/ OpenAnswered(p) \/ Settles(p) \/ SendFails(p)
      PROVE  (SourceIsOver /\ FullTravelTimed)'
  <2>1. Kept /\ \A r \in Press : Still(r)
    BY <1>0, <1>5 DEF Presses, OpenAnswered, Settles, SendFails
  <2>2. QED
    BY <1>1, <2>1
<1>6. ASSUME NEW p \in Press, GateOpens(p) \/ GateCloses(p)
      PROVE  (SourceIsOver /\ FullTravelTimed)'
  <2>1. Kept /\ \A r \in Press : Still(r)
    BY <1>0, <1>6 DEF GateOpens, GateCloses, Commands
  <2>2. QED
    BY <1>1, <2>1
<1>7. ASSUME NEW p \in Press, CloseAnswered(p) \/ AsksRefresh(p)
      PROVE  (SourceIsOver /\ FullTravelTimed)'
  <2>1. Kept /\ \A r \in Press : Still(r)
    BY <1>0, <1>7 DEF CloseAnswered, AsksRefresh, Loops
  <2>2. QED
    BY <1>1, <2>1
<1>8. ASSUME NEW p \in Press, Polls(p) PROVE (SourceIsOver /\ FullTravelTimed)'
  <2>1. CASE status[coord[p]].door # "closed"
    <3>1. Kept /\ \A r \in Press : Still(r)
      BY <1>0, <1>8, <2>1 DEF Polls, Loops, UpdateGateSettings
    <3>2. QED
      BY <1>1, <3>1
  <2>2. CASE status[coord[p]].door = "closed"
    <3>1. /\ pc[p] = "polls" /\ pc'[p] = "over" /\ source' = {p} /\ durations' = Measured(p)
          /\ confirmed' = {p} \cap status[coord[p]].after
          /\ UNCHANGED alone
      BY <1>0, <1>8, <2>2 DEF Polls, UpdateGateSettings
    <3>2. status[coord[p]] \in Given
      BY DEF Given, TypeOK
    <3>3. alone[p] /\ p \in confirmed' => clock[p] >= Least
      BY <2>2, <3>1, <3>2 DEF ReadsFollow, Follows, Timed
    <3>4. clock[p] >= Least => Measured(p) >= Least
      BY <1>0 DEF Measured, Least, Depth
    <3>5. QED
      BY <3>1, <3>3, <3>4 DEF SourceIsOver, FullTravelTimed, Least, Depth
  <2>3. QED
    BY <2>1, <2>2
<1>9. ASSUME NEW r \in Refresh, RefreshContinues(r) PROVE (SourceIsOver /\ FullTravelTimed)'
  <2>1. Kept /\ \A p \in Press : Still(p)
    BY <1>0, <1>9 DEF RefreshContinues, RefreshReads, RefreshEnds, RefreshFails, Over
  <2>2. QED
    BY <1>1, <2>1
<1>10. QED
  BY <1>2, <1>3, <1>4, <1>5, <1>6, <1>7, <1>8, <1>9 DEF Next, PressContinues

\* A status read after the gate took the close ends no timing too early, for every travel,
\* settling time, timeout and limit, and however many presses, retries' refreshes and reloads
\* overlap.  Nothing is said of an older status, which may end it at once (TimesAFullClose).
THEOREM NeverTooShort == Spec => []FullTravelTimed
<1>1. Init => CalibrationInv
  BY DEF Init, CalibrationInv, GateObeys, Obeys, ReadsFollow, Follows, SourceIsOver,
         FullTravelTimed, Given, Listed, Nothing, Closing, Moving
<1>2. TypeOK /\ CalibrationInv /\ [Next]_vars => CalibrationInv'
  BY ObeysStep, FollowsStep, MeasureStep DEF CalibrationInv
<1>3. CalibrationInv => FullTravelTimed
  BY DEF CalibrationInv
<1>4. QED
  BY <1>1, <1>2, <1>3, TypeCorrect, PTL DEF Spec
==============================================================================
