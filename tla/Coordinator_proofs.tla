-------------------------- MODULE Coordinator_proofs --------------------------
(***************************************************************************)
(* Proofs about Coordinator for every account, every number of refreshes   *)
(* at a time and every kind of answer.                                     *)
(***************************************************************************)
EXTENDS Coordinator, TLAPS

Runs == [pc : {"idle", "listing", "reading"}, at : DOMAIN Order, devices : [Gate -> Status]]

\* The device list is a list of gates, and not empty.
LEMMA OrderFacts ==
    /\ DOMAIN Order = 1..Len(Order) /\ Len(Order) \in Nat /\ 1 \in DOMAIN Order
    /\ \A j \in DOMAIN Order : Order[j] \in Gate
BY OrderAssumption

\* What a cover shows is a status.
LEMMA ViewType ==
    ASSUME NEW devices \in [Gate -> Status], NEW table
    PROVE  View(devices, table) \in [Gate -> Status]
BY DEF View, Status, Unknown

\* A run that is not under way is a run.
LEMMA IdleType == IdleRun \in Runs
BY OrderFacts DEF IdleRun, Runs, Status, Unknown

------------------------------------------------------------------------------
(* Types                                                                    *)

\* The part of the state that GoesOn determines keeps its type.
LEMMA GoesOnTypes ==
    ASSUME TypeOK, NEW r \in Refresh, NEW devices \in [Gate -> Status], NEW i,
           GoesOn(r, devices, i)
    PROVE  /\ run' \in [Refresh -> Runs]
           /\ data' \in [Gate -> Status] /\ shown' \in [Gate -> Status]
           /\ success' \in BOOLEAN
<1> DEFINE left == {j \in DOMAIN Order : j >= i /\ Order[j] \in Routed}
<1>0. /\ run \in [Refresh -> Runs] /\ data \in [Gate -> Status]
      /\ shown \in [Gate -> Status] /\ success \in BOOLEAN
    BY DEF TypeOK, Runs
<1>1. ASSUME NEW next \in left,
             run' = [run EXCEPT ![r] = [pc |-> "reading", at |-> next, devices |-> devices]],
             data' = DataMeanwhile(devices), UNCHANGED <<success, shown>>
      PROVE  /\ run' \in [Refresh -> Runs]
             /\ data' \in [Gate -> Status] /\ shown' \in [Gate -> Status]
             /\ success' \in BOOLEAN
    <2>1. [pc |-> "reading", at |-> next, devices |-> devices] \in Runs
        BY <1>1 DEF Runs
    <2> HIDE DEF left
    <2> QED BY <1>0, <1>1, <2>1 DEF DataMeanwhile
<1>2. CASE run' = [run EXCEPT ![r] = IdleRun] /\ data' = devices /\ success' = TRUE
           /\ shown' = View(devices, fresh')
    BY <1>0, <1>2, IdleType, ViewType
<1> QED BY <1>1, <1>2 DEF GoesOn

\* A refresh that fails leaves well-formed data.
LEMMA FailsTypes ==
    ASSUME TypeOK, NEW r \in Refresh, Fails(r)
    PROVE  /\ run' \in [Refresh -> Runs]
           /\ data' \in [Gate -> Status] /\ shown' \in [Gate -> Status]
           /\ success' \in BOOLEAN
<1>1. View(data, fresh') \in [Gate -> Status]
    BY ViewType DEF TypeOK
<1> QED BY <1>1, IdleType DEF Fails, TypeOK, Runs

\* So does replacing all_devices.
LEMMA AllDevicesTypes ==
    ASSUME TypeOK, NEW r \in Refresh, NEW devices \in [Gate -> Status], AllDevices(r, devices)
    PROVE  all' \in [Gate -> Status] /\ alias' \subseteq Refresh
BY DEF AllDevices, TypeOK

\* TypeOK holds initially and every step keeps it.
LEMMA TypeInit == Init => TypeOK
<1> SUFFICES ASSUME Init PROVE TypeOK OBVIOUS
<1>1. View(data, fresh) \in [Gate -> Status]
    BY ViewType DEF Init
<1> QED BY <1>1, IdleType DEF Init, TypeOK, Runs

\* Every step keeps the types.
LEMMA TypeStep == TypeOK /\ [Next]_vars => TypeOK'
<1> SUFFICES ASSUME TypeOK, [Next]_vars PROVE TypeOK'
    OBVIOUS
<1> USE DEF Runs
<1>0. \A r \in Refresh : run[r].devices \in [Gate -> Status]
    BY DEF TypeOK
<1>1. ASSUME NEW r \in Refresh, Starts(r) PROVE TypeOK'
    <2>1. CASE run' = [run EXCEPT ![r].pc = "listing"]
               /\ UNCHANGED <<all, alias, data, success, shown>>
        <3>1. run' \in [Refresh -> Runs]
            BY <2>1 DEF TypeOK
        <3> QED BY <1>1, <2>1, <3>1 DEF Starts, TypeOK
    <2>2. CASE GoesOn(r, all, 1) /\ AllDevices(r, all)
        <3>1. all \in [Gate -> Status]
            BY DEF TypeOK
        <3> QED BY <1>1, <2>2, <3>1, GoesOnTypes, AllDevicesTypes DEF Starts, TypeOK
    <2> QED BY <1>1, <2>1, <2>2 DEF Starts
<1>2. ASSUME NEW r \in Refresh, ListArrives(r) PROVE TypeOK'
    <2>1. CASE Fails(r) /\ UNCHANGED <<all, alias, latest>>
        BY <1>2, <2>1, FailsTypes DEF ListArrives, TypeOK
    <2>2. ASSUME NEW devices \in [Gate -> Status], GoesOn(r, devices, 1), latest' = devices,
                 all' = devices, alias' = IF run'[r].pc = "idle" THEN {} ELSE {r}
          PROVE  TypeOK'
        BY <1>2, <2>2, GoesOnTypes DEF ListArrives, TypeOK
    <2> QED BY <1>2, <2>1, <2>2 DEF ListArrives
<1>3. ASSUME NEW r \in Refresh, NEW g \in Gate, ReadTells(r, g) PROVE TypeOK'
    <2>1. PICK s \in Status : /\ GoesOn(r, Stored(run[r].devices, g, s), run[r].at + 1)
                              /\ AllDevices(r, Stored(run[r].devices, g, s))
                              /\ latest' = [latest EXCEPT ![g] = s]
        BY <1>3 DEF ReadTells
    <2>2. Stored(run[r].devices, g, s) \in [Gate -> Status]
        BY <1>0 DEF Stored
    <2>3. fresh' = [fresh EXCEPT ![g] = "available"] /\ UNCHANGED <<write, usual>>
        BY <1>3 DEF ReadTells
    <2> QED BY <2>1, <2>2, <2>3, GoesOnTypes, AllDevicesTypes DEF TypeOK
<1>4. ASSUME NEW r \in Refresh, NEW g \in Gate, ReadTellsNothing(r, g) \/ ReadFails(r, g)
      PROVE  TypeOK'
    <2>1. /\ GoesOn(r, run[r].devices, run[r].at + 1) /\ AllDevices(r, run[r].devices)
          /\ latest' = [latest EXCEPT ![g] = Unknown]
        BY <1>4 DEF ReadTellsNothing, ReadFails
    <2>2. /\ \/ fresh' = [fresh EXCEPT ![g] = "available"]
             \/ fresh' = [fresh EXCEPT ![g] = "unavailable"]
          /\ UNCHANGED write /\ (UNCHANGED usual \/ usual' = FALSE)
        BY <1>4 DEF ReadTellsNothing, ReadFails
    <2> QED BY <1>0, <2>1, <2>2, GoesOnTypes, AllDevicesTypes DEF TypeOK, Status, Unknown
<1>5. ASSUME NEW r \in Refresh, NEW g \in Gate, ReadRaises(r, g) PROVE TypeOK'
    BY <1>5, FailsTypes DEF ReadRaises, TypeOK, Status, Unknown
<1>6. CASE WriteStarts \/ WriteEnds
    <2>1. View(data, fresh) \in [Gate -> Status]
        BY ViewType DEF TypeOK
    <2> QED BY <1>6, <2>1 DEF WriteStarts, WriteEnds, TypeOK
<1>7. CASE UNCHANGED vars
    BY <1>7 DEF vars, TypeOK
<1> QED BY <1>1, <1>2, <1>3, <1>4, <1>5, <1>6, <1>7 DEF Next

\* Every variable keeps to its kind of values.
THEOREM TypeCorrect == Spec => []TypeOK
BY TypeInit, TypeStep, PTL DEF Spec

------------------------------------------------------------------------------
(* Published data                                                           *)

\* The published data change only with what every cover shows: a run under way works on
\* devices of its own.
THEOREM DataAnnounced == Spec => DataChangeAnnounced
<1>1. [Next]_vars => [data' # data => shown' = View(data', fresh')]_vars
    <2> SUFFICES ASSUME Next, data' # data PROVE shown' = View(data', fresh')
        BY DEF vars
    <2>1. ASSUME NEW r \in Refresh, NEW devices, NEW i, GoesOn(r, devices, i)
          PROVE  shown' = View(data', fresh')
        BY <2>1 DEF GoesOn, DataMeanwhile
    <2>2. \A r \in Refresh : ~Fails(r) /\ (\A g \in Gate : ~ReadRaises(r, g))
        BY DEF Fails, ReadRaises
    <2>3. CASE \E r \in Refresh : Starts(r)
        BY <2>1, <2>3 DEF Starts
    <2>4. CASE \E r \in Refresh : ListArrives(r)
        BY <2>1, <2>2, <2>4 DEF ListArrives
    <2>5. CASE \E r \in Refresh, g \in Gate : ReadTells(r, g)
        BY <2>1, <2>5 DEF ReadTells
    <2>6. CASE \E r \in Refresh, g \in Gate : ReadTellsNothing(r, g) \/ ReadFails(r, g)
        BY <2>1, <2>6 DEF ReadTellsNothing, ReadFails
    <2>7. ~WriteStarts /\ ~WriteEnds
        BY DEF WriteStarts, WriteEnds
    <2> QED BY <2>2, <2>3, <2>4, <2>5, <2>6, <2>7 DEF Next
<1> QED BY <1>1, PTL DEF Spec, DataChangeAnnounced

------------------------------------------------------------------------------
(* What the covers show                                                     *)

Followed == Gate \ Elsewhere

\* What is known while no run has come to its reads: the devices, shown through the
\* freshness table, are what was told last.
Settled ==
    \A g \in Followed :
        /\ View(all, fresh)[g] = latest[g]
        /\ View(data, fresh)[g] = latest[g]
        /\ shown[g] = latest[g]

\* A gate that a run is going to read, from the i-th gate on.
Awaited(g, i) == g \in Routed /\ \E j \in DOMAIN Order : j >= i /\ Order[j] = g

\* What is known of the devices that a run is going to publish once it has read the gates
\* from the i-th on.
Known(devices, i) ==
    \A g \in Followed : Awaited(g, i) \/ View(devices, fresh)[g] = latest[g]

OneAtATime == \A r, q \in Refresh : run[r].pc # "idle" /\ run[q].pc # "idle" => r = q
NoReading == \A r \in Refresh : run[r].pc # "reading"
ReadingKnows ==
    \A r \in Refresh : run[r].pc = "reading" => Known(run[r].devices, run[r].at)

UsualInv == usual => OneAtATime /\ (NoReading => Settled) /\ ReadingKnows

\* A run reads gates that have a route, so that one without is never found unavailable.
UnroutedInv ==
    /\ \A r \in Refresh : run[r].pc = "reading" => Order[run[r].at] \in Routed
    /\ \A g \in Gate \ Routed : fresh[g] = "missing"

IInv == TypeOK /\ UnroutedInv /\ UsualInv

\* A run that goes on knowing its devices keeps the invariant: it awaits fewer gates, and
\* publishes when it awaits none.
LEMMA GoesOnKnowing ==
    ASSUME TypeOK, NEW r \in Refresh, NEW devices \in [Gate -> Status], NEW i \in Nat,
           GoesOn(r, devices, i), run'[r].pc = "idle" => all' = devices,
           \A q \in Refresh : q # r => run[q].pc = "idle",
           \A g \in Followed : Awaited(g, i) \/ View(devices, fresh')[g] = latest'[g]
    PROVE  UsualInv'
<1> DEFINE left == {j \in DOMAIN Order : j >= i /\ Order[j] \in Routed}
<1>0. run \in [Refresh -> Runs]
    BY DEF TypeOK, Runs
<1>1. ASSUME NEW next \in left, \A j \in left : next <= j,
             run' = [run EXCEPT ![r] = [pc |-> "reading", at |-> next, devices |-> devices]]
      PROVE  UsualInv'
    <2>1. run'[r] = [pc |-> "reading", at |-> next, devices |-> devices]
        BY <1>0, <1>1
    <2>2. \A q \in Refresh : q # r => run'[q].pc = "idle"
        BY <1>0, <1>1
    <2>3. OneAtATime' /\ ~NoReading'
        BY <2>1, <2>2 DEF OneAtATime, NoReading
    <2>4. \A g : Awaited(g, i) => Awaited(g, next)
        BY <1>1 DEF Awaited
    <2>5. \A g \in Followed : Awaited(g, next) \/ View(devices, fresh')[g] = latest'[g]
        BY <2>4
    <2>6. Known(run[r].devices, run[r].at)'
        BY <2>1, <2>5 DEF Known, Followed, Awaited
    <2>7. ReadingKnows'
        BY <2>2, <2>6 DEF ReadingKnows
    <2> QED BY <2>3, <2>7 DEF UsualInv
<1>2. CASE left = {} /\ run' = [run EXCEPT ![r] = IdleRun] /\ data' = devices
           /\ shown' = View(devices, fresh')
    <2>1. \A q \in Refresh : run'[q].pc = "idle"
        BY <1>0, <1>2 DEF IdleRun
    <2>2. all' = devices
        BY <2>1
    <2>3. \A g \in Followed : View(devices, fresh')[g] = latest'[g]
        BY <1>2 DEF Awaited
    <2>4. Settled'
        BY <1>2, <2>2, <2>3 DEF Settled
    <2> QED BY <2>1, <2>4 DEF UsualInv, OneAtATime, NoReading, ReadingKnows
<1> QED BY <1>1, <1>2 DEF GoesOn

\* What is known of a run's devices is still known after a read of its next gate that told
\* the status s, stored unless the covers read elsewhere.
LEMMA ReadKnowing ==
    ASSUME TypeOK, NEW r \in Refresh, NEW g \in Gate, Reads(r, g),
           Known(run[r].devices, run[r].at),
           NEW s \in Status, NEW devices \in [Gate -> Status], NEW mark,
           fresh' = [fresh EXCEPT ![g] = mark], latest' = [latest EXCEPT ![g] = s],
           \A f \in Gate \ {g} : devices[f] = run[r].devices[f],
           g \in Followed => View(devices, fresh')[g] = s
    PROVE  \A f \in Followed : Awaited(f, run[r].at + 1) \/ View(devices, fresh')[f] = latest'[f]
<1> SUFFICES ASSUME NEW f \in Followed
             PROVE  Awaited(f, run[r].at + 1) \/ View(devices, fresh')[f] = latest'[f]
    OBVIOUS
<1>0. f \in Gate /\ fresh \in [Gate -> {"missing", "available", "unavailable"}]
      /\ latest \in [Gate -> Status]
    BY DEF Followed, TypeOK
<1>1. CASE f = g
    BY <1>0, <1>1
<1>2. CASE f # g
    <2>1. fresh'[f] = fresh[f] /\ latest'[f] = latest[f] /\ devices[f] = run[r].devices[f]
        BY <1>0, <1>2
    <2>2. View(devices, fresh')[f] = View(run[r].devices, fresh)[f]
        BY <1>0, <2>1 DEF View
    <2>3. run[r].at \in Nat
        BY OrderFacts DEF TypeOK
    <2>4. Awaited(f, run[r].at) => Awaited(f, run[r].at + 1)
        BY <1>2, <2>3, OrderFacts DEF Awaited, Reads
    <2> QED BY <2>1, <2>2, <2>4 DEF Known
<1> QED BY <1>1, <1>2

\* A gate without a route is never read.
LEMMA UnroutedStep == TypeOK /\ UnroutedInv /\ [Next]_vars => UnroutedInv'
<1> SUFFICES ASSUME TypeOK, UnroutedInv, [Next]_vars PROVE UnroutedInv'
    OBVIOUS
<1> DEFINE Routes == \A r \in Refresh : run[r].pc = "reading" => Order[run[r].at] \in Routed
<1> DEFINE Missing == \A g \in Gate \ Routed : fresh[g] = "missing"
<1>0. run \in [Refresh -> Runs] /\ Routes /\ Missing
    BY DEF TypeOK, UnroutedInv, Runs
<1>1. ASSUME NEW r \in Refresh, NEW devices, NEW i, GoesOn(r, devices, i) PROVE Routes'
    <2>1. \/ \E next \in DOMAIN Order :
               /\ Order[next] \in Routed
               /\ run' = [run EXCEPT ![r] = [pc |-> "reading", at |-> next,
                                             devices |-> devices]]
          \/ run' = [run EXCEPT ![r] = IdleRun]
        BY <1>1 DEF GoesOn
    <2> QED BY <1>0, <2>1 DEF IdleRun
<1>2. ASSUME NEW r \in Refresh, Fails(r) PROVE Routes'
    BY <1>0, <1>2 DEF Fails, IdleRun
<1>3. ASSUME NEW r \in Refresh, NEW g \in Gate, Reads(r, g), NEW mark,
             fresh' = [fresh EXCEPT ![g] = mark]
      PROVE  Missing'
    <2>1. g \in Routed
        BY <1>0, <1>3 DEF Reads
    <2> QED BY <1>0, <1>3, <2>1 DEF TypeOK
<1>4. ASSUME NEW r \in Refresh, Starts(r) PROVE UnroutedInv'
    <2>1. Missing'
        BY <1>0, <1>4 DEF Starts
    <2>2. CASE run' = [run EXCEPT ![r].pc = "listing"]
        BY <1>0, <2>1, <2>2 DEF UnroutedInv
    <2>3. CASE GoesOn(r, all, 1)
        BY <1>1, <2>1, <2>3 DEF UnroutedInv
    <2> QED BY <1>4, <2>2, <2>3 DEF Starts
<1>5. ASSUME NEW r \in Refresh, ListArrives(r) PROVE UnroutedInv'
    <2>1. Missing'
        BY <1>0, <1>5 DEF ListArrives
    <2>2. Routes'
        BY <1>1, <1>2, <1>5 DEF ListArrives
    <2> QED BY <2>1, <2>2 DEF UnroutedInv
<1>6. ASSUME NEW r \in Refresh, NEW g \in Gate, ReadTells(r, g) PROVE UnroutedInv'
    <2>1. Routes' /\ Missing'
        BY <1>1, <1>3, <1>6 DEF ReadTells
    <2> QED BY <2>1 DEF UnroutedInv
<1>7. ASSUME NEW r \in Refresh, NEW g \in Gate, ReadTellsNothing(r, g) \/ ReadFails(r, g)
      PROVE  UnroutedInv'
    <2>1. Routes' /\ Missing'
        BY <1>1, <1>3, <1>7 DEF ReadTellsNothing, ReadFails
    <2> QED BY <2>1 DEF UnroutedInv
<1>8. ASSUME NEW r \in Refresh, NEW g \in Gate, ReadRaises(r, g) PROVE UnroutedInv'
    BY <1>0, <1>2, <1>8 DEF ReadRaises, UnroutedInv
<1>9. CASE UNCHANGED <<run, fresh>>
    BY <1>0, <1>9 DEF UnroutedInv
<1> QED BY <1>4, <1>5, <1>6, <1>7, <1>8, <1>9 DEF Next, WriteStarts, WriteEnds, vars

\* Every step keeps UsualInv.
LEMMA UsualStep == IInv /\ [Next]_vars => UsualInv'
<1> SUFFICES ASSUME IInv, [Next]_vars, usual' PROVE UsualInv'
    BY DEF UsualInv
<1>0. /\ TypeOK /\ UnroutedInv
      /\ run \in [Refresh -> Runs] /\ \A r \in Refresh : run[r].devices \in [Gate -> Status]
      /\ \A r \in Refresh : run[r].at \in Nat
    BY OrderFacts DEF IInv, TypeOK, Runs
<1>u. usual => OneAtATime /\ (NoReading => Settled) /\ ReadingKnows
    BY DEF IInv, UsualInv
<1>1. ASSUME NEW r \in Refresh, Starts(r) PROVE UsualInv'
    <2>1. usual /\ \A q \in Refresh : run[q].pc = "idle"
        BY <1>1 DEF Starts
    <2>2. Settled
        BY <1>u, <2>1 DEF NoReading
    <2>3. fresh' = fresh /\ latest' = latest
        BY <1>1 DEF Starts
    <2>4. CASE /\ run' = [run EXCEPT ![r].pc = "listing"]
               /\ UNCHANGED <<all, alias, data, success, shown>>
        <3>1. \A q \in Refresh : run'[q].pc = IF q = r THEN "listing" ELSE "idle"
            BY <1>0, <2>1, <2>4
        <3>2. Settled'
            BY <2>2, <2>3, <2>4 DEF Settled
        <3> QED BY <3>1, <3>2 DEF UsualInv, OneAtATime, NoReading, ReadingKnows
    <2>5. CASE GoesOn(r, all, 1) /\ AllDevices(r, all)
        <3>1. all \in [Gate -> Status] /\ 1 \in Nat
            BY <1>0 DEF TypeOK
        <3>2. run'[r].pc = "idle" => all' = all
            BY <2>5 DEF AllDevices
        <3>3. \A g \in Followed : View(all, fresh')[g] = latest'[g]
            BY <2>2, <2>3 DEF Settled
        <3> QED BY <1>0, <2>1, <2>5, <3>1, <3>2, <3>3, GoesOnKnowing
    <2> QED BY <1>1, <2>4, <2>5 DEF Starts
<1>2. ASSUME NEW r \in Refresh, ListArrives(r) PROVE UsualInv'
    <2>1. usual /\ run[r].pc = "listing" /\ fresh' = fresh
        BY <1>2 DEF ListArrives
    <2>2. \A q \in Refresh : q # r => run[q].pc = "idle"
        BY <1>u, <2>1 DEF OneAtATime
    <2>3. NoReading
        BY <2>1, <2>2 DEF NoReading
    <2>4. CASE Fails(r) /\ UNCHANGED <<all, alias, latest>>
        <3>1. \A q \in Refresh : run'[q].pc = "idle"
            BY <1>0, <2>2, <2>4 DEF Fails, IdleRun
        <3>2. Settled'
            <4>1. Settled /\ NoReading'
                BY <1>u, <2>1, <2>3, <3>1 DEF NoReading
            <4>2. shown' = IF success THEN View(data, fresh) ELSE shown
                BY <2>1, <2>4 DEF Fails
            <4>3. UNCHANGED <<all, data, fresh, latest>>
                BY <2>1, <2>4 DEF Fails
            <4> QED BY <4>1, <4>2, <4>3 DEF Settled
        <3> QED BY <3>1, <3>2 DEF UsualInv, OneAtATime, NoReading, ReadingKnows
    <2>5. ASSUME NEW devices \in [Gate -> Status], GoesOn(r, devices, 1), latest' = devices,
                 all' = devices
          PROVE  UsualInv'
        <3>1. \A g \in Followed : Awaited(g, 1) \/ View(devices, fresh')[g] = latest'[g]
            <4> SUFFICES ASSUME NEW g \in Followed
                         PROVE  Awaited(g, 1) \/ View(devices, fresh')[g] = latest'[g]
                OBVIOUS
            <4>1. g \in Gate
                BY DEF Followed
            <4>2. CASE g \in Routed
                <5>1. PICK j \in DOMAIN Order : Order[j] = g
                    BY <4>1 DEF Gate, ToSet
                <5> QED BY <4>2, <5>1, OrderFacts DEF Awaited
            <4>3. CASE g \notin Routed
                <5>1. fresh'[g] = "missing"
                    BY <1>0, <2>1, <4>1, <4>3 DEF UnroutedInv
                <5> QED BY <2>5, <4>1, <5>1 DEF View
            <4> QED BY <4>2, <4>3
        <3> QED BY <1>0, <2>2, <2>5, <3>1, GoesOnKnowing
    <2> QED BY <1>2, <2>4, <2>5 DEF ListArrives
<1>3. ASSUME NEW r \in Refresh, NEW g \in Gate, Reads(r, g), usual,
             NEW s \in Status, NEW devices \in [Gate -> Status], NEW mark,
             fresh' = [fresh EXCEPT ![g] = mark], latest' = [latest EXCEPT ![g] = s],
             \A f \in Gate \ {g} : devices[f] = run[r].devices[f],
             g \in Followed => (IF mark = "unavailable" THEN Unknown ELSE devices[g]) = s,
             GoesOn(r, devices, run[r].at + 1), AllDevices(r, devices)
      PROVE  UsualInv'
    <2>1. \A q \in Refresh : q # r => run[q].pc = "idle"
        BY <1>u, <1>3 DEF OneAtATime, Reads
    <2>2. Known(run[r].devices, run[r].at)
        BY <1>u, <1>3 DEF ReadingKnows, Reads
    <2>3. g \in Followed => View(devices, fresh')[g] = s
        BY <1>0, <1>3 DEF View, TypeOK
    <2>4. \A f \in Followed : Awaited(f, run[r].at + 1) \/ View(devices, fresh')[f] = latest'[f]
        <3>1. /\ TypeOK /\ Reads(r, g)
              /\ fresh' = [fresh EXCEPT ![g] = mark] /\ latest' = [latest EXCEPT ![g] = s]
              /\ \A f \in Gate \ {g} : devices[f] = run[r].devices[f]
            BY <1>0, <1>3
        <3> QED BY <2>2, <2>3, <3>1, ReadKnowing
    <2>5. run'[r].pc = "idle" => all' = devices
        BY <1>3 DEF AllDevices
    <2>6. run[r].at + 1 \in Nat
        BY <1>0
    <2> QED BY <1>0, <1>3, <2>1, <2>4, <2>5, <2>6, GoesOnKnowing
<1>4. ASSUME NEW r \in Refresh, NEW g \in Gate, ReadTells(r, g) PROVE UsualInv'
    <2>1. PICK s \in Status : /\ GoesOn(r, Stored(run[r].devices, g, s), run[r].at + 1)
                              /\ AllDevices(r, Stored(run[r].devices, g, s))
                              /\ latest' = [latest EXCEPT ![g] = s]
        BY <1>4 DEF ReadTells
    <2> DEFINE devices == Stored(run[r].devices, g, s)
    <2>2. devices \in [Gate -> Status] /\ \A f \in Gate \ {g} : devices[f] = run[r].devices[f]
        BY <1>0 DEF Stored
    <2>3. g \in Followed => devices[g] = s
        BY <1>0 DEF Stored, Followed
    <2>4. Reads(r, g) /\ usual /\ fresh' = [fresh EXCEPT ![g] = "available"]
        BY <1>4 DEF ReadTells
    <2> HIDE DEF devices
    <2> QED BY <1>3, <2>1, <2>2, <2>3, <2>4 DEF devices
<1>5. ASSUME NEW r \in Refresh, NEW g \in Gate, ReadFails(r, g) PROVE UsualInv'
    <2>1. /\ Reads(r, g) /\ usual /\ fresh' = [fresh EXCEPT ![g] = "unavailable"]
          /\ latest' = [latest EXCEPT ![g] = Unknown]
          /\ GoesOn(r, run[r].devices, run[r].at + 1) /\ AllDevices(r, run[r].devices)
        BY <1>5 DEF ReadFails
    <2>2. Unknown \in Status
        BY DEF Status
    <2> QED BY <1>0, <1>3, <2>1, <2>2
<1>6. \A r \in Refresh, g \in Gate : ~ReadTellsNothing(r, g) /\ ~ReadRaises(r, g)
    BY DEF ReadTellsNothing, ReadRaises
<1>7. CASE UNCHANGED <<all, data, fresh, run, shown, latest, usual>>
    BY <1>u, <1>7 DEF UsualInv, OneAtATime, NoReading, Settled, ReadingKnows, Known, Awaited
<1>8. WriteEnds => UNCHANGED <<all, data, fresh, run, shown, latest, usual>>
    BY DEF WriteEnds
<1> QED BY <1>1, <1>2, <1>4, <1>5, <1>6, <1>7, <1>8 DEF Next, WriteStarts, vars

\* The invariant holds before the first refresh.
LEMMA Initially == Init => IInv
<1> SUFFICES ASSUME Init PROVE UnroutedInv /\ UsualInv
    BY TypeInit DEF IInv
<1>1. \A r \in Refresh : run[r].pc = "idle"
    BY DEF Init, IdleRun
<1>2. Settled
    BY DEF Init, Settled
<1> QED BY <1>1, <1>2 DEF Init, UnroutedInv, UsualInv, OneAtATime, NoReading, ReadingKnows

\* Between two refreshes each cover shows what the latest list or read told of its gate.
THEOREM LatestShown == Spec => []CoversShowLatest
<1>1. IInv /\ [Next]_vars => IInv'
    BY TypeStep, UnroutedStep, UsualStep DEF IInv
<1>2. IInv => CoversShowLatest
    BY DEF IInv, UsualInv, NoReading, Settled, CoversShowLatest, AtRest, Followed
<1> QED BY Initially, <1>1, <1>2, PTL DEF Spec
==============================================================================
