----------------------------- MODULE Coordinator -----------------------------
(***************************************************************************)
(* EzvizHg2Coordinator (coordinator.py): the refreshes of one account with *)
(* several gates, the cache they share and the freshness table the covers  *)
(* read beside it.                                                         *)
(*                                                                         *)
(* A refresh is one run of _async_update_data; it is suspended while a     *)
(* cloud request is in an executor thread.  async_refresh(), which the     *)
(* covers' retry calls, is not serialised with the scheduled refreshes, so *)
(* several runs may be under way.  A settings entity (entity.py) replaces  *)
(* the published data too, at the end of its write.                        *)
(*                                                                         *)
(* Only the DoorStatus part of a device is kept, and the gates of the      *)
(* account stay the same.  The state begins where the entities do, after   *)
(* the first refresh.  Home Assistant's part, the DataUpdateCoordinator,   *)
(* is modelled from its use.                                               *)
(***************************************************************************)
EXTENDS Integers, Sequences, SequencesExt

CONSTANTS
    Order,      \* the gates of the account in the order of the device list
    Routed,     \* the gates whose resource route can be resolved
    Elsewhere,  \* those whose route has another local index than "0"
    Refresh,    \* coroutines that run _async_update_data
    Answer,     \* what the read of a DoorStatus may end with
    Writing     \* do settings entities write?

Gate == ToSet(Order)
Unknown == -1
Status == {Unknown, 0, 1}

ASSUME OrderAssumption == Order \in Seq(Gate) /\ Len(Order) > 0 /\ IsInjective(Order)
ASSUME RoutedAssumption == Elsewhere \subseteq Routed /\ Routed \subseteq Gate
ASSUME AnswerAssumption == Answer \subseteq {"status", "none", "error", "exception"}
ASSUME WritingAssumption == Writing \in BOOLEAN

VARIABLES
    all,        \* all_devices
    alias,      \* the refreshes whose devices are the very object all_devices is
    data,       \* the published data
    success,    \* last_update_success
    fresh,      \* gate_status_freshness: "missing", "available", "unavailable"
    run,        \* the refreshes under way
    write,      \* is a settings write in its executor job?
    shown,      \* the door status each cover wrote at its last notification
    latest,     \* history: the door status the latest list or read told of each gate
    usual       \* history: no two refreshes overlapped, no setting was written, and every
                \* read ended with a status or an error of pyezvizapi

vars == <<all, alias, data, success, fresh, run, write, shown, latest, usual>>

IdleRun == [pc |-> "idle", at |-> 1, devices |-> [g \in Gate |-> Unknown]]

\* is_closed as a cover computes it: a missing freshness counts as fresh.
View(devices, table) ==
    [g \in Gate |-> IF table[g] = "unavailable" THEN Unknown ELSE devices[g]]

TypeOK ==
    /\ {all, data, shown, latest} \subseteq [Gate -> Status]
    /\ alias \subseteq Refresh
    /\ {success, write, usual} \subseteq BOOLEAN
    /\ fresh \in [Gate -> {"missing", "available", "unavailable"}]
    /\ run \in [Refresh -> [pc : {"idle", "listing", "reading"}, at : DOMAIN Order,
                            devices : [Gate -> Status]]]

\* After the first refresh of the entry.
Init ==
    /\ data \in [Gate -> Status] /\ all = data /\ alias = {}
    /\ success = TRUE
    /\ fresh \in [Gate -> {"missing", "available", "unavailable"}]
    /\ \A g \in Gate : fresh[g] = "missing" <=> g \notin Routed
    /\ run = [r \in Refresh |-> IdleRun]
    /\ write = FALSE
    /\ shown = View(data, fresh) /\ latest = shown
    /\ usual = TRUE

------------------------------------------------------------------------------
(* One refresh                                                              *)

\* The published data while a run that copied nothing writes its devices (a mutation).
SharedMeanwhile(devices) == devices

\* The run works on a new list or a deep copy: the published data stay as they are.
DataMeanwhile(devices) == data

\* GoesOn with a loop that runs one device too far (a mutation).
GoesOnPastTheEnd(r, devices, i) ==
    LET left == {j \in 1..(Len(Order) + 1) : j >= i}
    IN  \/ \E next \in left :
             /\ \A j \in left : next <= j
             /\ run' = [run EXCEPT ![r] = [pc |-> "reading", at |-> next,
                                           devices |-> devices]]
             /\ data' = DataMeanwhile(devices)
             /\ UNCHANGED <<success, shown>>
        \/ /\ left = {}
           /\ run' = [run EXCEPT ![r] = IdleRun]
           /\ data' = devices /\ success' = TRUE
           /\ shown' = View(devices, fresh')

\* The run goes on with the first routed gate at i or later; behind the last one it
\* publishes its devices, and every listener is called.
GoesOn(r, devices, i) ==
    LET left == {j \in DOMAIN Order : j >= i /\ Order[j] \in Routed}
    IN  \/ \E next \in left :
             /\ \A j \in left : next <= j
             /\ run' = [run EXCEPT ![r] = [pc |-> "reading", at |-> next,
                                           devices |-> devices]]
             /\ data' = DataMeanwhile(devices)
             /\ UNCHANGED <<success, shown>>
        \/ /\ left = {}
           /\ run' = [run EXCEPT ![r] = IdleRun]
           /\ data' = devices /\ success' = TRUE
           /\ shown' = View(devices, fresh')

\* The run raises: the data stay, and the listeners are called unless the refresh before
\* failed, too.
Fails(r) ==
    /\ run' = [run EXCEPT ![r] = IdleRun]
    /\ success' = FALSE
    /\ shown' = IF success THEN View(data, fresh') ELSE shown
    /\ UNCHANGED data

\* all_devices once r works on devices: the same object if r assigned it, and assigned
\* anyhow when r is through.
AllDevices(r, devices) ==
    IF run'[r].pc = "idle"
    THEN all' = devices /\ alias' = {}
    ELSE all' = (IF r \in alias THEN devices ELSE all) /\ UNCHANGED alias

\* A refresh starts with the full device list when the last one is old, and otherwise with
\* a deep copy of the devices it has.
Starts(r) ==
    /\ run[r].pc = "idle"
    /\ \/ /\ run' = [run EXCEPT ![r].pc = "listing"]
          /\ UNCHANGED <<all, alias, data, success, shown>>
       \/ GoesOn(r, all, 1) /\ AllDevices(r, all)
    /\ usual' = (usual /\ \A q \in Refresh : run[q].pc = "idle")
    /\ UNCHANGED <<fresh, write, latest>>

\* The device list arrives, with the door statuses the cloud has in it, and becomes
\* all_devices at once; or it cannot be had.
ListArrives(r) ==
    /\ run[r].pc = "listing"
    /\ UNCHANGED <<fresh, write, usual>>
    /\ \/ Fails(r) /\ UNCHANGED <<all, alias, latest>>
       \/ \E devices \in [Gate -> Status] :
             /\ GoesOn(r, devices, 1)
             /\ latest' = devices
             /\ all' = devices
             /\ alias' = IF run'[r].pc = "idle" THEN {} ELSE {r}

Reads(r, g) == run[r].pc = "reading" /\ g = Order[run[r].at]

\* set_door_status stores under the route's local index, and get_door_status, as the covers
\* call it, reads under index "0".
Stored(devices, g, s) == IF g \in Elsewhere THEN devices ELSE [devices EXCEPT ![g] = s]

\* An answer with a list: its first value, if it has a known one, is stored in the run's
\* devices.
ReadTells(r, g) ==
    /\ "status" \in Answer /\ Reads(r, g)
    /\ fresh' = [fresh EXCEPT ![g] = "available"]
    /\ \E s \in Status :
         LET devices == Stored(run[r].devices, g, s)
         IN  /\ GoesOn(r, devices, run[r].at + 1)
             /\ AllDevices(r, devices)
             /\ latest' = [latest EXCEPT ![g] = s]
    /\ UNCHANGED <<write, usual>>

\* An answer without one, an error code of the cloud included: nothing is stored, and the
\* gate counts as freshly read.
ReadTellsNothing(r, g) ==
    /\ "none" \in Answer /\ Reads(r, g)
    /\ fresh' = [fresh EXCEPT ![g] = "available"]
    /\ GoesOn(r, run[r].devices, run[r].at + 1)
    /\ AllDevices(r, run[r].devices)
    /\ latest' = [latest EXCEPT ![g] = Unknown]
    /\ usual' = FALSE
    /\ UNCHANGED write

\* A failed read that leaves the freshness of the gate alone (a mutation).
ReadFailsQuietly(r, g) ==
    /\ "error" \in Answer /\ Reads(r, g)
    /\ UNCHANGED fresh
    /\ GoesOn(r, run[r].devices, run[r].at + 1)
    /\ AllDevices(r, run[r].devices)
    /\ latest' = [latest EXCEPT ![g] = Unknown]
    /\ UNCHANGED <<write, usual>>

\* HTTPError, InvalidURL or PyEzvizError: the gate's status is no longer fresh, and the
\* run goes on.
ReadFails(r, g) ==
    /\ "error" \in Answer /\ Reads(r, g)
    /\ fresh' = [fresh EXCEPT ![g] = "unavailable"]
    /\ GoesOn(r, run[r].devices, run[r].at + 1)
    /\ AllDevices(r, run[r].devices)
    /\ latest' = [latest EXCEPT ![g] = Unknown]
    /\ UNCHANGED <<write, usual>>

\* Any other exception, such as requests' own of a session that times out: the run dies,
\* with the freshness and the shared part of all_devices it has changed so far.
ReadRaises(r, g) ==
    /\ "exception" \in Answer /\ Reads(r, g)
    /\ UNCHANGED <<fresh, all, alias, write>>
    /\ Fails(r)
    /\ latest' = [latest EXCEPT ![g] = Unknown]
    /\ usual' = FALSE

------------------------------------------------------------------------------
(* Settings entities                                                        *)

\* async_set_feature_value up to its executor job.
WriteStarts ==
    /\ Writing /\ success /\ ~write
    /\ write' = TRUE
    /\ UNCHANGED <<all, alias, data, success, fresh, run, shown, latest, usual>>

\* The job ends: an error is raised; or all_devices and the data are replaced by copies of
\* themselves with the new setting, and every listener is called as after a refresh.
WriteEnds ==
    /\ write /\ write' = FALSE
    /\ \/ UNCHANGED <<alias, success, shown, usual>>
       \/ /\ alias' = {} /\ success' = TRUE
          /\ shown' = View(data, fresh)
          /\ usual' = FALSE
    /\ UNCHANGED <<all, data, fresh, run, latest>>

------------------------------------------------------------------------------
Next ==
    \/ \E r \in Refresh :
         \/ Starts(r) \/ ListArrives(r)
         \/ \E g \in Gate : ReadTells(r, g) \/ ReadTellsNothing(r, g)
                            \/ ReadFails(r, g) \/ ReadRaises(r, g)
    \/ WriteStarts \/ WriteEnds

Spec == Init /\ [][Next]_vars

------------------------------------------------------------------------------
(* Properties                                                               *)

AtRest == \A r \in Refresh : run[r].pc = "idle"

\* Between two refreshes each cover shows exactly what the latest list or read told of its
\* own gate, and unknown after a failed read, whatever became of the other gates' reads
\* (_async_update_data), as long as everything goes its usual way and the gate's route has
\* the local index that the cover reads.
CoversShowLatest == usual /\ AtRest => \A g \in Gate \ Elsewhere : shown[g] = latest[g]

\* The published data never change behind the entities' backs: they change only when the
\* listeners are called, though the refresh writes into the devices they came from
\* (deepcopy in _async_update_data and async_set_feature_value).
DataChangeAnnounced == [][data' # data => shown' = View(data', fresh')]_vars
==============================================================================
