---------------------------- MODULE FeatureWrites ----------------------------
(***************************************************************************)
(* The settings entities that write to the cloud, and the refresh that     *)
(* brings their values back (coordinator.py).                              *)
(*                                                                         *)
(* An entity of entity.py writes a complete feature object, such as        *)
(* WarningLightCfg with its five settings: it copies the published one,    *)
(* changes its own value, sends the copy from an executor thread and,      *)
(* after a good answer, puts it in place of the object in all_devices and  *)
(* in the published data.  A "camera-style" switch (switch.py) sends its   *)
(* own value only and leaves it to the refresh to bring the value back.    *)
(* The cloud takes what is sent at some time of the request, or never.     *)
(***************************************************************************)
EXTENDS Naturals

CONSTANTS
    Field,      \* the settings in the feature object: one entity each
    Switch,     \* the camera-style switches of the account
    Value,      \* values of a setting
    MaxChanges  \* bound on the changes the users make, here and in the EZVIZ app

ASSUME MaxChangesAssumption == MaxChanges \in Nat

Setting == Field \cup Switch

VARIABLES
    cloud,      \* the settings the cloud has
    all,        \* those in all_devices
    data,       \* those in the published data
    writer,     \* the write of each entity
    refresh,    \* _async_update_data
    changes,    \* changes made so far
    held        \* history: all that the cloud has had

vars == <<cloud, all, data, writer, refresh, changes, held>>

Object == [Setting -> Value]
WriterRecord == [pc : {"idle", "sent", "taken"}, root : Object]
RefreshRecord == [pc : {"idle", "asked", "listed", "reading"}, devices : Object]

TypeOK ==
    /\ {cloud, all, data} \subseteq Object
    /\ writer \in [Setting -> WriterRecord]
    /\ refresh \in RefreshRecord
    /\ changes \in 0..MaxChanges
    /\ held \subseteq Object

\* After the first refresh.
Init ==
    /\ cloud \in Object /\ all = cloud /\ data = cloud
    /\ writer = [s \in Setting |-> [pc |-> "idle", root |-> cloud]]
    /\ refresh = [pc |-> "idle", devices |-> cloud]
    /\ changes = 0
    /\ held = {cloud}

------------------------------------------------------------------------------
(* A write of the entity of setting s                                       *)

\* The settings that are written together with s.
Part(s) == IF s \in Field THEN Field ELSE {s}

\* set_feature_root, or the value of a switch: what s wrote in its place.
Written(object, s) ==
    [t \in Setting |-> IF t \in Part(s) THEN writer[s].root[t] ELSE object[t]]

\* async_set_feature_value or _async_set_switch up to its executor job.
SetStarts(s, v) ==
    /\ changes < MaxChanges
    /\ writer[s].pc = "idle"
    /\ writer' = [writer EXCEPT ![s] = [pc |-> "sent", root |-> [data EXCEPT ![s] = v]]]
    /\ changes' = changes + 1
    /\ UNCHANGED <<cloud, all, data, refresh, held>>

CloudTakes(s) ==
    /\ writer[s].pc = "sent"
    /\ writer' = [writer EXCEPT ![s].pc = "taken"]
    /\ cloud' = Written(cloud, s)
    /\ held' = held \cup {cloud'}
    /\ UNCHANGED <<all, data, refresh, changes>>

\* SetEnds before the request has been answered (a mutation).
SetEndsUnanswered(s) ==
    /\ writer[s].pc \in {"sent", "taken"}
    /\ writer' = [writer EXCEPT ![s].pc = "idle"]
    /\ all' = Written(all, s) /\ data' = Written(data, s)
    /\ UNCHANGED <<cloud, refresh, changes, held>>

\* The good answer: the object that was sent replaces the ones here.  A switch asks for a
\* refresh, which may come at any time, and changes nothing here.
SetEnds(s) ==
    /\ writer[s].pc = "taken"
    /\ writer' = [writer EXCEPT ![s].pc = "idle"]
    /\ \/ s \in Field /\ all' = Written(all, s) /\ data' = Written(data, s)
       \/ s \notin Field /\ UNCHANGED <<all, data>>
    /\ UNCHANGED <<cloud, refresh, changes, held>>

\* The request is rejected, or it or its answer is lost: HomeAssistantError.
SetFails(s) ==
    /\ writer[s].pc # "idle"
    /\ writer' = [writer EXCEPT ![s].pc = "idle"]
    /\ UNCHANGED <<cloud, all, data, refresh, changes, held>>

\* The EZVIZ app changes a setting.
AppChanges(s, v) ==
    /\ changes < MaxChanges
    /\ changes' = changes + 1
    /\ cloud' = [cloud EXCEPT ![s] = v]
    /\ held' = held \cup {cloud'}
    /\ UNCHANGED <<all, data, writer, refresh>>

------------------------------------------------------------------------------
(* The refresh                                                              *)

\* A full refresh that is only made while there are no devices yet (a mutation).
StartsFullWhenEmpty ==
    /\ FALSE
    /\ refresh' = [refresh EXCEPT !.pc = "asked"]
    /\ UNCHANGED <<cloud, all, data, writer, changes, held>>

\* FULL_REFRESH_INTERVAL has passed since the last device list.
StartsFull ==
    /\ refresh.pc = "idle"
    /\ refresh' = [refresh EXCEPT !.pc = "asked"]
    /\ UNCHANGED <<cloud, all, data, writer, changes, held>>

StartsCached ==
    /\ refresh.pc = "idle"
    /\ refresh' = [pc |-> "reading", devices |-> all]
    /\ UNCHANGED <<cloud, all, data, writer, changes, held>>

CloudLists ==
    /\ refresh.pc = "asked"
    /\ refresh' = [pc |-> "listed", devices |-> cloud]
    /\ UNCHANGED <<cloud, all, data, writer, changes, held>>

\* The device list becomes all_devices; the reads of the door statuses follow.
ListArrives ==
    /\ refresh.pc = "listed"
    /\ refresh' = [refresh EXCEPT !.pc = "reading"]
    /\ all' = refresh.devices
    /\ UNCHANGED <<cloud, data, writer, changes, held>>

\* The list cannot be had, or a read raises an unexpected exception.
RefreshFails ==
    /\ refresh.pc # "idle"
    /\ refresh' = [refresh EXCEPT !.pc = "idle"]
    /\ UNCHANGED <<cloud, all, data, writer, changes, held>>

\* The last read is over: the devices of the refresh replace both.
RefreshEnds ==
    /\ refresh.pc = "reading"
    /\ refresh' = [refresh EXCEPT !.pc = "idle"]
    /\ all' = refresh.devices /\ data' = refresh.devices
    /\ UNCHANGED <<cloud, writer, changes, held>>

------------------------------------------------------------------------------
Next ==
    \/ \E s \in Setting : \/ \E v \in Value : SetStarts(s, v) \/ AppChanges(s, v)
                          \/ CloudTakes(s) \/ SetEnds(s) \/ SetFails(s)
    \/ StartsFull \/ StartsCached \/ CloudLists \/ ListArrives
    \/ RefreshFails \/ RefreshEnds

Spec == Init /\ [][Next]_vars

\* Requests have timeouts.  Refreshes recur, each a full one once the interval has passed
\* and until one succeeds; and the cloud is not out of reach for good.
Fairness ==
    /\ \A s \in Setting : WF_vars(SetEnds(s) \/ SetFails(s))
    /\ SF_vars(StartsFull) /\ SF_vars(CloudLists)
    /\ SF_vars(ListArrives) /\ SF_vars(RefreshEnds)

FairSpec == Spec /\ Fairness

------------------------------------------------------------------------------
(* Properties                                                               *)

\* What the entities of an object show together is never a mixture of settings that the
\* cloud never had at one time, however writes, changes in the app and refreshes overlap:
\* the entity puts the whole object it sent in place, and the refresh the whole list
\* (async_set_feature_value, _async_update_data).
NothingInvented ==
    \A object \in {all, data} : \A s \in Setting :
        \E had \in held : \A t \in Part(s) : object[t] = had[t]

\* Once nobody changes a setting any more, the entities come to show what the cloud has, and
\* go on to: a refresh that overlapped the last write and put old settings back, or made do
\* with the devices it had while a switch waited for its new value, is made up for by the
\* next full one (FULL_REFRESH_INTERVAL).
EventuallyShowsCloud == <>[](data = cloud)

\* "Write the complete feature object while changing one scalar value"
\* (async_set_feature_value): a write changes no other setting of the cloud.
OneSettingChanges ==
    [][\A f \in Field : writer[f].pc = "sent" /\ writer'[f].pc = "taken"
                        => \A g \in Field \ {f} : cloud'[g] = cloud[g]]_vars
==============================================================================
