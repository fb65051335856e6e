---------------------------- MODULE EntryLifecycle ----------------------------
(***************************************************************************)
(* The life of the integration's config entries (__init__.py): set up,     *)
(* unloaded and reloaded under each entry's setup_lock, with the services  *)
(* they share and the settings that flows and buttons change meanwhile.    *)
(*                                                                         *)
(* Home Assistant's part (ConfigEntries) is external: it serialises the    *)
(* operations of one entry, keeps its state, and calls what the            *)
(* integration registers.  Entries do not wait for each other.             *)
(***************************************************************************)
EXTENDS Naturals

CONSTANTS
    Entry,          \* the accounts that are configured
    Platform,       \* PLATFORMS
    MaxChanges      \* bound on the changes of an entry's settings

ASSUME EntryAssumption == MaxChanges \in Nat

ServiceName == {"send_iot_action", "get_iot_feature", "get_cloud_metadata",
                "get_manual_scenes", "send_ble_command"}

VARIABLES
    state,      \* ConfigEntryState of each entry
    doing,      \* what the operation that holds its setup_lock waits for
    reload,     \* does a reload wait for it?
    settings,   \* entry.data, entry.options and its subentries: the number of the last change
    used,       \* the change the coordinator and its BLE controllers were made from
    added,      \* the platforms that have added their entities
    listening,  \* is _async_update_listener registered?
    services,   \* the services of the integration
    missed      \* history: a change fell into the latest setup

entries == <<state, doing, reload, settings, used, added, listening, missed>>
vars == <<entries, services>>

State == {"not_loaded", "setup_in_progress", "loaded", "unload_in_progress", "setup_retry",
          "setup_error", "failed_unload"}
Doing == {"nothing", "firstRefresh", "platforms", "unload", "unloadToReload"}

TypeOK ==
    /\ state \in [Entry -> State]
    /\ doing \in [Entry -> Doing]
    /\ {settings, used} \subseteq [Entry -> 0..MaxChanges]
    /\ added \in [Entry -> SUBSET Platform]
    /\ {reload, listening, missed} \subseteq [Entry -> BOOLEAN]
    /\ services \subseteq ServiceName

Init ==
    /\ state = [e \in Entry |-> "not_loaded"]
    /\ doing = [e \in Entry |-> "nothing"]
    /\ reload = [e \in Entry |-> FALSE]
    /\ settings = [e \in Entry |-> 0] /\ used = [e \in Entry |-> 0]
    /\ added = [e \in Entry |-> {}]
    /\ listening = [e \in Entry |-> FALSE] /\ missed = [e \in Entry |-> FALSE]
    /\ services = {}

Becomes(e, s) == state' = [state EXCEPT ![e] = s]

WaitsFor(e, what) == doing' = [doing EXCEPT ![e] = what]

------------------------------------------------------------------------------
(* Changes                                                                  *)

AsksReload(e) == reload' = [reload EXCEPT ![e] = TRUE]

\* The user reloads the entry.
Reloads(e) ==
    /\ AsksReload(e)
    /\ UNCHANGED <<state, doing, settings, used, added, listening, services, missed>>

\* The update listeners of the entry are called: _async_update_listener asks for a reload.
NotifiesListeners(e) == reload' = [reload EXCEPT ![e] = @ \/ listening[e]]

Changed(e) ==
    /\ settings[e] < MaxChanges
    /\ settings' = [settings EXCEPT ![e] = @ + 1]
    /\ missed' = [missed EXCEPT ![e] = @ \/ state[e] = "setup_in_progress"]
    /\ UNCHANGED <<state, doing, used, added, listening, services>>

\* The options flow ends, or the gate's subentry is added, reconfigured, given new durations
\* or deleted.
SettingsChange(e) == Changed(e) /\ NotifiesListeners(e)

\* The account's password is entered again: async_update_reload_and_abort.
Reauthenticates(e) == Changed(e) /\ AsksReload(e)

------------------------------------------------------------------------------
(* Setup                                                                    *)

\* async_setup_entry that keeps the controllers of the setup before (a mutation).
SetsUpWithOldSettings(e) ==
    /\ Becomes(e, "setup_in_progress") /\ WaitsFor(e, "firstRefresh")
    /\ UNCHANGED used
    /\ missed' = [missed EXCEPT ![e] = FALSE]

\* async_setup_entry up to its first await: API, BLE controllers and coordinator are made.
SetsUp(e) ==
    /\ Becomes(e, "setup_in_progress") /\ WaitsFor(e, "firstRefresh")
    /\ used' = [used EXCEPT ![e] = settings[e]]
    /\ missed' = [missed EXCEPT ![e] = FALSE]

\* Home Assistant starts, the entry is enabled, or a setup is tried again.
SetupStarts(e) ==
    /\ state[e] \in {"not_loaded", "setup_retry", "setup_error"}
    /\ SetsUp(e)
    /\ UNCHANGED <<reload, settings, added, listening, services>>

\* async_config_entry_first_refresh returns, and runtime_data is set; or it raises
\* ConfigEntryNotReady or ConfigEntryAuthFailed.
FirstRefreshEnds(e) ==
    /\ doing[e] = "firstRefresh"
    /\ \/ WaitsFor(e, "platforms") /\ UNCHANGED state
       \/ WaitsFor(e, "nothing") /\ \E s \in {"setup_retry", "setup_error"} : Becomes(e, s)
    /\ UNCHANGED <<reload, settings, used, added, listening, services, missed>>

\* async_forward_entry_setups: one platform adds its entities.
PlatformSetsUp(e, p) ==
    /\ doing[e] = "platforms" /\ p \notin added[e]
    /\ added' = [added EXCEPT ![e] = @ \cup {p}]
    /\ UNCHANGED <<state, doing, reload, settings, used, listening, services, missed>>

\* The end of async_setup_entry without add_update_listener (a mutation).
SetupEndsDeaf(e) ==
    /\ doing[e] = "platforms" /\ added[e] = Platform
    /\ services' = services \cup ServiceName
    /\ Becomes(e, "loaded") /\ WaitsFor(e, "nothing")
    /\ UNCHANGED <<reload, settings, used, added, listening, missed>>

\* The end of async_setup_entry, without an await: the listener is added, each service
\* registered unless another entry has done so, and the entry is loaded.
SetupEnds(e) ==
    /\ doing[e] = "platforms" /\ added[e] = Platform
    /\ listening' = [listening EXCEPT ![e] = TRUE]
    /\ services' = services \cup ServiceName
    /\ Becomes(e, "loaded") /\ WaitsFor(e, "nothing")
    /\ UNCHANGED <<reload, settings, used, added, missed>>

------------------------------------------------------------------------------
(* Unload and reload                                                        *)

\* async_unload_entry up to its await, async_unload_platforms: the entry is disabled or
\* Home Assistant stops.  An entry that is not loaded just gives up its setups.
UnloadStarts(e) ==
    /\ \/ state[e] = "loaded" /\ Becomes(e, "unload_in_progress") /\ WaitsFor(e, "unload")
       \/ state[e] \in {"setup_retry", "setup_error"} /\ Becomes(e, "not_loaded")
          /\ UNCHANGED doing
    /\ UNCHANGED <<reload, settings, used, added, listening, services, missed>>

\* async_reload gets the setup_lock.  It raises if an unloading has failed before.
ReloadStarts(e) ==
    /\ reload[e] /\ doing[e] = "nothing"
    /\ reload' = [reload EXCEPT ![e] = FALSE]
    /\ CASE state[e] = "loaded" -> /\ Becomes(e, "unload_in_progress")
                                   /\ WaitsFor(e, "unloadToReload") /\ UNCHANGED <<used, missed>>
         [] state[e] = "failed_unload" -> UNCHANGED <<state, doing, used, missed>>
         [] OTHER -> SetsUp(e)
    /\ UNCHANGED <<settings, added, listening, services>>

Remaining(e) == {f \in Entry \ {e} : state[f] = "loaded"}

\* The services removed whatever entries are left (a mutation).
RemovesAllServices(e) == {}

\* The services removed by an entry that other entries come to take part of (a mutation).
KeepsAllServices(e) == services

\* The services after the unloading of e: none once no other entry is loaded.
ServicesAfter(e) == IF Remaining(e) = {} THEN {} ELSE services

\* The platforms are unloaded: the services that nobody else needs are removed, and the
\* listener with the entry's other callbacks.  A reload goes on with the setup.
Unloaded(e) ==
    /\ doing[e] \in {"unload", "unloadToReload"}
    /\ services' = ServicesAfter(e)
    /\ listening' = [listening EXCEPT ![e] = FALSE]
    /\ added' = [added EXCEPT ![e] = {}]
    /\ IF doing[e] = "unloadToReload"
       THEN SetsUp(e)
       ELSE Becomes(e, "not_loaded") /\ WaitsFor(e, "nothing") /\ UNCHANGED <<used, missed>>
    /\ UNCHANGED <<reload, settings>>

\* A platform does not unload: nothing is removed, and Home Assistant gives up on the entry.
UnloadFails(e) ==
    /\ doing[e] \in {"unload", "unloadToReload"}
    /\ Becomes(e, "failed_unload") /\ WaitsFor(e, "nothing")
    /\ UNCHANGED <<reload, settings, used, added, listening, services, missed>>

------------------------------------------------------------------------------
Continues(e) == \/ FirstRefreshEnds(e) \/ SetupEnds(e) \/ Unloaded(e) \/ UnloadFails(e)
                \/ \E p \in Platform : PlatformSetsUp(e, p)

Next ==
    \E e \in Entry : \/ Reloads(e) \/ SettingsChange(e)
                     \/ Reauthenticates(e) \/ SetupStarts(e) \/ UnloadStarts(e)
                     \/ ReloadStarts(e) \/ Continues(e)

Spec == Init /\ [][Next]_vars

\* The awaits of an operation end, and the setup_lock comes round to a reload (it is fair).
FairSpec == Spec /\ \A e \in Entry : WF_vars(Continues(e)) /\ SF_vars(ReloadStarts(e))

------------------------------------------------------------------------------
(* Properties                                                               *)

\* A loaded entry has all services, whatever the entries beside it go through: the last
\* one that unloads removes them only if none has been loaded while it waited for its
\* platforms, and one that is still being set up finds them gone and registers them itself
\* (async_setup_entry, async_unload_entry).
ServicesWhileLoaded == (\E e \in Entry : state[e] = "loaded") => services = ServiceName

\* Once no entry is loaded nor on its way out there are no services left to call, unless
\* an unloading has failed.
NoServiceLeftBehind ==
    (\A e \in Entry : state[e] \notin {"loaded", "unload_in_progress", "failed_unload"})
        => services = {}

\* "Reload the config entry when its options change" (_async_update_listener): a loaded
\* entry that no reload waits for runs with its current settings -- unless they were changed
\* while it was being set up, between reading them and adding the listener: such a change is
\* not followed by a reload, and the entry runs without it until the next one.
LoadedIsCurrent ==
    \A e \in Entry : state[e] = "loaded" /\ ~reload[e] /\ ~missed[e]
                        => used[e] = settings[e]

\* A change of a loaded entry's settings comes into effect, one of several included, or the
\* entry is no longer loaded; a change that fell into the setup is excepted as above.
ChangesTakeEffect ==
    \A e \in Entry : state[e] = "loaded" /\ ~missed[e] /\ used[e] # settings[e]
                        ~> state[e] # "loaded" \/ used[e] = settings[e]
==============================================================================
