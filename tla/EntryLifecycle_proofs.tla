------------------------ MODULE EntryLifecycle_proofs ------------------------
(***************************************************************************)
(* Theorems about EntryLifecycle for every set of accounts and platforms.  *)
(***************************************************************************)
EXTENDS EntryLifecycle, TLAPS

\* The state keeps its types.
LEMMA TypeStep == TypeOK /\ [Next]_vars => TypeOK'
<1> SUFFICES ASSUME TypeOK, [Next]_vars PROVE TypeOK'
  OBVIOUS
<1> USE EntryAssumption DEF TypeOK, State, Doing, Becomes, WaitsFor
<1>1. ASSUME NEW e \in Entry, Reloads(e) PROVE TypeOK'
  BY <1>1 DEF Reloads, AsksReload
<1>2. ASSUME NEW e \in Entry, Changed(e), reload' \in [Entry -> BOOLEAN]
      PROVE TypeOK'
  <2>1. settings' \in [Entry -> 0..MaxChanges]
    BY <1>2 DEF Changed
  <2>2. QED
    BY <1>2, <2>1 DEF Changed
<1>3. ASSUME NEW e \in Entry, SettingsChange(e) PROVE TypeOK'
  BY <1>2, <1>3 DEF SettingsChange, NotifiesListeners
<1>5. ASSUME NEW e \in Entry, Reauthenticates(e) PROVE TypeOK'
  BY <1>2, <1>5 DEF Reauthenticates, AsksReload
<1>6. ASSUME NEW e \in Entry, SetupStarts(e) PROVE TypeOK'
  BY <1>6 DEF SetupStarts, SetsUp
<1>7. ASSUME NEW e \in Entry, UnloadStarts(e) PROVE TypeOK'
  BY <1>7 DEF UnloadStarts
<1>8. ASSUME NEW e \in Entry, ReloadStarts(e) PROVE TypeOK'
  <2>1. CASE state[e] = "loaded"
    BY <1>8, <2>1 DEF ReloadStarts
  <2>2. CASE state[e] = "failed_unload"
    BY <1>8, <2>2 DEF ReloadStarts
  <2>3. CASE state[e] \notin {"loaded", "failed_unload"}
    <3>1. SetsUp(e)
      BY <1>8, <2>3 DEF ReloadStarts
    <3>2. QED
      BY <1>8, <3>1 DEF ReloadStarts, SetsUp
  <2>4. QED
    BY <2>1, <2>2, <2>3
<1>9. ASSUME NEW e \in Entry, Unloaded(e) PROVE TypeOK'
  <2>1. /\ state' \in [Entry -> State] /\ doing' \in [Entry -> Doing]
        /\ used' \in [Entry -> 0..MaxChanges] /\ missed' \in [Entry -> BOOLEAN]
    <3>1. CASE SetsUp(e)
      BY <1>9, <3>1 DEF Unloaded, SetsUp
    <3>2. CASE Becomes(e, "not_loaded") /\ WaitsFor(e, "nothing") /\ UNCHANGED <<used, missed>>
      BY <3>2
    <3>3. QED
      BY <1>9, <3>1, <3>2 DEF Unloaded
  <2>2. added' \in [Entry -> SUBSET Platform]
    BY <1>9 DEF Unloaded
  <2>3. QED
    BY <1>9, <2>1, <2>2 DEF Unloaded, ServicesAfter
<1>10. ASSUME NEW e \in Entry, NEW p \in Platform, PlatformSetsUp(e, p) PROVE TypeOK'
  <2>1. added' \in [Entry -> SUBSET Platform]
    BY <1>10 DEF PlatformSetsUp
  <2>2. QED
    BY <1>10, <2>1 DEF PlatformSetsUp
<1>11. ASSUME NEW e \in Entry, FirstRefreshEnds(e) \/ SetupEnds(e) \/ UnloadFails(e)
       PROVE TypeOK'
  <2>1. CASE FirstRefreshEnds(e)
    BY <2>1 DEF FirstRefreshEnds
  <2>2. CASE SetupEnds(e)
    BY <2>2 DEF SetupEnds
  <2>3. CASE UnloadFails(e)
    BY <2>3 DEF UnloadFails
  <2>4. QED
    BY <1>11, <2>1, <2>2, <2>3
<1>12. CASE UNCHANGED vars
  BY <1>12 DEF vars, entries
<1>13. QED
  BY <1>1, <1>3, <1>5, <1>6, <1>7, <1>8, <1>9, <1>10, <1>11, <1>12 DEF Next, Continues

\* The state of the entries and their services stays well-formed.
THEOREM TypeCorrect == Spec => []TypeOK
<1>1. Init => TypeOK
  BY EntryAssumption DEF Init, TypeOK, State, Doing
<1>2. QED
  BY <1>1, TypeStep, PTL DEF Spec

\* What waits belongs to the state that Home Assistant shows, and the settings in use are
\* not newer than the entry's.
PhasesMatch ==
    \A e \in Entry :
        /\ doing[e] \in {"firstRefresh", "platforms"} <=> state[e] = "setup_in_progress"
        /\ doing[e] \in {"unload", "unloadToReload"} <=> state[e] = "unload_in_progress"
        /\ used[e] <= settings[e]

\* Every step keeps it so.
LEMMA PhasesStep == TypeOK /\ PhasesMatch /\ [Next]_vars => PhasesMatch'
<1> SUFFICES ASSUME TypeOK, PhasesMatch, [Next]_vars PROVE PhasesMatch'
  OBVIOUS
<1> USE EntryAssumption DEF TypeOK, PhasesMatch, Becomes, WaitsFor
<1>1. ASSUME NEW e \in Entry, Changed(e) PROVE PhasesMatch'
  <2>1. \A f \in Entry : settings[f] <= settings'[f]
    BY <1>1 DEF Changed
  <2>2. \A f \in Entry : used[f] \in Nat /\ settings[f] \in Nat /\ settings'[f] \in Nat
    BY <1>1 DEF Changed
  <2>3. QED
    BY <1>1, <2>1, <2>2 DEF Changed
<1>2. ASSUME NEW e \in Entry, Reloads(e) \/ SettingsChange(e) \/ Reauthenticates(e)
      PROVE PhasesMatch'
  <2>1. CASE Reloads(e)
    BY <2>1 DEF Reloads
  <2>2. QED
    BY <1>1, <1>2, <2>1 DEF SettingsChange, Reauthenticates
<1>3. ASSUME NEW e \in Entry, SetsUp(e), UNCHANGED settings PROVE PhasesMatch'
  <2>1. /\ state' = [state EXCEPT ![e] = "setup_in_progress"]
        /\ doing' = [doing EXCEPT ![e] = "firstRefresh"]
        /\ used' = [used EXCEPT ![e] = settings[e]]
    BY <1>3 DEF SetsUp
  <2>2. settings[e] <= settings[e]
    OBVIOUS
  <2>3. QED
    BY <1>3, <2>1, <2>2
<1>4. ASSUME NEW e \in Entry, SetupStarts(e) PROVE PhasesMatch'
  BY <1>3, <1>4 DEF SetupStarts
<1>5. ASSUME NEW e \in Entry, UnloadStarts(e) PROVE PhasesMatch'
  BY <1>5 DEF UnloadStarts
<1>6. ASSUME NEW e \in Entry, ReloadStarts(e) PROVE PhasesMatch'
  <2>1. CASE state[e] = "loaded"
    BY <1>6, <2>1 DEF ReloadStarts
  <2>2. CASE state[e] = "failed_unload"
    BY <1>6, <2>2 DEF ReloadStarts
  <2>3. CASE state[e] \notin {"loaded", "failed_unload"}
    BY <1>3, <1>6, <2>3 DEF ReloadStarts
  <2>4. QED
    BY <2>1, <2>2, <2>3
<1>7. ASSUME NEW e \in Entry, Unloaded(e) PROVE PhasesMatch'
  <2>1. CASE SetsUp(e)
    BY <1>3, <1>7, <2>1 DEF Unloaded
  <2>2. CASE Becomes(e, "not_loaded") /\ WaitsFor(e, "nothing") /\ UNCHANGED <<used, missed>>
    BY <1>7, <2>2 DEF Unloaded
  <2>3. QED
    BY <1>7, <2>1, <2>2 DEF Unloaded
<1>8. ASSUME NEW e \in Entry, NEW p \in Platform, PlatformSetsUp(e, p) PROVE PhasesMatch'
  BY <1>8 DEF PlatformSetsUp
<1>9. ASSUME NEW e \in Entry, FirstRefreshEnds(e) PROVE PhasesMatch'
  BY <1>9 DEF FirstRefreshEnds
<1>10. ASSUME NEW e \in Entry, SetupEnds(e) PROVE PhasesMatch'
  BY <1>10 DEF SetupEnds
<1>11. ASSUME NEW e \in Entry, UnloadFails(e) PROVE PhasesMatch'
  BY <1>11 DEF UnloadFails
<1>12. CASE UNCHANGED vars
  BY <1>12 DEF vars, entries
<1>13. QED
  BY <1>2, <1>4, <1>5, <1>6, <1>7, <1>8, <1>9, <1>10, <1>11, <1>12 DEF Next, Continues

\* The services of loaded entries, and of none, before and after a step.
ServicesMatch == ServicesWhileLoaded /\ NoServiceLeftBehind

\* The last entry that unloads removes the services only if no other has been loaded, and
\* an entry that finds them removed registers them before it is loaded.
LEMMA ServicesStep == TypeOK /\ PhasesMatch /\ ServicesMatch /\ [Next]_vars => ServicesMatch'
<1> SUFFICES ASSUME TypeOK, PhasesMatch, ServicesMatch, [Next]_vars PROVE ServicesMatch'
  OBVIOUS
<1> USE DEF TypeOK, Becomes, WaitsFor, ServicesMatch, ServicesWhileLoaded, NoServiceLeftBehind
<1>1. CASE UNCHANGED <<state, services>>
  BY <1>1
<1>2. ASSUME NEW e \in Entry, NEW s, Becomes(e, s), UNCHANGED services,
             s \notin {"loaded", "unload_in_progress", "failed_unload"},
             state[e] \notin {"loaded", "unload_in_progress", "failed_unload"}
      PROVE ServicesMatch'
  BY <1>2
<1>3. ASSUME NEW e \in Entry, NEW s \in {"unload_in_progress", "failed_unload"}, Becomes(e, s),
             UNCHANGED services
      PROVE ServicesMatch'
  BY <1>3
<1>4. ASSUME NEW e \in Entry, SetupEnds(e) PROVE ServicesMatch'
  BY <1>4 DEF SetupEnds
<1>5. ASSUME NEW e \in Entry, Unloaded(e) PROVE ServicesMatch'
  <2>1. PICK s \in {"setup_in_progress", "not_loaded"} : Becomes(e, s)
    BY <1>5 DEF Unloaded, SetsUp
  <2>2. CASE Remaining(e) = {}
    <3>1. services' = {}
      BY <1>5, <2>2 DEF Unloaded, ServicesAfter
    <3>2. \A f \in Entry : state'[f] # "loaded"
      BY <2>1, <2>2 DEF Remaining
    <3>3. QED
      BY <3>1, <3>2
  <2>3. CASE Remaining(e) # {}
    <3>1. services' = services
      BY <1>5, <2>3 DEF Unloaded, ServicesAfter
    <3>2. PICK f \in Entry \ {e} : state[f] = "loaded"
      BY <2>3 DEF Remaining
    <3>3. QED
      BY <2>1, <3>1, <3>2
  <2>4. QED
    BY <2>2, <2>3
<1>6. ASSUME NEW e \in Entry, FirstRefreshEnds(e) PROVE ServicesMatch'
  <2>1. state[e] = "setup_in_progress"
    BY <1>6 DEF FirstRefreshEnds, PhasesMatch
  <2>2. CASE UNCHANGED state
    BY <1>1, <1>6, <2>2 DEF FirstRefreshEnds
  <2>3. ASSUME NEW s \in {"setup_retry", "setup_error"}, Becomes(e, s) PROVE ServicesMatch'
    BY <1>2, <1>6, <2>1, <2>3 DEF FirstRefreshEnds
  <2>4. QED
    BY <1>6, <2>2, <2>3 DEF FirstRefreshEnds
<1>7. ASSUME NEW e \in Entry, SetupStarts(e) PROVE ServicesMatch'
  BY <1>2, <1>7 DEF SetupStarts, SetsUp
<1>8. ASSUME NEW e \in Entry, UnloadStarts(e) PROVE ServicesMatch'
  <2>1. CASE state[e] = "loaded" /\ Becomes(e, "unload_in_progress")
    BY <1>3, <1>8, <2>1 DEF UnloadStarts
  <2>2. CASE state[e] \in {"setup_retry", "setup_error"} /\ Becomes(e, "not_loaded")
    BY <1>2, <1>8, <2>2 DEF UnloadStarts
  <2>3. QED
    BY <1>8, <2>1, <2>2 DEF UnloadStarts
<1>9. ASSUME NEW e \in Entry, ReloadStarts(e) PROVE ServicesMatch'
  <2>1. CASE state[e] = "loaded"
    BY <1>3, <1>9, <2>1 DEF ReloadStarts
  <2>2. CASE state[e] = "failed_unload"
    BY <1>1, <1>9, <2>2 DEF ReloadStarts
  <2>3. CASE state[e] \notin {"loaded", "failed_unload"}
    <3>1. SetsUp(e) /\ UNCHANGED services
      BY <1>9, <2>3 DEF ReloadStarts
    <3>2. state[e] # "unload_in_progress"
      BY <1>9 DEF ReloadStarts, PhasesMatch
    <3>3. QED
      BY <1>2, <2>3, <3>1, <3>2 DEF SetsUp
  <2>4. QED
    BY <2>1, <2>2, <2>3
<1>10. ASSUME NEW e \in Entry, UnloadFails(e) PROVE ServicesMatch'
  BY <1>3, <1>10 DEF UnloadFails
<1>11. ASSUME NEW e \in Entry, \/ Reloads(e) \/ SettingsChange(e)
                                 \/ Reauthenticates(e) \/ \E p \in Platform : PlatformSetsUp(e, p)
       PROVE ServicesMatch'
  BY <1>1, <1>11 DEF Reloads, SettingsChange, Reauthenticates, Changed,
                     PlatformSetsUp
<1>12. CASE UNCHANGED vars
  BY <1>1, <1>12 DEF vars, entries
<1>13. QED
  BY <1>4, <1>5, <1>6, <1>7, <1>8, <1>9, <1>10, <1>11, <1>12 DEF Next, Continues

\* The services and the phases of the entries always match.
LEMMA ServicesInv == Spec => []ServicesMatch
<1>1. Init => PhasesMatch /\ ServicesMatch
  BY EntryAssumption DEF Init, PhasesMatch, ServicesMatch, ServicesWhileLoaded, NoServiceLeftBehind
<1>2. QED
  BY <1>1, TypeCorrect, PhasesStep, ServicesStep, PTL DEF Spec

\* A loaded entry has all services, whatever other entries do meanwhile.
THEOREM ServicesCorrect == Spec => []ServicesWhileLoaded
BY ServicesInv, PTL DEF ServicesMatch

\* Once no entry needs the services there are none.
THEOREM NothingLeftBehind == Spec => []NoServiceLeftBehind
BY ServicesInv, PTL DEF ServicesMatch

\* What the setup of an entry has read is still so, unless a change fell into it; once the
\* entry is loaded, the listener turns every change into a reload.
Current ==
    \A e \in Entry :
        /\ state[e] = "loaded" => listening[e]
        /\ ~missed[e] /\ \/ state[e] = "setup_in_progress"
                         \/ state[e] = "loaded" /\ ~reload[e]
              => used[e] = settings[e]

\* Every step keeps it so.
LEMMA CurrentStep == TypeOK /\ PhasesMatch /\ Current /\ [Next]_vars => Current'
<1> SUFFICES ASSUME TypeOK, PhasesMatch, Current, [Next]_vars PROVE Current'
  OBVIOUS
<1> USE EntryAssumption DEF TypeOK, Becomes, WaitsFor, Current
<1>1. ASSUME NEW e \in Entry, Changed(e),
             state[e] = "loaded" => reload'[e], \A f \in Entry \ {e} : reload'[f] = reload[f]
      PROVE Current'
  <2>1. \A f \in Entry \ {e} : settings'[f] = settings[f] /\ missed'[f] = missed[f]
    BY <1>1 DEF Changed
  <2>2. state[e] = "setup_in_progress" => missed'[e]
    BY <1>1 DEF Changed
  <2>3. UNCHANGED <<state, used, listening>>
    BY <1>1 DEF Changed
  <2>4. QED
    BY <1>1, <2>1, <2>2, <2>3
<1>2. ASSUME NEW e \in Entry, SettingsChange(e) \/ Reauthenticates(e)
      PROVE Current'
  <2>1. /\ state[e] = "loaded" => reload'[e]
        /\ \A f \in Entry \ {e} : reload'[f] = reload[f]
    BY <1>2 DEF SettingsChange, Reauthenticates, AsksReload,
                NotifiesListeners
  <2>2. QED
    BY <1>1, <1>2, <2>1 DEF SettingsChange, Reauthenticates
<1>3. ASSUME NEW e \in Entry, Reloads(e) PROVE Current'
  BY <1>3 DEF Reloads, AsksReload
<1>4. ASSUME NEW e \in Entry, SetsUp(e), UNCHANGED settings,
             \A f \in Entry \ {e} : reload'[f] = reload[f] /\ listening'[f] = listening[f]
      PROVE Current'
  <2>1. state'[e] = "setup_in_progress" /\ used'[e] = settings[e]
    BY <1>4 DEF SetsUp
  <2>2. \A f \in Entry \ {e} : state'[f] = state[f] /\ used'[f] = used[f] /\ missed'[f] = missed[f]
    BY <1>4 DEF SetsUp
  <2>3. QED
    BY <1>4, <2>1, <2>2
<1>5. ASSUME NEW e \in Entry, SetupStarts(e) PROVE Current'
  BY <1>4, <1>5 DEF SetupStarts
<1>6. ASSUME NEW e \in Entry, UnloadStarts(e) PROVE Current'
  BY <1>6 DEF UnloadStarts
<1>7. ASSUME NEW e \in Entry, ReloadStarts(e) PROVE Current'
  <2>1. CASE state[e] = "loaded"
    BY <1>7, <2>1 DEF ReloadStarts
  <2>2. CASE state[e] = "failed_unload"
    BY <1>7, <2>2 DEF ReloadStarts
  <2>3. CASE state[e] \notin {"loaded", "failed_unload"}
    BY <1>4, <1>7, <2>3 DEF ReloadStarts
  <2>4. QED
    BY <2>1, <2>2, <2>3
<1>8. ASSUME NEW e \in Entry, Unloaded(e) PROVE Current'
  <2>1. CASE SetsUp(e)
    BY <1>4, <1>8, <2>1 DEF Unloaded
  <2>2. CASE Becomes(e, "not_loaded") /\ UNCHANGED <<used, missed>>
    BY <1>8, <2>2 DEF Unloaded
  <2>3. QED
    BY <1>8, <2>1, <2>2 DEF Unloaded
<1>9. ASSUME NEW e \in Entry, FirstRefreshEnds(e) PROVE Current'
  BY <1>9 DEF FirstRefreshEnds
<1>10. ASSUME NEW e \in Entry, SetupEnds(e) PROVE Current'
  <2>1. state[e] = "setup_in_progress"
    BY <1>10 DEF SetupEnds, PhasesMatch
  <2>2. listening' = [listening EXCEPT ![e] = TRUE] /\ state' = [state EXCEPT ![e] = "loaded"]
    BY <1>10 DEF SetupEnds
  <2>3. QED
    BY <1>10, <2>1, <2>2 DEF SetupEnds
<1>11. ASSUME NEW e \in Entry, UnloadFails(e) PROVE Current'
  BY <1>11 DEF UnloadFails
<1>12. ASSUME NEW e \in Entry, NEW p \in Platform, PlatformSetsUp(e, p) PROVE Current'
  BY <1>12 DEF PlatformSetsUp
<1>13. CASE UNCHANGED vars
  BY <1>13 DEF vars, entries
<1>14. QED
  BY <1>2, <1>3, <1>5, <1>6, <1>7, <1>8, <1>9, <1>10, <1>11, <1>12, <1>13 DEF Next, Continues

\* A loaded entry that no reload waits for runs with its current settings, unless they were
\* changed during its setup.
THEOREM RunsCurrent == Spec => []LoadedIsCurrent
<1>1. Init => PhasesMatch /\ Current
  BY EntryAssumption DEF Init, PhasesMatch, Current
<1>2. TypeOK /\ Current => LoadedIsCurrent
  BY DEF TypeOK, Current, LoadedIsCurrent
<1>3. QED
  BY <1>1, <1>2, TypeCorrect, PhasesStep, CurrentStep, PTL DEF Spec
==============================================================================
