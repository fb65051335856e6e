# A TLA+ model of the EZVIZ HG2 integration

This directory holds TLA+ specifications of the Home Assistant integration in
`custom_components/ezviz_hg2`, configurations that check them with TLC, and proofs of
their main theorems for TLAPS. All paths below are relative to `custom_components/ezviz_hg2`
unless they name another directory;
`README.md` and `CHANGELOG.md` are the repository's own.

    tlc -config GateCover.cfg MCGateCover.tla       # one run of TLC
    tlapm GateCover_proofs.tla                      # the proofs of one module

## 1. The system

The integration drives gates (HG2) and chimes (CH3) of an EZVIZ account. Everything runs on
Home Assistant's event loop; the loop switches between coroutines only at an `await`, and
blocking cloud requests run in executor threads that the coroutines await.

| Component | State it keeps | Operations | Talks to |
|---|---|---|---|
| Gate cover (`cover.py`) | movement estimate, auto-stop timer, open-retry timer | open, close, stop, set position; two timer callbacks; coordinator update; removal | coordinator (reads its data, asks for refreshes), API (executor), BLE controller |
| Movement estimator (`travel.py`) | position, start, target, duration | start, clear, position_at | owned by a cover |
| Command routing (`device.py`, `api.py`) | none | route decision, classification of cloud answers, BLE fallback rule | used by the cover |
| Account coordinator (`coordinator.py`) | `all_devices`, published `data`, `last_update_success`, `gate_status_freshness` | refresh (full list or cached copy, then one read per gate) | API; calls the entities' listeners |
| BLE controller (`ble.py`) | a lock; per call a client and a session | async_send | Home Assistant's Bluetooth, bleak |
| Settings entities (`entity.py`, `number.py`, `select.py`, `switch.py`) | none of their own | write a feature, then replace `all_devices` and `data` | API, coordinator |
| Buttons and calibration (`button.py`) | none of their own; the gate's config subentry | timed open/close cycle, reset, custom open | API, coordinator, config entries |
| Entry life cycle (`__init__.py`) | runtime data, services, BLE controllers, update listener | setup, unload, reload; services that relay one call | all of the above |
| Configuration flows (`config_flow.py`) | the entry's data and options, the gates' subentries | add an account, enter its password again, options, add or reconfigure a gate | entry life cycle (reloads) |
| Sensors, firmware update, diagnostics | none | views, one cloud call | coordinator |

What is hard here, and what must hold:

* **Cover.** A command awaits the cloud or BLE, then a refresh, and only then starts the
  estimate and arms its timer; meanwhile other commands, both timer callbacks, refreshes
  and the removal of the entity may run. A command must not reach the motor twice when the
  cloud's answer is ambiguous; a timer must not survive a newer command; an open is retried
  once, with good reason; a slider move must be stopped; the estimate must not jump.
* **Coordinator.** A refresh is suspended once per gate. Overlapping refreshes, settings
  writes and failures in the middle see a cache that is partly new. One gate's failure must
  stay its own, and what a cover shows must be what was read.
* **BLE controller.** Calls of the cover, its retry, its auto-stop and a service overlap.
  The lock must serialise them and never stay locked, a session must be closed before the
  next one, and the motor value may be written only once per call.
  Its frames depend on the gate's software version, answers come among other frames and late,
  and success may be reported only for a value that the gate took.
* **Settings writes** and refreshes replace the same dictionaries around each other's awaits.
* **Calibration** trusts a cached status while the gate, the refreshes and the entry go their own
  ways, and refreshes overlap; what it stores must have been measured.
* **Entries** are set up, unloaded and reloaded each at its own pace, but share the services; their
  settings change at any await. A loaded entry must have its services and run with its current
  settings.
* **The estimate** is arithmetic on a flat-ended curve that times a physical stop, while the retry of
  an earlier open may start it anew.

`PROJECT.json` lists each of these hazards with its line and the properties about it.

## 2. The modules

| Module | What it is |
|---|---|
| `DeviceRouting` | the pure decisions: route, meaning of a cloud answer, fallback rule |
| `GateCover` | one cover with its estimator and timers; uses `DeviceRouting` |
| `MCGateCover` | its constants for TLC |
| `GateCover_proofs` | theorems about `GateCover` |
| `MotorChannel` | abstract: what a BLE controller promises its callers |
| `BleController` | the controller; implements `MotorChannel` |
| `MCBleController`, `BleController_proofs` | constants for TLC; theorems |
| `BleFrames` | the wire format: frames, tag-length-value fields, motor frame |
| `BleSession`, `MCBleSession`, `BleSession_proofs` | one call in detail, over `BleFrames`; implements a call of `BleController` |
| `Coordinator`, `MCCoordinator`, `Coordinator_proofs` | the refreshes of an account with several gates |
| `FeatureWrites`, `MCFeatureWrites`, `FeatureWrites_proofs` | the settings entities and the refresh |
| `Calibration`, `MCCalibration`, `Calibration_proofs` | the button that measures the travel durations, and the one that resets them |
| `EntryLifecycle`, `MCEntryLifecycle`, `EntryLifecycle_proofs` | set up, unload and reload of several entries, and the changes of their settings |
| `MovementEstimator`, `MCMovementEstimator`, `MovementEstimator_proofs` | the arithmetic of the estimate and of the slider |

Three modules see the cover from three sides: `GateCover` has its concurrency, without measure of
time or place; `MovementEstimator` has the measures, one command at a time; `Coordinator` says what a
refresh lets it show. `BleSession` implements `BleController`, which implements `MotorChannel`.

Definitions marked "(a mutation)" are deliberate faults. No specification uses them; putting
one in the place of the definition it varies shows that a property would notice the fault.

### GateCover

A *task slot* holds one coroutine: a service call or a timer callback. Its `pc` names the
`await` it is suspended at, so that an action is exactly the code between two awaits:

| `pc` | the code waits in |
|---|---|
| `cloud` | `async_add_executor_job(send_iot_action)` (`cover.py:291`) |
| `ble` | `ble.async_send` (270, 278, 312) |
| `refresh` | `async_request_refresh` (323) |
| `checking` | the retry's `async_refresh` (197) |

`AsyncOpenCover` ... `AsyncSetCoverPosition` are the handlers up to their first await,
`CloudReplies`, `BleSucceeds`, `BleFails` and `RefreshReturns` the continuations (with
`Completes` for what the handler does after `_async_command`, `Raises` for its errors),
`AutoStopFires`, `OpenRetryFires` and `RetryChecks` the timer callbacks. A handler that ends
without an await leaves its slot idle.

`coord` is the coordinator as one cover reads it. `RefreshOutcome` gives everything one
refresh may leave; that it is right about one gate is the business of `Coordinator`. What
the cloud reports of the door is arbitrary, for the gate has its own remote controls.

`Dispatched` is a command up to its transport: without the device or a route (`Reaches`) it raises,
a timer's pause as well as a user's command.

`calls`, `hard`, `opposed`, `retried`, and the field `executed` of a slot are history:
no guard reads them but the bound `calls < MaxCalls`. `executed` is what the cloud did with the
slot's command, whatever its answer says (`CloudAnswer`): `"no"`, `"yes"`, or `"unsaid"` for one that
it carried out and answered with a `meta` mapping without a usable code, which `api.py:80` takes for
a rejection.

### BleController and MotorChannel

`waiting` is the `asyncio.Lock`: holder first, then its waiters in order. `pc` names the
await of each call. `Finally` is the `finally` clause of `_async_send_value`; a link may
drop at any time (`LinkDrops`), `disconnect()` may raise and leave the client connected
(`stuck`), and the caller may be cancelled at any await (`Cancelled`). A write that raises
may have reached the gate (`WritesMotor`). Frames are abstract: a request's wait ends with a
good answer or an error (`BleSession` has the detail). Mapped by `ChannelState`, every step is a step of `MotorChannel`
or a stutter: asked, delivered only while oldest, succeeded only when delivered.

### BleFrames and BleSession

Frames are sequences of bytes, built and read as `ble.py` does it, with both widths of both length
fields. The session's `pc` has the phases of `BleController`; `Writes` is `async_request` up to its
wait, `Receives` one turn of its loop (`ReadAs` tells an answer from an error and from a frame of no
concern), `KeyArrives`, `ProofJudged` and `MotorAnswers` what the code does with the answer to each
of the three requests, and `TimesOut` its deadline.

The gate is external. It reads each request with the same frame operators, and complies, refuses
or says nothing; `air` holds what it has sent, `queue` what has arrived, in any order, since two
characteristics deliver it. It also sends frames unasked (`Chats`): *harmless* ones, which a call must
survive, and *harmful* ones, which may make it fail. AES is an addition to each byte with the same
padding, the elliptic curve and the hash are small functions: enough to tell the right key from a
wrong one, which is all that control flow depends on. `disturbed` is history: whether anything has
gone wrong that excuses a failure. By `ImplementsCall` every behaviour is one of `BleController` with
a single caller: what that module takes for granted about requests, above all that a call returns
only if the gate took the value, follows from the frames.

### Coordinator

`run[r]` is one run of `_async_update_data`, suspended at the list request or at the read
of gate `Order[at]`, with its own `devices`. After a full refresh `devices` *is*
`all_devices` (`alias`), so that a run that dies leaves its changes there; a cached refresh
works on a deep copy. `ReadTells`, `ReadTellsNothing`, `ReadFails` and `ReadRaises` are the
four ways a read ends. `Fails` and the publication in `GoesOn` call the listeners as
`DataUpdateCoordinator` does (all listeners after a success and after the first failure in a
row). `shown` is what each cover then writes.

`set_door_status` stores under the route's local index and the covers read under index "0":
`Stored` has no effect that a cover of an `Elsewhere` gate could see.

`latest` and `usual` are history: what was last read, and whether everything so far was
free of overlapping refreshes, settings writes, answers without a status and unexpected
exceptions. Without `usual`, `CoversShowLatest` is false; section 4 has the reasons.

### FeatureWrites

The settings are a function in four places: the cloud, `all_devices` (`all`), the published data
(`data`) and, on their way, in the requests (`writer[s].root`) and the refresh (`refresh.devices`).
Those in `Field` form one feature object, which is always written as a whole; each in `Switch` is a
camera-style switch, written alone (`Part`, `Written`). `SetStarts` is `async_set_feature_value` or
`_async_set_switch` up to the executor job, `CloudTakes` what the request does to the cloud, `SetEnds`
and `SetFails` the code after the await: a feature entity replaces the object in `all_devices` and in
the data, a switch asks for a refresh. A lost request or answer is a `SetFails` from `sent` or
`taken`. The door status, which is another part of the same dictionaries, is in `Coordinator`; the
sharing of `devices` with `all_devices` after a full refresh makes no difference here, because the
reads touch no setting and a write replaces the dictionaries by changed copies. `held` is history:
all that the cloud has had.

### Calibration

A tick is one `sleep` of the polling loop (2 s); the door moves by one step in it, and the
longer times are numbers of ticks. `pc[p]` names the await of a press: the two commands
before (`asksOpen`, `asksClose`) and after the gate has taken them (`opens`, `closes`), the
sleeps (`settles`, `sleeps`), and `async_request_refresh` (`asks`, `awaits`, `polls`). The
latter is Home Assistant's: it returns at once if the coordinator was shut down by a reload,
is refreshing or has done so within its cooldown (10 s, counted down in `cooling`), and swallows
failures. A reload makes a new coordinator (`gen`) while a press keeps the one its entity had (`coord`).
`OtherMoves` is everyone else who moves the gate; a second press is one more actor that the theorem
covers.

A `Refresh` is one of a coordinator's: the one under the debouncer's lock, which scheduled and
requested refreshes share, or that of a cover's open retry, which calls `async_refresh` (`cover.py:197`)
and runs beside it. Each goes its own way (`stage`) with its own copy of the devices (`held`), so
that one may publish an older read over a newer one.

`source`, `confirmed`, `alone`, and the field `after` of a status are history: whose measurement is
stored, whether the status that ended it was read after the gate had taken that press's close, and
whether only that press moved the gate.

### EntryLifecycle

`state` is Home Assistant's `ConfigEntryState`, `doing` the await of the operation that holds the
entry's `setup_lock`, and `reload` a reload that waits for it. `SetsUp` is `async_setup_entry` up to its
first await, which reads the settings (`used`); `FirstRefreshEnds` and `PlatformSetsUp` are the
awaits' ends, `SetupEnds` the rest, which adds the update listener and registers the services that
are not there. `Unloaded` is `async_unload_entry` after its await. Settings, options and subentries are the
number of their last change (`settings`); a change asks for a reload if the listener is there.
ConfigEntries itself is external: it serialises one entry's operations, not those of different
entries. `missed` is history: the settings changed between the start of the latest setup and the
listener that its end adds. Such an entry may run with old settings until its next reload, against
what the code says of itself (section 4); the properties except it.

### MovementEstimator

Fractions and positions are thousandths, times are ticks, and division rounds down; Newton's method
takes its 20 steps. `est` is the estimator with the time since `_start_time`. A command is under way
(`command`) from its service call to `Sent` or `Fails`, and time passes meanwhile, so that the share of the way
that times the auto-stop is older than the movement it stops. `retry` is the timer of an open's retry and
`resend` the await of its callback, beside any command: `RetryFires` and `RetryChecks` lead to its
refresh and past it, `RetrySent` starts the estimate anew. Open, close and stop disarm it, a slider
movement does not. `slide` is history: the slider's goal, how far the estimate drifted while the
command was sent, and whether a retry has restarted the gate since.

## 3. The passing runs

| Run | Bounds | Checks |
|---|---|---|
| `GateCover.cfg` | two slots, two commands, levels 0..2, BLE, a gate that may go offline, lose its route or leave the account | `TypeOK`, `AtMostOneRoute`, `NoStaleTimer`, `RetryOnce`, `EstimateNeverJumps` |
| `GateCoverLive.cfg` | two slots, two commands, levels 0..1, no BLE, a gate that may lose its route | `SliderPauseIsSent`, `EventuallyAtRest` |
| `BleController.cfg` | three calls | `ExactlyOnce`, `OneSession`, `ImplementsMotorChannel`, `EverySendEnds` |
| `BleSession.cfg` | one call, software versions 2, 3 and 4, two ticks per request, two frames in flight | `UndisturbedSucceeds`, `OnlyAuthenticated`, `ChangeIsNoticed`, `RequestEnds`, `ImplementsCall` |
| `Coordinator.cfg` | two gates, one with another local index, two refreshes, a settings write at a time | `TypeOK`, `CoversShowLatest`, `DataChangeAnnounced` |
| `FeatureWrites.cfg` | two settings of one object and a switch, two values each, two changes here or in the app, any number of refreshes | `NothingInvented`, `EventuallyShowsCloud` |
| `Calibration.cfg` | one press, one open retry, one reload, a travel and a settling time of three ticks, durations from two to three, a timeout of four, a cooldown of one | `TypeOK`, `FullTravelTimed`, `PressEnds` |
| `EntryLifecycle.cfg` | two accounts with two platforms, two changes of each one's settings, any number of reloads | `ServicesWhileLoaded`, `NoServiceLeftBehind`, `LoadedIsCurrent`, `ChangesTakeEffect` |
| `MovementEstimator.cfg` | three commands, three slider goals, a travel of 12 ticks up and 10 down, a retry after 5 | `SliderStopsNear`, `EstimateIsSmooth` |

Why the bounds are enough. *Cover*: timers give one more coroutine per command, so two
slots hold a command and a callback, or two commands, in every order; with more slots a
third coroutine only repeats a pair. `MaxCalls` bounds the user only; refreshes and
estimates are unbounded. Three levels have both ends and a position between them. The slots
are interchangeable (symmetry), except in the liveness run, which uses none. That run has the two
ends only, between which a slider moves as it does between any two levels. *BLE*: with three
calls there are a holder, a waiter that is cancelled and one behind it. Calls are finite in
number, so that run ends (`CHECK_DEADLOCK FALSE`), and so does the one of a session. *Session*: the
three versions have the three combinations of the lengths' widths; two frames in flight are an answer
and one before or after it, which is also what a late answer to the request before looks like; of two
ticks one passes before the deadline. *Coordinator*: two gates are one whose read
is over and one whose read is under way; two runs overlap in every way.
With one gate elsewhere the run shows that the other's is not affected.
*Settings*: with two settings there are a writer and another whose setting it may carry along, and
a switch beside them; two changes are two writes that overlap, or a write and one in the app. An
entity has one write under way at a time, and refreshes do not overlap each other (they do in
`Coordinator`).
*Calibration*: three ticks of travel let polls fall in the middle of it, a status read at the start of
the closing is below the shortest duration, and the timeout is one tick longer than the longest. One
press meets a reload, other commands and two overlapping refreshes that are in flight at every point;
more presses only command the gate and store, as `OtherMoves` and the theorem `NeverTooShort` cover
for any number. *Entries*: two are one that comes and one that goes; two platforms are one whose
entities are there and one that is still to come; two changes of each entry meet every await and each
other, and the theorems cover any number. *Estimator*: three commands are a movement, one that
redirects it and one that redirects or stops that, each at any tick; the goals are one percent from an
end, where the curve is flattest, and two between; the retry comes in the middle of a movement. That Newton's method finds the inverse is `InverseAssumption`, which
TLC evaluates for all thousandths.

Fairness. The cover: each coroutine goes on, because every cloud, BLE and refresh wait has
a timeout; Home Assistant fires its timers; time passes, so that a movement elapses. Nobody
has to press a button, and no refresh outside the retry need come. The controller: its awaits
have timeouts. `WF` of one callback action over all slots says that a timer fires when some
slot is free, which it is again and again. The settings: a request ends (timeouts), and
full refreshes are made and succeed again and again (`SF`): the coordinator polls, a full refresh
is due after `FULL_REFRESH_INTERVAL` and stays due while it fails, and the cloud is assumed
not to be out of reach, nor its token rejected, for good. The session: time passes and a wait whose
time is up ends (`asyncio.wait_for`); the gate need not say anything. The entries: awaits end, and
`setup_lock`, an `asyncio.Lock`, comes round to a reload that waits for it. The calibration: time passes and
the awaits end; no refresh need succeed and the gate need not close.

## 4. What the code does not keep

Three runs end with a counterexample to a statement of the code's own comments or documents.

* `RetryIsHarmless` ("one harmless retry", `cover.py:332`). Open; the retry's callback runs
  and awaits its refresh; the user closes; the refresh reports closed; open is sent after
  the close. Lowering the slider meanwhile has the same end, as it cancels no retry.
* `TimesAFullClose` (`button.py:183`, `README.md:77`: "times a full close down to a confirmed closed
  status"). A press of a gate that the coordinator last saw closed, with a settling time that is enough.
  A refresh is under way when the loop polls, so `async_request_refresh` returns at once; the closed
  status from before the press is still there, is not tested for freshness (`button.py:228`, against
  `coordinator.py:84`), and ends the timing long before the gate is down.
* `OneSettingChanges` (`entity.py:124`, "changing one scalar value"). A write copies the
  published object and sends all of it. Another setting of the object, such as one of those in
  `WarningLightCfg`, that the app or another entity changes before the request arrives is
  taken back.

What the models show besides, without a run of its own. Where a document is quoted, the code does not
keep it, and the property named excepts the case:

* `api.py:20` says that malformed responses are ambiguous and not repeated over BLE, but `api.py:80`
  takes an answer whose `meta` is a mapping without a code, or with one that is not the number 200, for
  a clean rejection: a command that the cloud carried out is sent over BLE as well
  (`"unsaid"` in `AtMostOneRoute`).
* `CHANGELOG.md:10`: "A door status read that EZVIZ answers with an error code now marks the gate status
  unavailable". `get_iot_feature` (`api.py:86`) does not look at the code in the answer, so the refresh
  takes an error for a read without a status and marks the gate as freshly read
  (`coordinator.py:188`): a cover that was unknown shows the status from before again
  (`ReadTellsNothing`; `usual` excludes it from `CoversShowLatest`).
* `CHANGELOG.md:53`: a slider movement is "automatically paused near the target". Opened, and within the
  retry's delay moved by the slider, a gate that still reports closed is sent open again by the retry,
  which `async_set_cover_position` does not disarm (`cover.py:374`). The estimate starts anew
  (`cover.py:211-214`) and the auto-stop fires wherever it is (`restarted` in `SliderStopsNear`).
* `coordinator.py:65-71`: every entity of a device "must agree on that device's subentry". Each platform
  looks the subentry up when it is set up; one that comes or goes between two of them divides the
  entities, and as the update listener is not there yet, nothing reloads the entry. No property is
  stated of this: without such a change the platforms read one value, with it they disagree.
* `__init__.py:94`: "Reload the config entry when its options change". A change between the start of a
  setup, which reads the settings, and its end, which adds the listener, reloads nothing (`missed`).
* A slider movement whose timer fires while no route leads to the gate is not paused: `_async_command`
  raises (`cover.py:284`), the timer is gone, and the gate runs to its end (`SliderPauseIsSent`). A pause
  that is sent and fails is not repeated either.
* After a refresh that failed, the retry of an open acts on the closed status from before the open
  (`RetryChecks` after one of the `Failures`), although it is there to check the real one.
* A calibration whose gate takes longer to open than `CALIBRATION_OPEN_SETTLE` (45 s; 120 s are allowed)
  times only the part that it opened: `FullTravelTimed` says no more than that.
* A read that ends in an exception that is not pyezvizapi's own (`ReadRaises`) fails the refresh of
  every gate; `usual` excludes it.
* A settings write or an overlapping refresh calls the listeners between a read and its
  publication: a cover then shows the status from before as fresh. `usual` excludes it.
* A gate whose route has another local index than "0" never shows a polled status (`Elsewhere`).

## 5. What is proved

All theorems hold for every value of the constants that satisfies the named assumptions.

`GateCover_proofs` (assumptions of `GateCover`):

* `TypeCorrect`: `TypeOK` is inductive as it stands; the range of the estimate needs that
  `StartMovement` and the steps stay between the ends.
* `OneRoute` (`AtMostOneRoute`): the strengthening `ExecutedIsOver` says that a slot whose
  command the cloud carried out is idle or waits for its refresh, unless the answer's `meta` had no
  usable code (`EvidenceOfAnswer` has what an answer and its outcome tell of the command).
* `TimersAreCurrent` (`NoStaleTimer`): inductive as it stands: every action that raises `calls`
  or `hard` disarms what it makes stale.
* `NeverJumps` (`EstimateNeverJumps`): from `TypeOK`. What is left to prove of a step are the
  two ways to move an estimate at once: a refresh takes it only to closed (`UpdatesSmoothly`), and a new
  movement only out of the unknown, to the end that the gate leaves (`CompletesSmoothly`).
* `OneRetry` (`RetryOnce`): the invariant `RetryIsOwned` says that whatever may still retry
  an open, be it a slot or the armed timer, is the only one for that open, and that the
  open was not retried. Arming moves the ownership from the slot to the timer, firing
  moves it back, and the retry ends it.

`BleController_proofs`:

* `SendsOnce` (`ExactlyOnce`): `WrittenOnce` ties the number of writes to the phase: none before the
  motor request, one from there on, and a return only with one that the gate took.
* `OnlyOneSession` (`OneSession`): `LockInv` says that the lock's queue holds no call twice and none that is
  new or over, that a call past discovery is at its head, and that a client belongs to such a
  call unless its `disconnect()` has failed.
* `ChannelKept` (`ImplementsMotorChannel`): under these and `TakenLater` (nothing taken from a call before its
  request) every step is a step of `MotorChannel` or a stutter: the write that the gate takes is
  `Deliver`, leaving the lock `Succeed` or `Fail`, everything else between them a stutter.

`Coordinator_proofs`:

* `TypeCorrect` (`TypeOK`): the place of each run stays within the device list.
* `DataAnnounced` (`DataChangeAnnounced`): each action either keeps the data or calls the listeners.
* `LatestShown` (`CoversShowLatest`): `UsualInv` says that, as long as all goes its usual way, one
  run at most is under way; the devices of a run show what was told last of every gate it is not
  about to read (`Known`); and while none reads, `all`, `data` and the covers agree with it
  (`Settled`). `UnroutedInv` is needed for the gates that are never read.

`EntryLifecycle_proofs`: `TypeCorrect`, and under `PhasesMatch` (what waits belongs to the state)

* `ServicesCorrect` (`ServicesWhileLoaded`) and `NothingLeftBehind` (`NoServiceLeftBehind`), inductive
  together: services are removed only while no other entry is loaded, and the last step of a setup
  makes up for a removal during it.
* `RunsCurrent` (`LoadedIsCurrent`): `Current` adds the same for an entry that is being set up, and that
  a loaded one listens.

`FeatureWrites_proofs`: `TypeCorrect`, and `NoMixture` (`NothingInvented`). `AllHeld` extends the
property to the copies that are still on their way: those of the refresh, and that of a
writer once the cloud has taken it, which is why `SetEnds` must come after the answer.

`Calibration_proofs`: `TypeCorrect` (both limits of a stored duration among it) and `NeverTooShort`
(`FullTravelTimed`): if nobody else moves the gate and the closed status that ends the timing was read
after the gate took the close, what a press stores is at least the travel, as far as the gate can open
in the settling time and a duration can be long. Neither condition can be dropped: without the second
the property is `TimesAFullClose`, which the code does not keep. `Obeys` says where door and motor are
in each phase of an undisturbed press: while it closes, what the door has left and the ticks timed add
up to the way it had opened, or enough is timed. `Follows` says of every status there is, published or held by
any refresh, that it counts as read after the close only once the close is taken, and that such a status is closed
only when enough is timed; so it does not matter in which order overlapping refreshes publish.

`BleSession_proofs` (`SessionAssumption` of `BleSession`: deadlines of any length and any number of frames
in flight). Its first half is about bytes, for all of them, in three layers: sequences (`Joined`,
`PartOf`), numbers and checksums (`LittleBytes`, `ShiftBack`, `ChecksumDiffers`), frames and fields.

* `FrameRoundTrip`, `ChangedFrameUnreadable`: `Framed` describes a frame by header, length, body and
  checksum; `BuildsFrames` says that `BuildFrame` makes one, `ParseFramed` what is read in one, and
  `ChangedFramed` that no changed byte leaves all four right.
* `TlvRoundTrip`: `_parse_tlvs` is a recursive function of the cursor. That it satisfies its defining
  equation (`ParseTlvsIs`) is well-founded induction over the cursors, downwards; that only the later
  cursors matter (`LaterFieldsDecide`) gives what a field in front of a payload adds to it.
* `MotorNeedsProof` (`OnlyAuthenticated`) and `ChangesNoticed` (`ChangeIsNoticed`), from `Inv`: *all that is in
  flight or has arrived is a frame of something that the gate may have said* (`InAir`, `Said`); nothing
  is said before the first request (`Quiet`); and *the gate has a key only if it is the app's*
  (`Keys`), because it takes its key from the same proof. `Inv` needs the round trips: a gate complies
  with what it reads in a frame, so one must know that it reads what was written (`RequestReacts`).
* `SessionImplementsCall` (`ImplementsCall`): under `Inv`, each action is a step of `BleController` with one
  call or a stutter. The step that matters is the last answer: the app reads success only in a frame
  that the gate can only have said after taking the value.
* `UndisturbedCallReturns` (`UndisturbedSucceeds`): `Going` says that, as long as nothing disturbs the call,
  all that is under way is the answer hoped for or a frame that the app ignores (`Calm`), and the answer
  is still to be said, in flight or arrived (`Coming`). `ReadsCalm` then says that the app takes the
  one and ignores the others.

`MovementEstimator_proofs` (`DurationAssumption`, `RetryAssumption`, `GoalAssumption`: any durations, delays and goals; and
`InverseAssumption`, that `InverseEasedFraction` is within one thousandth of an inverse, which has no
constants and is evaluated by TLC over its whole domain, so that it is no restriction):

* `EstimatesAreMovements`: the inductive invariant `Types`, in which a movement has the duration of its
  direction and is never past it.
* `OnlyTimeMoves` (`EstimateIsSmooth`): `EasedSlope` bounds what the integer smoothstep gains by one
  thousandth more (3/2, and rounding), `ShareOfTick` what share of the way a tick is; `TravelOfTick`
  puts them together.
* `SliderStops` (`SliderStopsNear`): `OnTheWay` says that, until the auto-stop fires or a retry restarts the
  gate, the time left and the
  time passed are together the time that was computed for the way from where the command found the
  cover to the goal. So the curve is where the inverse put it, up to the rounding of the share, of the delay and of
  the inverse (`PlaceAtStop`), and the movement started off by the drift.

Only model-checked: the seven liveness properties (`SliderPauseIsSent`, `EventuallyAtRest`,
`EverySendEnds`, `RequestEnds`, `EventuallyShowsCloud`, `PressEnds`, `ChangesTakeEffect`), for liveness under
fairness and `ENABLED` are out of the prover's reach. Every invariant, action property and refinement
of a passing run is a theorem. Not proved for all values is what 20 steps of Newton's method compute: its domain is
finite and TLC goes through it. No module uses `RECURSIVE`; the recursive functions are reasoned about with the
library's induction over sets, as its rules with an operator parameter cannot be used here. `Inv`,
`Going`, `Types` and `OnTheWay` are not invariants of a run: TLC would need the sets of all frames that may be
in flight, and the theorems cover what the runs check.

## 6. What is not modelled

* Time in `GateCover`: timers and the estimate move whenever they may (`MovementEstimator` counts it).
  Floating point: `MovementEstimator` rounds to thousandths.
* Parsing of device mappings beyond what `DecideCommandRoute`, `Stored` and the status tell apart.
* The ciphers, the elliptic curve and the hash; GATT services and characteristics but for the
  ways they fail (`SessionFails`).
* Home Assistant itself: the debouncer of `async_request_refresh` but for `Calibration`, the entity
  registry, the inside of ConfigEntries.
* A BLE call of a controller that a reload has replaced, beside one of the new controller.
* Changes of the account's gates while a refresh is under way (`Coordinator` has a fixed set).
* The forms of the configuration flows, their validation and the login; conversion of the settings'
  values; the custom-open button and the motor's own calibration, one cloud command each (to the
  calibration they are `OtherMoves`).
* Sensors, the firmware update entity, diagnostics and the metadata requests: stateless views and
  read-only requests, with nothing that could come in another order or go wrong halfway.

## 7. Plan

Done: all modules of section 2 and the theorems of section 5. Still wanted, in this order:

1. Two controllers around one gate, across a reload: `EntryLifecycle` with two instances of
   `BleController`.
2. The two BLE refinements composed: several sessions at the level of frames, one gate, as a
   `MotorChannel`. The theorems have it for one session and for several calls.
3. A cover over two routes: `GateCover` with `BleController` in the place of its BLE outcome.
