# Find My Network stack: TLA+ models and proofs

This directory holds a verification development of the Find My Network (FMN)
stack in `src/src` and of the selector in the sample
`src/samples/switchable_networks`: TLA+ modules translated from the C code, TLC
configurations that check them on small instances, and theorems checked by
TLAPS for every value of the constants. `PROJECT.json` is the index: components,
runs, the source lines every definition stands for, the mutants that show each
property can fail, hazards, findings and theorems. Paths below are relative to
`src/src` unless they start with another directory.

To repeat the checks: `tlc -config MCSession.cfg MCStack.tla` for a run (section
3 names module and configuration of each), `tlapm M.tla` for the proofs of a
module `M` of section 5.

## 1. The system

An accessory runs the stack beside its own application. Phones connect to it
over Bluetooth LE; one of them pairs and becomes the *owner*; while no owner is
connected the accessory advertises keys that rotate, from which strangers'
phones report its location. A controller may update its firmware over the same
links. The sample with two networks runs this stack or Google's Fast Pair and
Find My Device, and belongs to one of them.

| Part | State it keeps | Operations | Interacts with |
|---|---|---|---|
| `fmna_state.c` state machine | `state` (disabled, unpaired, connected, nearby, separated), `pairing_mode`, `is_maintained`, `unpair_pending`, `persistent_conn_adv`, `nearby_separated_timeout`, one timer and three work items | `state_set()` and its callers: events, timers, API | starts and stops advertising, keys, deletes stored items; callbacks to the application; posts STATE_CHANGED |
| `fmna_conn.c` connections | `conns[]` (valid, disconnecting, status bits), `max_connections`, `conn_timeout_works[]`, `max_conn_work` | host callbacks `connected`, `disconnected`, `security_changed`; Set Max Connections, persistent connection | posts the connection events; read by everybody |
| `fmna_adv.c` advertising | the advertising set and its address | start with one of three payloads, stop | Bluetooth host |
| `fmna_pair.c` pairing | `pairing_conn`, key generation context | Initiate, Finalize, Complete | completion enters *connected* and starts the keys |
| `fmna_keys.c` keys | rotating keys, two indices, latched key, LTK, rotation timer | rotation, latch, configuration, restore | posts PUBLIC_KEYS_CHANGED, OWNER_CONNECTED; storage |
| `fmna_storage.c` | eight pairing items in flash | store, load, delete all, check at start | keys, pairing, serial number |
| `fmna_serial_number.c`, `fmna_nfc.c` | query counter, lookup mode; the tag's URL and the increments to be stored | queries by NFC and by an owner | storage, SERIAL_NUMBER_CNT_CHANGED |
| `fmna_gatt_fmns.c`, `fmna_gatt_pkt_manager.c` | reassembly buffer, the indication buffer and its queue | writes to five control points, indications | post the command events |
| `fmna_sound.c`, `fmna_motion_detection.c` | the sound being played and its initiator; three timers | start, stop, time out; poll | each other, STATE_CHANGED, OWNER_CONNECTED |
| `uarp/` firmware update | assets, requests, the open transfer, flash stream, hash, message buffers | offers, data, rescind, pause, apply; link loss | its own work queue and GATT service |
| `fmna.c` | `flags` | enable, disable, factory reset | all modules in order |
| sample `switchable_networks` | the selected network and a reset flag in flash; two networks, Fast Pair advertising | boot, selection by the first connection, factory reset | both stacks, settings, workqueue |
| `fmna_battery.c`, `fmna_gatt_ais.c`, `crypto/`, other samples | see PROJECT.json | | |

**How they run.** Bluetooth callbacks and GATT writes come from the host's
receive context and mostly only post events of the application event manager.
One work item of the system workqueue handles them in order, each event passing
the listeners in link order (keys, pairing, state, and `fmna_conn.c` last, with
`APP_EVENT_SUBSCRIBE_FINAL`). Timers expire in interrupt context and submit
work items to the same queue, except for those of the motion detection, which
run their handlers in the interrupt. So the code has no locks, and what can go
wrong is order: between a callback and its event, between two events of one
cause, between a timer and the work it submits, between the queue and
`fmna_disable()`, and between two writes to the flash and a power loss.

**What makes it correct**, by part: connection records and references agree
with the links at every step although four contexts change them; unencrypted
links end; the state is *connected* exactly while an owner is; the payload on
air, the key rotation, the stored items and the reports to the application
agree with the state; temporary modes end; one peer pairs at a time and frees
the place; primary and secondary key follow one counter, across restarts, and
no key returns; a sound ends once and its initiator is told; answers reach the
peer that asked and the one indication buffer is always released; only whole
and verified firmware is applied and an interrupted transfer resumes where it
stopped; a device never belongs to one network with the data of the other.

## 2. Modules

Variables are named after the code's. Five models, each a chain of modules that
extend one another:

| Module | Models | Notes |
|---|---|---|
| `FmnaEvents` | events, system workqueue, event manager | `events` are the posted events, `batch` those the running work item has taken, `workq` the work items waiting. External code, except for the event types |
| `FmnaConn` → `FmnaState` → `FmnaPair` → `FmnaStack` | `fmna_conn.c` and the Bluetooth host as used here; `fmna_state.c` with the parts of advertising, keys and storage a transition touches; `fmna_pair.c`; the listeners of each event composed, GATT writes, `fmna.c` | a link is `connected`, then perhaps `closing`; `refs` counts only the stack's references; `adv` is the payload on air with the connection object it reserves. `state_set(q, below, c, new)` is one disjunct per branch, with all early returns; one action per event has every listener's effect in listener order. `MCStack` names the command sets of its instances |
| `FmnaKeys` → `FmnaSerial` | `fmna_keys.c`, `fmna_storage.c`; `fmna_serial_number.c`, `fmna_nfc.c`, factory reset | the n-th key of the gen-th pairing is the pair [gen, n]. A handler that writes to the flash is a `job`: its writes happen one by one, and interrupts and power losses may come between |
| `FmnaSound` → `FmnaMotion` | `fmna_sound.c` with the application of `samples/locator_tag`; `fmna_motion_detection.c` | the stack around them is reduced to a paired accessory with its states and links |
| `FmnaGatt` | `fmna_gatt_fmns.c`, `fmna_gatt_pkt_manager.c`, the delayed answer of `fmna_conn.c` | a packet is its length and the peer it is for |
| `FmnaUarpAsset` → `FmnaUarp` | `fmna_uarp.c`, the UARP kit under it and the flash writer as functions of the accessory's state; the GATT service, the link and the controller of `tests/uarp_update` | a data message carries one unit: the superbinary header, a payload header, a metadata block, or one of `LENGTH` units of a payload, `WINDOW` of which are a window |
| `NetworkChoice` | what the selector promises, without flash, boot and workqueue | abstract specification |
| `AppSelector` → `AppNetworks` | `network_selector.c`, `factory_reset.c`, boot; `networks/apple/core.c`, `networks/google/core.c` and `fp_adv.c` | `factory_reset_run` advances by `reset_step`, one call that may fail at a time. `ImplementsChoice` maps it to `NetworkChoice` |
| `FmnaEventsProofs` → `FmnaStackProofs`, `FmnaMotionProofs`, `FmnaGattProofs`, `FmnaSerialProofs`; `AppNetworksProofs`; `FmnaUarpAssetProofs` → `FmnaUarpProofs` | proofs | section 5 |

How the models meet: `FmnaKeys`, `FmnaSound` and `FmnaGatt` contain the part of
the stack they depend on (states, links, their events in queue order) again, in
the abstraction they need, instead of extending `FmnaStack`, whose two million
states would multiply with theirs. What they take for granted of it is what the
runs of `FmnaStack` check: events of a link in order, one handler at a time, a
record per link.

Operators marked `\* mutant` are not part of the model: each is a plausible
mistake in the definition that follows it, used to show that a property would
notice.

**Constants.** `BT_MAX_CONN`, `FMNA_MAX_CONN`, `AUTO_ENTER`, the key periods and
`SEPARATED_UT_MAX_SOUND_COUNT` are options or defines of the code; others select
what the environment does (`Commands`, `AppCalls`, `NearbyTimeouts`,
`MaxRequests`, the kinds of `Versions`, `Mtus`). Every `Max...` besides these is
a bound, named as one where it is declared. In `FmnaStack` `MaxPending` bounds
the events that wait when a command is written and `MaxPendingKeys` when keys
are rotated; link events and internal events are never bounded, they are bounded
by the number of links.

**Races.** Some interleavings are switched by a constant (`Races`, `KeyRaces`,
`SoundRaces`, `GattRaces`), each by a guard at one place of the model. They are
orders the code does not prevent; the switch keeps apart what holds without them
from what they break.

| Module | Name | The interleaving | What it breaks |
|---|---|---|---|
| FmnaStack | `hasty_complete` | Pairing Complete without the answer of Finalize | nothing that is checked: it is in the run session |
| | `late_nearby` | the nearby timer expires while an owner's arrival is being handled | *connected* is left for *separated* by the late work item: `OwnerTracked`, `Findable`, `AvailabilityReported`, `KeysWithPairing`, `AdvMatchesState`; finding 13. In the run liveness |
| | `fast_leave` | a peer leaves before its encryption was handled | `OwnerTracked`, `AvailabilityReported`, `KeysWithPairing`; finding 1 |
| | `early_reuse` | the host gives an object out again before PEER_DISCONNECTED of its last link was handled | `RecordsTracked`, `OwnerTracked`, `Findable`, `AvailabilityReported`, `KeysWithPairing` |
| | `busy_disable` | `fmna_disable()` while events wait | most properties; finding 5 |
| | `closing_disable` | `fmna_disable()` while a link is going down | `OneReferencePerLink`, `PairingConnLive`, `Findable`, `AvailabilityReported`; finding 4 |
| | `early_enable` | `fmna_enable()` while links of before are going down | most properties |
| FmnaKeys, FmnaSerial | `late_rotation` | a rotation is queued when the key service stops | the synchronization assertion; finding 6 |
| | `busy_disable` | `fmna_disable()` while events wait | `KeysInStep`, `StoredKeysCurrent`, `EvaluationKept`, `KeysNeverReturn`, `OnePairingRestored`, `TagCurrent`: an owner's or a pairing's event enters *connected* without keys, as in finding 5 |
| | `early_read` | a tag is read while the counter work item, having taken the increment, writes | the increment assertion; finding 7 |
| | `slow_retry` | the delayed retry of the counter meets a new pairing | the counter of the new pairing |
| FmnaSound, FmnaMotion | `isr` | a timer expires inside a handler, or between `fmna_disable()` and STATE_CHANGED | the detector's stop; finding 8 |
| | `slot_reuse` | a peer gets the connection object of an initiator whose sound still plays | the end is reported to the new peer |
| FmnaGatt | `slot_reuse` | the same while answers to the old peer wait | they reach the new peer |
| | `second_limit` | Set Max Connections while an answer is delayed | the first is never answered |
| | `send_fails` | the host refuses a later chunk (`fmna_gatt_fmns.c:892`) | the buffer is never released |
| FmnaUarp | `header_orphan`, `new_offer`, `rescind_denied`, `rescind_applied`, `rescind_resume` | a controller unlike the one of the tests, see the module | finding 9, and section 6 |
| AppNetworks | `late_connect` | a connection is reported while the advertising set is updated | `OneFastPairLink`; finding 11 |
| | `reset_unselected` | the reset button is held at the start of an unselected device | an assertion; finding 10 |

## 3. Runs

| Run | Module, configuration | Asks | Distinct states |
|---|---|---|---|
| session | MCStack, MCSession | pairing attempts of two peers, owners, Unpair, nearby timeouts of 0 and above the maximum, incomplete pairings, rotations | 6.2 M |
| owners | MCStack, MCOwners | every configuration command of two owners, among them the connection limit, a nearby timeout of 0 and persistent connections; the application pausing the paired advertising | 6.3 M |
| liveness | MCStack, MCLiveness | what must end, with `late_nearby`; disable and enable | 43 k |
| keys | FmnaSerial, MCKeys | two pairings, rotations, latching, evaluation indices, restarts | 0.9 M |
| serial | FmnaSerial, MCSerial | a power loss between any two writes, serial number queries | 1.4 M |
| sound | FmnaMotion, MCSound | sounds of owners, non-owners and the motion detection | 0.6 M |
| gatt | FmnaGatt, MCGatt | chunks, the indication buffer, link losses | 4.4 M |
| uarp | FmnaUarp, MCUarp | every message of the update protocol, link losses | 2.9 M |
| images | FmnaUarp, MCImages | whole updates with good and bad images | 0.8 M |
| networks | AppNetworks, MCNetworks | selection, resets, failing calls, power losses | 6 k |
| fast_leave | MCStack, MCFastLeave | finding 1 | stops at the counterexample |
| mixed_pairing | FmnaGatt, MCMixedPairing | finding 14 | stops at the counterexample |

**Bounds.** `FmnaStack`: two connection objects, `FMNA_MAX_CONN = 2`, the
defaults of `Kconfig`. Two are needed for every interaction between peers (two
candidates, two owners, an owner beside a stranger, the set without an object);
a third peer only repeats a role. Initial states are a power-up with nothing
stored and one with a complete pairing. Commands are written, and keys rotated, while no other
event waits (`MaxPending = 1`), which still leaves every event between a command
and its effect; the nearby timeouts are 0 (transition within a transition) and
3601 (rejected), with 30 by default. `FmnaKeys`: a secondary period of 3 or 4
and a storage period of 2 (96 and 16 in the code: neither is a multiple of the
other in the run keys, as the code allows), five rotations pass each period, and
two pairings show what one leaves to the next. `FmnaMotion`: three sounds reach
the back-off. `FmnaGatt`: an answer of one chunk, one of three, three peers on
two links. `FmnaUarp`: two offers and two links for every resume; payloads of
two windows, the second shorter (3 units in windows of 2). `AppNetworks`: three failing calls and two
power losses interrupt one reset in any two of its steps and the boot between
them. The theorems drop the bounds of the models they are about.

Deadlock is checked in session, owners, liveness and sound; the other
models may stop, at a bound or where nobody owes a step.

**Properties**, by run.

- session. `TypeOK`. `RecordsTracked`: `conns[]` against the links.
  `UnsecuredLinkTimed`: an unencrypted link has its timeout scheduled.
  `KeysWithPairing`: rotation and stored items against the state.
  `PairingConnLive`: the candidate is a link or its end is coming.
  `AvailabilityReported`: what the application was told, as `include/fmna.h`
  describes it.
- owners. `UnsecuredLinkTimed` again, with the limit that cancels timeouts.
  `OwnerTracked`: *connected* against connected owners, at rest.
  `AdvMatchesState`, `Findable`: the payload on air against the state, and that
  there is one.
  `TemporaryModesEnd`: modes have their timers.
- liveness. `OneReferencePerLink`: one reference on each link while enabled, none
  else, where `disconnected()` and `fmna_disable()` may give it back.
  `UnsecuredLinkEnds`, `NearbyEnds`.
- keys. `KeysInStep`: both keys follow the one counter. `StoredKeysCurrent`:
  what is in flash restores the running keys. `EvaluationKept`: the separated
  key changes where the owner asked. `KeysNeverReturn` (an action property).
- serial. `OnePairingRestored`: the eight items are of one pairing.
  `TagCurrent`: the tag serves the next counter once nothing waits.
- sound. `SoundTimed`: stack, application and timeouts agree on the sound.
  `CompletionToInitiator`: its end is reported to its initiator, once.
  `QuietWithOwner`: no detection beside an owner. `SoundEnds`,
  `DetectionContinues`: liveness.
- gatt. `BufferReleased`: the indication buffer has a callback to come.
  `ChunksWhole`: the chunks make up the answer. `IndicationToItsPeer`.
- uarp. `AssertionsHold`: the `__ASSERT`s of `uarp/fmna_uarp.c`.
  `TransferNotStuck`: somebody has the next step. `MessagesWhole`,
  `BuffersAgree`: the buffers of service and accessory.
- images. `AppliedWhole`: only complete, verified payloads of one version are
  applied. `ResumePoint`: flash, hash and next offset agree.
- networks. `DataOfSelected`, `OneFastPairLink`, `ProvisioningTimed`,
  `ImplementsChoice` (refinement), `ResetCompletes`, `HalfProvisionedEnds`
  (liveness).

`MCLifecycle` (MCStack) is a further instance, in no run: `OneReferencePerLink` and
`TemporaryModesEnd` hold in it, with Unpair, persistent connections and rotations
around `fmna_disable()` and `fmna_enable()` (1.5 M states).

The modules state further invariants that hold on the same instances and that no
run of PROJECT.json repeats: in `FmnaStack` `OwnersEncrypted`, `NearbyTimerArmed`
`LastOwnerLeaves` and `TransitionsAllowed` (these three proved), `LimitReset` and
`PairingModeEnds` (with MCLiveness), in `FmnaSerial` `SeparatedKeyOnAir` and `QueriesCounted`, in `FmnaSound` and
`FmnaMotion` `PlayingBit`, `DetectionNotStuck` and `SoundBudget` (all three
proved), in `FmnaGatt` `AnsweredOnce`, in `AppNetworks` `ResetNotAbandoned` (proved), and the `TypeOK` of
every module.

**Fairness.** `FmnaStack`: the workqueue runs what is queued (weak fairness of
the work items and of the next event). A work item whose delay has expired
enters the same FIFO queue, so it runs although other items keep coming: strong
fairness of `persistent_conn_work`, `pairing_mode_work`, `max_conn_work` and each
`conn_timeout_work`, and of `nearby_timeout`, whose timer expires unless it is
stopped. The host reports the end of a link it was told to disconnect.
`FmnaMotion`: the workqueue and the two sound timeouts. `AppNetworks`: the boot
goes on (a halted device restarts, as `CONFIG_RESET_ON_FATAL_ERROR` of its
release build says) and a scheduled reset becomes due. Peers, readers,
controllers and the application owe nothing: they may fall silent at any point.
The other models state no fairness and no liveness.

## 4. Findings

Each has a configuration whose counterexample shows it. The first and the last
are also runs of PROJECT.json; the others stop at the named property.

1. `MCFastLeave` (`AvailabilityReported`): an owner that leaves right after
   encrypting leaves the accessory in *connected* with no owner
   (`fmna_keys.c:531`): reported as not available and not findable by others
   until an owner returns. `include/fmna.h:216` says otherwise.
2. `MCManualPairing` (`PairedAdvInPairedState`): with
   `CONFIG_FMNA_PAIRING_MODE_AUTO_ENTER=n`, as the samples locator_tag and
   switchable_networks set it, Unpair leaves the nearby payload on air
   (`fmna_state.c:248`), against `include/fmna.h:283`.
3. `MCAnnounced` (`StateAnnounced`): if peers hold every connection object, the
   transition to *separated* fails to advertise and returns before STATE_CHANGED
   (`fmna_state.c:334`, comment at 398); motion detection then never starts.
4. `MCPoweredOff` (`PoweredOff`): `fmna_disable()` while a link is going down
   leaks its reference (`fmna_conn.c:449`), after which the object is never free
   again; `pairing_conn` also survives. `include/fmna.h:530` promises a
   power-off.
5. `MCBusyDisable` (`SilentWhenDisabled`): an OWNER_CONNECTED that waits during
   `fmna_disable()` enters *connected* and advertises (`fmna_state.c:847`),
   against `include/fmna.h:527`. Calling from the workqueue, as recommended, does
   not help: the events are posted, not running.
6. `MCLateRotation` (module FmnaSerial, `SecondarySynced`): a rotation queued
   when the service stops runs after the next one starts; the assertion
   "Secondary Key is not synced properly with Primary Key" at `fmna_keys.c:172`
   then fails.
7. `MCEarlyRead` (FmnaSerial, `IncrementPositive`): a tag that is read while the
   counter work item writes submits it again (`fmna_nfc.c:81`), but its increment
   is cleared with the first one, and `__ASSERT(increment > 0)` of
   `fmna_serial_number.c:233` fails.
8. `MCPollAfterStop` (FmnaMotion, `PollsWhileStarted`): a poll timer that expires
   inside the handler that stops the detection starts again
   (`fmna_motion_detection.c:164` and 283–298), against `include/fmna.h:105–107`.
9. `MCOrphanHeader` (FmnaUarp, `DataOnlyInTransfer`): an orphan that is offered
   again while the header of its second payload was requested resumes with its
   data (`uarp/UARPDK/CoreUARPPlatformAccessory.c:419–506`), and
   `__ASSERT_NO_MSG(accessory->transfer_in_progress)` of
   `uarp/fmna_uarp.c:296` fails.
10. `MCResetUnselected` (AppNetworks, `ResetLeaves`): the button of the factory
    reset held while the unselected sample starts ends in "Should not reach."
    (`factory_reset.c:48`): selecting nothing on a device that has nothing
    selected saves and returns.
11. `MCLateConnect` (AppNetworks, `OneFastPairLink`): a connection reported while
    the advertising set is stopped and started again leaves the set on air with
    a connection (`fp_adv.c:219–224`), against "Only one Fast Pair connection is
    supported." and its assertion at 263.
12. `MCPausedPairing` (`AdvMatchesState`): if the application pauses the paired
    advertising before the pairing, as `include/fmna.h:343–347` allows, the
    pairing payload stays on air when the owner has left: `nearby_adv_start()`
    returns at its pause check (`fmna_state.c:85`) before it replaces it.
13. `MCLateNearby` (`AvailabilityReported`): entering *connected* stops the nearby
    timer, not the work item it has submitted (`fmna_state.c:271`). That takes
    *connected* to *separated*, assigned before the transition is refused
    (`fmna_state.c:329`); when the owner leaves nothing is reported any more, and
    the accessory stays not available until an owner returns, against
    `include/fmna.h:216`.
14. `MCMixedPairing` (FmnaGatt, `PairingPacketOfPeer`): the pairing control point
    collects the chunks of all links in one static buffer (`fmna_gatt_fmns.c:166`),
    so what a second peer writes becomes part of the first one's packet. The
    rejection of the second peer (`fmna_pair.c:557`) comes when its link is
    encrypted or its command handled, and the characteristic needs no encryption
    (`fmna_gatt_fmns.c:789`).

Met on the way: the list of links the delayed response to Set Max Connections
waits for is cleared after it was filled (`fmna_conn.c:635`), so the response
comes before the disconnections; the comment at `fmna_state.c:491` says the
pairing mode timeout restarts, which it does not; a rejected stop of a non-owner
is answered on the owners' control point (`fmna_sound.c:314`); the length check
of the debug control point has no `break` (`fmna_gatt_fmns.c:664`); Get Multi Status
takes MULTIPLE_OWNERS from the requester (`fmna_conn.c:672`); a limit of 0 is
never answered; a chunk of a pairing packet that does not fit is refused, but what
came before it stays in the buffer (`fmna_gatt_fmns.c:181`), also when its peer
leaves; an enable right after a disable, before its STATE_CHANGED,
leaves the detection of before.

## 5. Proofs

`FmnaStackProofs` proves, one lemma per action, `TypeCorrect`: Spec implies
always `TypeOK`. The other theorems about the stack build on it.

- `ModesAreTimed`: `TemporaryModesEnd` is inductive as it stands.
- `ReferencesBalance`: `OneReferencePerLink`, under the assumption
  `CarefulDisable` (none of `busy_disable`, `closing_disable`, `early_enable`:
  each of them breaks it). The invariant `ReferenceInv` adds to it `TypeOK`,
  `AdvSlotFree` (the object reserved by the advertising set is free, so that
  `connected_cb` starts from no reference) and `QuietDisabled` (what is left in
  the queues of a disabled stack cannot enable it: otherwise the references given
  back by `fmna_disable()` would be owed again).
- `UnsecuredLinksAreTimed`: `UnsecuredLinkTimed` without `early_enable`
  (`fmna_conn_init()` initializes the timeouts again, links of before or not).
  `TimeoutInv`
  adds `TypeOK` and `SilentDisabled`: a stack without links and without
  advertising gets no new link before it is enabled; a peer that connected to a
  disabled stack would have no timeout.
- `RecordsMatchLinks`: `RecordsTracked`, for any number of connections, under
  `CarefulDisable` and without `early_reuse` (each of which breaks it).
  `RecordsInv` ties records, links and queues together: the ends of links that
  wait to be handled are of slots without a link, and `is_disconnecting` marks
  only such slots. So the event that clears a record late clears no record of
  another link, and a new link finds its record empty. It rests on
  `ReferenceInv`, for the object that advertising reserves and for what a disabled
  stack may still have queued.
- `CandidateIsLive`: `PairingConnLive`, with every race, if the application does
  not call `fmna_disable()` (which forgets the candidate while its link is up).
  `Followed`: an event whose handling makes a peer the candidate is followed, in
  the order in which the events will be handled (`Backlog`), by the end of that
  peer's link if it is down.
- `OwnersAreTracked`: `OwnerTracked`, and `NearbyIsTimed`: `NearbyTimerArmed`,
  under `Orderly`: of the races only `hasty_complete`; each of the others breaks
  one of the two or a property they rest on. `LinkInv` is about one link: the end
  of a link that is down waits exactly once and nothing that the peer sent waits
  behind it; a slot with a record, an owner's bit or the candidate's place is a
  link that is up or such an end. `OwnerInv` is about the state machine:
  `OwnersAnnounced` (outside CONNECTED an owner's OWNER_CONNECTED still waits),
  `OwnerArriving` and `CompleteUnpaired` (what waits fits the pairing status in
  which it will be handled), and `NearbyFirst` (the work item of the nearby timer
  runs before an owner's arrival that waits). The lemmas on queues say what
  posting, taking and handling do to the order of what waits.
- `TransitionsAreAllowed`: `TransitionsAllowed`, and `ConnectedUntilLastOwner`:
  `LastOwnerLeaves`, action properties that follow from `OwnerInv`: the branches
  of `state_set()` that refuse a transition are dead under `Orderly`.
- `KeysFollowPairing`: `KeysWithPairing`, under `Orderly` and without
  `fmna_disable()`. `KeysInv` relates the two parts of the stored pairing, the
  rotation timer and the candidate to the state: there is a candidate in UNPAIRED
  only, and while there is one the secrets may be stored without the keys.
  Disabling is left out because with `hasty_complete` the candidate survives it,
  and the keys may then be stored alone.
- `AvailabilityIsReported`: `AvailabilityReported`, under `Orderly`.
  `LocationInv` adds to `OwnerInv` that an enabled stack has reported what its
  state says; that a transition always reaches its report is shown from the limit:
  the records below it leave a free connection object (`ObjectBelowLimit`, by
  cardinality), so that advertising starts.
- `AccessoryIsFindable`: `Findable`, under `Orderly`. `FindInv`: whenever the
  limit allows advertising, the payload is that of the state or an event waits
  whose handling restarts advertising (PEER_CONNECTED, PEER_DISCONNECTED,
  MAX_CONN_CHANGED); the pairing mode belongs to UNPAIRED (`ModeUnpaired`).
- `PayloadMatchesState`: `AdvMatchesState`, under `Orderly` and `Matching`: the
  pairing mode is entered automatically, and the application does not pause the
  paired advertising of an accessory that can be paired. Findings 2 and 12 are
  what happens otherwise. `MatchInv` follows the payload through the connection
  in which the accessory is paired.

`AppNetworksProofs` proves every safety property of the run networks, and the
refinement, for any number of failing calls, power losses and connection
objects.

- `ResetsAreResumed`: with the reset flag in flash no network is launched. It
  follows from `SelectorInv`: from the launch on the RAM copy is the stored
  selection, a reset under way has its flag stored, and what is still to be
  launched fits the selection (`LaunchList`).
- `DataBelongToSelection`: `DataOfSelected`. `NetworkInv` adds that only the
  selected network serves, that an unselected device has no connection, and that
  both stacks are stopped before anything is erased; `DataInv` that the data are
  gone when the settings are about to be. All three are needed: who writes data
  must be known to be selected at that moment.
- `ChoiceImplemented`: `Spec => ImplementsChoice`. The abstract state is the
  stored selection and flag, the stacks that are ready and the data; one lemma
  per group of actions shows the abstract step (Select is Choose or, if it could
  not be saved, StopServing; a launch is Serve; a stop of the network or a
  restart is StopServing; and so on) or that the abstract state stays.
- `FastPairLinkIsOne`: `OneFastPairLink` without `late_connect`. `IdleInv` says
  that nothing of Fast Pair runs while its launch is to come, so that it starts
  from no connection.
- `ProvisioningIsTimed`: `ProvisioningTimed`, with every race. `ProvInv` adds
  that the copy of the account key's state is exact while Fast Pair is ready and
  that only a provisioning with its key is there.

`FmnaEventsProofs` holds what these proofs need of the queues: what posting,
taking and handling do to the order of the events that wait (`Backlog`, `Flow`),
and that no work item waits twice, whichever of submit, cancel and take comes
next. The latter is what makes "the timeout runs or its work item waits" mean one end of
a sound, or one switch to SEPARATED, and not two.

`FmnaMotionProofs` proves every safety property of the run sound and the three
further invariants of its modules, for any number of links, sounds that wait and
sounds up to the back-off.

- `SoundsAreTimed`: `SoundTimed`, with every race. `TimedInv` adds that neither
  timeout is both scheduled and on the workqueue: a work item left behind by a
  sound that ended otherwise would end the next one.
- `EndsReachInitiator`: `CompletionToInitiator` without `slot_reuse`. `EndsInv`
  adds that a peer waits for the end only while it has a link, and that the
  initiator of a playing sound, while it has its link, does wait: else the
  report would be one nobody asked for.
- `OwnerQuietsDetection`: `QuietWithOwner` without `isr`. `QuietInv` adds that
  in *connected* no timer of the detection runs, no sound is requested, and the
  detector of the application is on only while the detection is. It holds
  although the STATE_CHANGED of an earlier transition may still wait, because
  its handler reads the state of the moment.
- `DetectionIsNotStuck`: `DetectionNotStuck`, with every race: in *separated*,
  a timer of the detection runs, or a sound it asked for has its end ahead. It is
  the safety part of `DetectionContinues`. The poll timer is stopped for a sound
  and only SOUND_COMPLETED starts it again. `DetectionInv` adds the types of the events and of the initiator, so that every end of a sound
  is an event that waits, and `WindowInv`: while `connected_owner_handle` is
  interrupted the state is *connected* or *disabled*, so what it then ends is not
  the detection of a *separated* accessory. The lemmas about `Pending` (what waits
  stays until its turn comes) and `PlayQueued` (only running, or disabling the
  stack, takes the request from the workqueue) carry it through the other steps.
- `SoundsAreLimited`: `SoundBudget` (the sounds between start and back-off)
  without `isr`, for every limit. `BudgetInv` counts the request that waits on the workqueue with the sounds played: as long
  as something may still ask for a sound, `sound_count` is at least that number.
  With `isr` the duration timer may expire inside `sound_completed_handle`, which
  then polls on after the back-off cleared the count.
- `BitsFollowSound`: `PlayingBit` (the status bit an owner reads is the
  initiator's, while its sound plays), with every race, also for a connection
  object that another peer took over while the sound of the last one played.

`FmnaGattProofs` proves every safety property of the run gatt, for any lengths,
MTUs (from 2, so that a chunk has room for a byte), links, peers and commands.
They share `GattInv`: events and packets name a peer on a slot, `max_conn_work`
waits in its timer or its queue, never in both, and only while an answer is
delayed, and an indication under way holds a chunk that fits.

- `ChunksAreWhole`: `ChunksWhole`, with every race. What has been sent, the
  chunk and what is left always add up to the packet; `QueueProcessed` follows
  a run of packets for links that have gone to the first whose link is there,
  by the least-number principle instead of an induction.
- `BufferIsReleased`: `BufferReleased` without `send_fails`. A buffer that is
  in use has a callback to come, and each path of the callback (next chunk, next
  packet, end of the link) keeps this.
- `AnswersReachTheirPeer`: `IndicationToItsPeer` without `slot_reuse`. `PeerInv`
  carries the same claim for each place an answer may be: an event, the event
  being handled, the delayed limit response, the queue.

`FmnaUarpAssetProofs` (the accessory) and `FmnaUarpProofs` (the service around it)
prove every safety property of the firmware update, for any number of offers,
payloads and units, any window and any versions.

- `MessagesAreWhole`: `MessagesWhole`, with every race. `WholeInv` follows the
  writes that wait, in their order: before each of them the service will hold the
  first part of a message exactly if this write is its last part, only the
  connection that is served writes parts (`Parts`), and nothing of a connection
  follows its disconnection (`Ends`).
- `AssertionsAlwaysHold` (no assertion of `fmna_uarp.c` fails), `ImagesAreWhole`
  (`AppliedWhole`), `TransfersResumeInStep` (`ResumePoint`) and
  `BuffersAlwaysAgree` (`BuffersAgree`) follow from one invariant, `UpdateInv`,
  under `UsualController`: none of `header_orphan` (finding 9), `new_offer`,
  `rescind_denied` and `rescind_applied` (section 6). `rescind_resume` is allowed:
  what it breaks is `TransferNotStuck`. That the image which is applied is whole
  cannot be proved by itself: it rests on where a transfer goes on, that on the
  request that was open, and that on which messages the controller may answer.
- `TransfersAreNotStuck`: `TransferNotStuck`, under `UsualController` and without
  `rescind_resume`. It needs `TurnInv`, below.

`UpdateInv` has a part for the accessory and one for what surrounds it. The
accessory is `Sound`: its asset, if it has one, is listed, not given up and newer
than the running image (`Owner`); listed assets have a delegate until they are
given up (`Listing`); requests are windows of units that exist (`Requests`); the
payloads before the one in hand are whole and verified in the flash; an open
request is that of the place the asset has reached (`Posed`: the header, the
metadata, a payload's header, its metadata, its data); a superbinary that is being
received has an open request, and inside a payload flash, hash and asset have
received the same units (`Live`); what is staged has all its payloads (`Complete`).
Around it, the messages on their way are about offers that were made and answers
to requests that were posed, the controller knows no other, and each buffer in
use waits for its indication (`Acks`).

`TurnInv` says where the request is that keeps the transfer going. While the
superbinary of a served controller is being received, the request for its next
unit is in exactly one place (`OneRequest`): handed over to be sent (`InBuf`),
behind another message (`InPending`), known to the controller (`InWanted`),
answered by data that wait (`InData`), or nowhere, and then the accessory may not
ask or the controller has paused (`Nowhere`). That it is in one place only
matters as much: the accessory has two buffers, and a message that finds both in
use is lost. Why the buffers always have room is the rest of the invariant. What is
handed over is confirmed some time (`Sending`). The controller commands one thing
at a time and awaits the response, which then finds a buffer (`Talk`). What is
asked for bears an identifier that was given to one asset of the controller
(`Distinct`, `Numbers`). After the response to PAUSE nothing of the transfer is
left (`Paused`), so that RESUME finds both buffers free when it is handled, or
freed by an acknowledgement before it (`Resuming`). It is there that
`rescind_resume` breaks the property: after its response the handler of RESUME
makes two requests, the one for the rescinded asset takes the second buffer, and
the one that keeps the transfer going is lost. Events that concern another
connection leave the invariant as it is by one lemma for all of them (`Passed`:
how the queue moves up by one event and may get another).

In `FmnaUarpAssetProofs` each function of the kit is a lemma that it leads from a
sound accessory to a sound one (`Goes`, `Reaches`, `Receives`, by what else it
keeps), from the messages and the flash writer up to the handlers the service
calls; its last part says where a handler puts the next request (`Asked`). Where a
function works through the list of assets it is a fold, and an induction over the
list is needed. No prover can instantiate a theorem with an operator as its
parameter, so the steps of the four folds are the cases of one operator
(`FoldOp`), and what every step of a fold keeps the fold keeps, from the recursive
definition of the library's `FoldLeft`, is proved for that one. `FmnaUarpProofs`
then has, for each of its invariants, one lemma per action.

`FmnaSerialProofs` is about the keys, their storage and the serial number, for any
periods, indices, pairings and queries, under `InTime` (neither `late_rotation` nor
`busy_disable`, as in the runs keys and serial; the other races are allowed).

- `OrderIsInvariant`: `OrderInv`, on which the others rest. Commands of an owner
  wait only while the accessory is paired, those of a pairing only while it is
  not, one at a time; behind the end of a link nothing waits that was written over
  it; an accessory that is being unpaired gets no owner; each job belongs to its
  state; and an unpaired accessory rotates no keys.
- `EvaluationIsKept`: `EvaluationKept`. `EvalInv` adds that the offset of the
  separated key period is the evaluation index modulo the secondary period; the
  lower bound keeps an index that is put off by a period ahead of the counter.
- `KeysStayInStep` (`KeysInStep`), `StoredKeysAreCurrent` (`StoredKeysCurrent`)
  and `KeysDoNotReturn` (`KeysNeverReturn`) follow from `KeysInv`. A handler
  writes item by item and a power loss may come between two writes, so the flash
  alone satisfies no invariant; `Outcome` is what the flash holds once the job
  under way has written the rest. `KeysKept` says that it leads to the keys in
  memory: rolled from the last multiple of the storage period by the stored
  difference. `Finalized` says that a pairing to be completed has its other items
  stored and a number above that of all keys. The division and the remainder of
  two periods that need not divide each other are the lemmas `Division`,
  `DivStep` and `ModStep`.
- `RestoredIsOne`: `OnePairingRestored`, for at most one power loss among writes
  (`MaxTorn <= 1`, a hypothesis of the theorem: with two the property is false, see
  section 6). `Fits` is what the flash and the writes still to come have in common
  at every moment of a job: a key item is missing and stays so until the job ends;
  or a complete pairing is about to be erased; or one is being stored and all that
  is missing is on its way, the key difference last. It is the order of the writes
  that makes it true. `PairInv` says what is left when the job has ended: the items
  of the pairing in use, or a key item missing, after a loss too.
- `SecondaryStaysSynced`: the assertion of a rotation about the secondary key,
  which finding 6 breaks with `late_rotation`, never fails under `InTime`, whatever
  number of power losses; `SyncInv` alone carries it.
- `TagIsCurrent`: `TagCurrent`. In `TagInv`, what the library serves differs from
  the state only while a STATE_CHANGED waits or the unpairing is being written, a
  pairing command then waits behind that STATE_CHANGED (`Behind`), and a tag with an
  old counter has its SERIAL_NUMBER_CNT_CHANGED on the way or its counter being
  written. `SignedInv` keeps the counter in the flash while it is needed, and
  `JobsInv` says that the jobs of the key service write keys only. The delayed
  retry of the work item needs no exception.

The assumptions are the ones the modules name (`KeysAssumption`, `SerialAssumption`,
`ConnAssumption`,
`LimitAssumption`, `AutoEnterAssumption`, `EnvironmentAssumption`,
`SelectorAssumption`, `NetworksAssumption`, `SoundAssumption`,
`MotionAssumption`, `GattAssumption`, `UarpAssumption`, `ServiceAssumption`), and
where a theorem is stated without a race, that the race is not in the set: a
hypothesis of the theorem, not of the module.

Every safety property that a passing run checks is proved. TLC alone checks the
liveness properties (out of the prover's reach, as is ENABLED):
`UnsecuredLinkEnds`, `NearbyEnds`, `SoundEnds`, `DetectionContinues`,
`ResetCompletes` and `HalfProvisionedEnds`. No module uses RECURSIVE.

## 6. Boundaries

`FmnaStack`: no payload bytes, addresses, transmission power; which free object
the host picks (a fixed choice); bonds removed by `bt_id_reset()`; links of other
Bluetooth identities that hold connection objects; errors of
`bt_conn_disconnect()` and of flash; a second `security_changed` on an encrypted
link; security and pairing mode timeouts configured to 0 (taken as positive, the
default); callbacks the application has not registered. Initializing a scheduled
work item again is "lost or kept". `FMNA_ENABLE` and `FMNA_DISABLE` only guard
against re-entrance. The commands that only read, Get Multi Status among them,
and the UTC, iCloud identifier and debug requests are left out.

`FmnaKeys`, `FmnaSerial`: cryptography is the number of the key. After a power
loss inside the four writes of `rotating_key_storage_update()` a wrong key is
restored, so `KeysInStep`, `StoredKeysCurrent` and `KeysNeverReturn` are about
power losses between handlers (`torn = 0`); two power losses in the writes of
two pairings can mix them, so `MaxTorn` is 1. Within *connected* an evaluation
index in the future already uses the secondary key after a rotation. Storage
calls do not fail. `fmna_disable()` is called between two handlers, from the
workqueue as `include/fmna.h` recommends: `fmna.c` does not check it, and a call
from another thread inside a handler is left out. That events wait meanwhile is
`busy_disable`.

`FmnaSound`, `FmnaMotion`: durations are reduced to their order, the
qualification build is left out; sounds are counted while they are refused, as
in the code.

`FmnaGatt`: peers subscribe before they write; the lengths of the single
commands and the debug control point are left out. A pairing packet is counted in
units, `PairingChunks` of which fill the buffer, each known by the peer that wrote
it, so that a peer's own abandoned packet is not told from its next one; a packet
that is complete holds at least its opcode. The state does not return to
*unpaired*. `PairingPacketOfPeer` is checked by its finding only: it is false.

`FmnaUarp`: the controller is that of the repository's test but may pause, ask,
rescind and lose its link at any moment. What other controllers could do is in
the races; a controller that resumes after rescinding an asset with an open
request, rescinds a denied or an applied asset, or offers another version into
an open transfer meets a dangling delegate, a payload erased before the delayed
reboot, or a write without transfer. As in the code: assets of corrupt images
stay in the list, a third message that finds no buffer is lost, a failed asset
goes on downloading. Left out: SHA-2, most information queries, trailing padding.

`AppNetworks`: the Find My stack is its pairing only, the Find My Device network
its provisioning. Left out: failures to start advertising, the authentication
bitmask, ID mode, ringing, RPA payload, LEDs. As in the code: an unselected
device runs both networks on one identity (`Kconfig:15`,
`network_selector.c:240–244`); in that mode Apple's pairing mode cannot be
entered again; a device provisioned within the delay of the mismatch reset is
still reset.

Not modelled, with reasons in PROJECT.json: battery level, accessory information,
product data (constants or one comparison), cryptography (large-field arithmetic
with test vectors in `tests/crypto`), pair_before_use and thingy (input and
output around the same API), host tools. In
switchable_networks, `networks/unselected` is registered but never run
(`network_selector.c:240–244` runs the other two), and `dfu` is disabled in both
branches of `sysbuild.cmake:25–29`.

## 7. What is left

1. The theorems under the races: what remains true of owners, reports and payload
   when `late_nearby` or `fast_leave` is possible.
2. The remaining commands of the control points; flash errors; the debug and
   qualification features.
