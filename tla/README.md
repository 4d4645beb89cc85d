# TLA+ models of the Zwift Ride HID bridge

This directory models the firmware component `components/zwift_ride_hid`: an
ESP32 that connects to a pair of Zwift Ride controllers as a GATT client,
decodes their buttons, and plays them to a tablet or computer as a Bluetooth
keyboard. The models are translated from the C++ source; the lines each
definition stands for are listed in `PROJECT.json` under `map`.

## The system

| part | source | state it keeps | operations | what makes it correct |
|---|---|---|---|---|
| `RideClient` | `ride_client.{h,cpp}` | connection progress, `conn_id_`, attribute handles, `async_enabled_`, `disconnect_reported_`, two timers | the GATT client events, `loop()`, `vibrate()` | the listener hears ready and disconnected alternately and truthfully; READY is earned on the current connection; no setup hangs |
| `RideIdlePolicy` | `idle_policy.{h,cpp}` | three latches, a window of sighting times, three stamps | `on_session_ready`, `reset`, `on_activity`, `on_advertisement`, `request_reconnect`, `poll` | only quiet sessions are dropped; a controller winding down stays suppressed, a woken one does not; the cap holds |
| `HidKeyboard` | `hid_keyboard.{h,cpp}` | GATT server construction, five advertising flags, one host's link, the buffered report, four deadlines | GATTS and GAP events, `begin`, `loop`, `send_report`, `release_all`, `set_advertising_allowed`, `quiesce`, `resume`, `ble_before_disabled_event_handler` | no host sees a partial database or another host's keys; no key sticks; it is found exactly while the gate is open |
| `ZwiftRideHid`, the bridge | `zwift_ride_hid.{h,cpp}` | `ride_ready_`, `ride_session_quiesced_`, `ride_idle_suppressed_`, `ota_active_`, `stopped_`, the pending report | `loop()`, the listener callbacks, OTA, shutdown and BLE-disable hooks, the scanner policy | keys flow exactly while a fresh handshake stands and nothing quiesces; scanner, client and advertising gate agree with it |
| `RideInputState` | `input_state.{h,cpp}` | active actions, lever hysteresis | `apply`, `release_all`, `set_thresholds` | transitions match the actions; no chatter between thresholds |
| keymap | `keymap.{h,cpp}` | none | `build_keyboard_report` | at most six keys, rollover as HID prescribes |
| protocol decoder | `ride_protocol.{h,cpp}` | none | `decode_ride_notification` | no read past the frame; malformed input is rejected |
| discovery | `ride_discovery.h` | none | one comparison | |
| configuration | `__init__.py` | none | schema bounds, code generation | the bounds the C++ relies on |
| developer tools | `tools/*.py` | none that lasts | a terminal dashboard | |

How they interact: ESPHome's BLE broker hands `RideClient` the GATT client
events and `HidKeyboard` the GATT server events; the bridge owns both. It is
`RideClient`'s listener (`on_ride_ready`, `on_ride_notification`,
`on_ride_disconnected`), opens `HidKeyboard`'s advertising gate while a session
is ready, runs decoded input through `RideInputState` and the keymap into
`send_report`, feeds `RideIdlePolicy` with input and sightings and acts on what
its `poll` returns, and quiesces everything for an update or a shutdown.

Everything runs on ESPHome's main loop: the BLE stack queues its events, the
loop dispatches them one at a time and calls each component's `loop()`.
Concurrency is therefore between this code and what is *behind* the queue. The
hard behaviours are: an event describes a stack that has moved on; completions
come late, refused or never (the queue is bounded and drops); connection
identifiers are reused; teardown events are swallowed; the scanner misses
advertisements or reports one several times; `millis()` wraps; and gates
(quiesce, OTA, the readiness of the ride) change while operations are under
way. `PROJECT.json` lists each such hazard at its line, with the property that
would notice it going wrong.

## The modules

| module | models |
|---|---|
| `RideSession` | the abstract life of one controller session, as a listener may see it |
| `RideClient` | `ride_client.cpp` in full, with ESPHome's BLE client, Bluedroid and the controller around it |
| `RideClientProofs` | proofs about `RideClient`: that it implements `RideSession`, and forgets no loss |
| `RideClientTimeoutProofs` | proofs about `RideClient`'s watchdogs and its haptic writes |
| `IdlePolicy` | `idle_policy.cpp` in full, its caller in the bridge, a controller and a radio |
| `IdlePolicyProofs` | proofs about `IdlePolicy`: types, evidence, deadlines |
| `IdleRateProofs` | proof that a wind-down is not taken for a wake |
| `KeyboardPort` | what the keyboard promises the bridge: two gates, the host's readiness, the report the host reads |
| `HidKeyboard` | `hid_keyboard.cpp` in full, with the stack, its advertiser and several hosts; implements `KeyboardPort` |
| `HidKeyboardProofs` | proofs about the types and the construction of `HidKeyboard` |
| `HidHostProofs` | proofs about what `HidKeyboard` shows its hosts, its links, and that it implements `KeyboardPort` |
| `Bridge` | `zwift_ride_hid.cpp` in full: the composition of `RideSession`, `KeyboardPort`, the idle policy's verdicts and ESPHome's client and scanner |
| `BridgeProofs` | proofs about `Bridge` |
| `InputState` | `input_state.cpp`: what the rider holds, with the levers' hysteresis |
| `InputStateProofs` | proofs about `InputState`, `Keymap` and `RideInput` |
| `Keymap` | `keymap.cpp`: the shipped keymaps and the report built from what is held |
| `RideProtocol` | `ride_protocol.cpp`: the decoder, byte by byte |
| `RideGrammar` | no code: what a frame means, as a grammar of the message, to compare the decoder with |
| `RideInput` | the way of a frame through a decoder, input state and keymap to a report |
| `MCRideClient`, `MCIdlePolicy`, `MCHidKeyboard`, `MCBridge`, `MCRideInput` | values for TLC; no definition that models code |

A definition named after its original with a suffix and commented `Mutant` is
a plausible mistake in the definition that follows it. No behaviour uses it:
`PROJECT.json` pairs it with the property that fails once it replaces the
original.

### RideClient

The variables are the class's members (`state_`, `conn_id_`, the set of handles
that are not 0, ...), the listener's last callback, and the external stack: the
ESPHome client's state, whether there is a link, the operations and haptic
writes under way, the queue of events. `Dispatch` is `gattc_event_handler` for
the oldest event, `Loop` is `loop()`, `Vibrate` is `vibrate()`; each `On...`
operator is one `case` of the handler. Connections are numbered by `Links`, and
`ConnIdOf` maps them to identifiers that are reused. Attribute tables are sets
of the things discovery looks for; `DiscoveredHandles` is what it finds before
it gives up. `acked` records, for the properties only, which writes the
controller acknowledged on the current link.

### IdlePolicy

The variables are the class's members over a clock of period `ClockPeriod`;
`rateTimes` is the sighting window without its storage order. `Poll` is
`update_idle_policy_`, which calls `poll` and carries out its verdict.
`Sighting` is `note_ride_advertisement_`; `SessionReady`, `Transition`,
`SessionLost`, `RequestReconnect` and `Reset` are the bridge's other calls. The
controller advertises fast after a release, then slowly, then not at all, and
goes back to fast when it is used; the radio may miss `MaxMissed`
advertisements in a row or see one twice. Three history variables record what
really happened: how long input has been quiet, how long a suppression has
lasted, whether the controller woke.

### HidKeyboard

The database is built by one request at a time: `request` is the one under
way, `database` those completed, `stage` and `attributeIndex` the code's idea
of it. `adv` holds the five advertising flags, `advCommands` the commands the
stack has not carried out, `advertiser` whether it is on the air. `conn` is the
accepted host; `linked` and `closing` are the links that really exist and those
asked to end. A report is a member of `Images`, or `Up`; `readable` is what a
host reads, `shown` what each host was last notified of, `imageOwner` (for the
properties) the host that was connected when the report was set. Deadlines are
`off`, `running` or `due`. `Dispatch` handles the oldest event, `Loop` is
`loop()`, the bridge's calls are actions of their own. Each action meets at
most one fault of `FaultKinds`, within the budget `MaxFaults`: calls rejected at
once (`build_error`, `send_error`, `stop_error`), operations that fail
(`build_refused`, `start_refused`, `stop_refused`) and completions that the
event queue drops (`dropped`).

### KeyboardPort and Bridge

`Bridge` stands above the other components. Each of them appears as what it
promises: `RideClient` as `RideSession` (`phase`), `HidKeyboard` as
`KeyboardPort` (`kb`), `RideIdlePolicy` as the verdicts its poll may give and
the wake it may see in a sighting. That the components keep those promises
is checked by `client` and `hid_reports`, and proved. Several handlers run the
same steps one after another, so each step is an operator on the state `st` (its
names are those of the source: `ReleaseAll` is `release_all_`, `QuiesceBridge`
is `quiesce_`, ...), and an action applies the steps of a whole handler in
the code's order; `LoopStep` is `loop()`. `st` holds the class's members, the
parts, and what it steers of ESPHome: the client's and the scanner's states,
whether the client is enabled and has an address, whether the stack is up.
`stale` is history: the session under way began before the last quiesce.

What is taken for granted of ESPHome (it is not in this repository, but the
comments of the source name most of it):

* CONNECT comes before OPEN, or not at all; an update starts before it stops.
* Scan results may still arrive while the scanner stops, and no later.
* A client that is disabled, or disconnected, while only discovered loses its
  address; one that is connecting is disconnected once it opens.
* When ESPHome's client makes itself idle without an event, the bridge's `loop()`
  runs before the next scan result: it is registered after its client.
* A host that was lost is back only after `loop()` ran, since a reconnection with
  encryption takes many of its passes.
* During an update no controller is taken up (`LinksDuringUpdate = FALSE`): the
  scan has been stopped. With `TRUE`, a connection that begins during an update
  keeps its input closed after the update was aborted, until it ends:
  `HandshakeCounts` does not hold. The idle policy, which polls a session
  that is not ready, does not end it.
* The stack is not restarted during a suppression
  (`RestartsWhileSuppressed = FALSE`), except in `bridge_restart`.

### InputState, Keymap, RideProtocol, RideInput

`RideInput` feeds frames to a decoder and the packets it accepts to
`InputState.Apply`; `Keymap` builds the report. It is parameterised by the decoder
(`Decode`) and by what a frame means (`Means`), as nothing it says of the
report depends on how bytes are read: `MCRideInput` gives it the decoder of
`RideProtocol`, the grammar of `RideGrammar` and frames as bytes. `DecoderAssumption` is
all the rest needs of a decoder: buttons by their bits, integers for channels. A 64-bit varint
is its ten septets, since TLC's integers have 32 bits. The decoder's cursor is a
position in the frame. `turnedAt` (where a lever's action began) and `lastFrame`
are history. `RideGrammar` says, without reading from left to right, what a frame
means: which splits of it into fields are well-formed, and which value each
field has.

## What is checked

Every run finishes. "Fails" marks a disagreement between the code and what a
comment in it says; these are listed under "Disagreements".

| run | what it asks |
|---|---|
| `client` | over successive connections that reuse one `conn_id`, with stale, lost and reordered events: types, `ReadyIsEarned`, `WatchdogsOnTime` (also across the wrap of the clock), `HapticGate`, that `RideClient` implements `RideSession`, and `SetupResolves` (every setup ends in READY or a reported loss) and `LossIsReported` (a swallowed teardown is noticed) |
| `idle` | `NoStaleEvidence`, `SuppressionIsCapped`, `WindDownIsNotAWake`, `DisconnectOnlyWhenQuiet`, with single missed sightings and duplicates |
| `idle_live` | `WakeIsRecognised`: once armed, a controller that advertises fast is taken back |
| `idle_diagnostic` (fails) | `SilenceArms`: after `advertising()` reads false, the next advertisement reconnects |
| `hid_faults` | construction and advertising with a lost, late, refused or rejected step, a restart of the stack and a foreign advertiser: `HostSeesWholeDatabase`, `ConstructionEnds`, `Discoverable` |
| `hid_reports` | two hosts, a rejected call and a restart: `EveryLinkAccountedFor`, `ReadsAreCurrent`, `NoImageAcrossHosts`, and `ImplementsPort`: `HidKeyboard` implements `KeyboardPort` |
| `hid_live` | one host with every write, congestion and suspension, a rejected notification or a refused command: `HostCatchesUp`, `QuiesceReleasesKeys`, `GateCloses` |
| `hid_gate_lost` (fails) | `GateCloses` when one completion is lost |
| `hid_stop_refused` (fails) | `Discoverable` when one stop fails |
| `bridge` | the bridge with everything around it: keys, gate and pulses only in a session (`KeysOnlyInSession`, `GateFollowsSession`, `PulseInSession`), no old report (`ReportIsCurrent`), no old session (`SessionIsFresh`) but every new one (`HandshakeCounts`), a client that is never left disabled (`DisabledOnlyWhileSuppressed`), sessions that end before the next begins (`HonoursSession`); and that it finds the controller again (`ComesBack`), is quiet during an update (`UpdateStopsScanning`) and shows its host what is held (`KeysReachHost`) |
| `bridge_restart` (fails) | `DisabledOnlyWhileSuppressed` when the stack may be restarted during a suppression |
| `input` | every history of frames: `LeversFollow`, `NoChatter`, `ReportShowsHeld`, and `HeldAsFrameMeans` against the grammar, also for malformed frames |

Each property of a run that passes is shown to be able to fail there: a mutant
of the code breaks it.

### Bounds

* `RideClient`: every connection has the same identifier, so nothing that the code
  compares tells an event of the previous connection from one of the next: the
  hardest case, and one link of the model is reused for all. Two queued events
  keep CONNECT and OPEN, and a completion and a loss, in every order. The clock's period (3) is
  one more than the longest timeout (2), the smallest for which the code's
  comparisons are claimed to work, so the wrap falls everywhere. The tables end
  discovery at success, at a mandatory attribute and at an optional one.
* `IdlePolicy`: small intervals in the proportions of the defaults
  (`WakeRate` between the two advertising intervals, below `SlowRate`, the cap
  beyond the confirmation), with a period one above the cap. `RelativeState` is a
  view that forgets the absolute time: every comparison of the policy is a
  difference, so behaviours are the same up to a shift of the clock. The
  liveness run uses no view.
* `HidKeyboard`: two hosts make one to accept and one to turn away; they are
  interchangeable (symmetry, in a run without liveness). One image with a key
  pressed differs from `Up`. One or two queued events; the environment waits when
  the queue is full, which only delays it. One fault at a time, after which the stack may
  restart: a second one adds repetitions of what the recovery of the first left
  behind. At most two advertising commands wait in the stack: the code issues a
  third only after a timeout. `PromptStack` (in `hid_reports`, `hid_live` and
  the two failing runs) leaves out completions that are slower than the
  timeouts; `hid_faults` includes them.
* `Bridge`: two images with a key pressed tell an old report from a new one;
  nothing else is bounded.
* `RideInput`: the frames hold none, one, six, seven and all of the buttons, and
  lever values at, next to and far beyond the default thresholds (35 and 20) on
  both sides, in either place a lever may be told of. Malformed frames are spelled
  from the few bytes that mean something to the decoder, up to lengths that
  reach each of its refusals.

### Fairness

The main loop runs (`Dispatch`, `Loop`, `Poll`) and the clock advances: ESPHome
calls `loop()` and drains its queue forever. For `RideClient` that is all but
one thing: ESPHome's own watchdog ends a teardown that hangs, the behaviour
`RideClient::loop` polls for. Nothing is assumed of the controller, or of
completions. `IdlePolicy` assumes that advertisements are not missed forever.
`HidKeyboard` assumes that the stack carries out what it was asked (its answer
may be lost), and that a link it was asked to close does close; these two are
strong fairness, as hosts may fill the bounded queue again and again, which
delays them but never stops them. Hosts, faults, quiesce, resume and the gate are
under no fairness. `Bridge` assumes that its `loop()` runs except during an
update (which may hold it up, the reason for `on_scanner_state`), that a
suppression reaches its cap (`SuppressionIsCapped`), that ESPHome's tracker and
client get on with what they were asked, and that the controller is seen,
connected to and answers again and again: it may fail any number of times in
between. `UpdateStopsScanning` therefore rests on the scanner's events alone.

### Disagreements

* `idle_diagnostic`: a false `advertising()` diagnostic does not mean, as
  `idle_policy.h` says, that the next advertisement reconnects: a full window of
  fast ones has to follow.
* `hid_gate_lost`: CONNECT clears `advertising_start_requested_` even when the
  start was issued, by a gate that closed and opened again, while CONNECT was
  queued. When the completion of that start is then lost, the next closing of
  the gate finds no flag set and stops nothing; the recovery in `loop()` needs the
  flag too.
* `hid_stop_refused`: a failed stop sets `advertising_active_` although nothing
  may be on the air (`quiesce()` asks for a stop unconditionally). Once the gate
  is open the flag keeps `advertise()` and `loop()` from ever starting.
* `bridge_restart`: `ble_before_disabled_event_handler` ends the suppression, but
  not as `end_suppression_` does: it does not enable the client that the idle
  disconnect has disabled, and `request_reconnect` ignores a bridge that is not
  suppressed. `idle_policy.h` says that the reset is there so that after a
  restart of the BLE stack the bridge never comes back up still refusing to
  reconnect.

One limit is no disagreement: two sightings missed in a row during a wind-down
look like the slow rate (`poll()` takes a slow interval without a sighting for
it), so the fast ones after them would be taken for a wake. `idle` allows one;
`IdleRateProofs` proves that no wind-down is taken for a wake while the losses stay
within the rates (`RatesTell`).

## What is proved

`tlapm` checks these for every value of the constants that satisfies the
modules' assumptions, so for clocks of 2^32 ms, any number of connections, any
table, any queue bound and any configuration the schema accepts.

**RideClientProofs.** `TypeCorrect`, `ListenerCurrent` (which the refinement all but
implies, so no run repeats it), `ReadyEarned`, and
`Refinement`: `Spec => ImplementsSession`; also `FailuresEnd` and `LossesNoticed`
(below). None of `ListenerCurrent`, `ReadyEarned` and `Refinement` is inductive
alone. `IInv` adds that the members agree with the state (`MembersAgree`), what
has been acknowledged when the state says so (`AcksAgree`), and five facts
about the queue: a connection is asked for only from DISCONNECTED
(`AskedWhenIdle`), one at a time (`OneOpening`), its opening events stand
together (`OpeningInOrder`), discovery completes once (`OneSearch`), and a queued
acknowledgement is either one of this connection or followed by the opening
of the next (`AcksInOrder`). The last is why a stale completion cannot earn READY
although `conn_id`s are reused: the state it would act on has not been
entered before that opening event is handled. The refinement maps `phase` to
the state; every action implements one abstract action or a stutter.

**RideClientTimeoutProofs.** `Punctuality` (`WatchdogsOnTime`) and `OneWriteAtATime`
(`HapticGate`). For the first, a deadline is never passed and is reached only
while `loop()` has yet to run since the last tick (`DeadlinesKept`); with a timeout
below the clock's period, the wrap cannot hide it. `HapticGate` needs `IInv` and
`WInv`. The completion of the RideOn write looks like that of a haptic
write, so the queued ones are counted with the writes in the stack: in READY
each is the one that `haptic_write_pending_` waits for, or timed out
(`WritesCounted`). While the opening or the discovery of a connection is still queued
nothing has been written on it, and every completion left over comes before the
opening (`NoWriteAhead`); the handshake's own completion is spent on the way to READY
(`OneHandshake`), and haptic writes begin only there (`HapticsWhenReady`). `hapticTimeouts` is history: how many writes the
code has given up waiting for.

**HidKeyboardProofs.** `TypesOfKeyboard` and `WholeDatabaseForHosts`
(`HostSeesWholeDatabase`). `Typed` strengthens `TypeOK` by the types of the queued
events, which name parts of `WholeDatabase`. The second rests on `DatabaseInv`.
Construction visits its steps in one order (`Rank`), between two neighbours of which
there is none (`NothingBetween`). One operation is under way or answered in the queue
at a time (`OnePending`), none before the registration was asked for
(`Unasked`); while construction has not failed, everything of a lower rank than
the one pending is done, and its handle known (`InOrder`); hosts are accepted only
after the last (`Finished`).

**HidHostProofs.** `ReadsCurrent`, `NoImageForOthers` (an action property),
`LinksAccountedFor` and `RefinesPort`. An image with a key pressed is current only
while the host it was submitted for is connected, hence the database finished and both
input attributes known (`ImageIsHosts`); with it `ReadsAreCurrent` is inductive,
and nothing that a step notifies is another host's. For the links, the last event queued
about a host's link tells whether it has one (`LastTells`). It is what makes
`EveryLinkAccountedFor` inductive: an event that is handled late may accept a host
that has gone, or clear one that is back, and then the event that puts it right is
still queued. It also shows that the invariant needs neither a bound on the queue nor on
the number of hosts. The refinement maps the gate, the quiesced flag, `ready()`
and the current report to the members of the port (`PortState`); that only a
keyboard that began can be quiesced (`QuiescedLater`) makes `begin()` a stutter.

**IdlePolicyProofs.** `TypeCorrect`, `NoStale`, `Capped` and `QuietOnly` (an
action property). `IInv` adds the two clock invariants: in a live session the
distance of `last_activity_ms_` from the clock is the time that really passed,
and likewise for a suppression; both because the deadline is shorter than the
clock's period and, once it is reached, a poll is due before time moves on.

**IdleRateProofs.** `WindDownIgnored` (`WindDownIsNotAWake`), where `RatesTell`: a
fast advertisement comes less than `SlowRate` after the last one seen, though
`MaxMissed` in between are missed or the controller has just been released; two
slow ones are more than `WakeRate` apart; duplicates are closer than any two
advertisements; and without a cap a window is shorter than the clock's period. The
values of `idle` satisfy it. So do the defaults of `idle_policy.h` (500, 350 and
100 ms) with the rates measured there (196 and 640 ms) when no two sightings in
a row are missed and a released controller advertises within 304 ms; with two
missed it fails, and so does the property. `WindDown` speaks of the ages of the sightings
pairwise, which avoids a sum over the window: while the slow rate is not latched no
two sightings are further apart than `SlowRate` (less one in the fast regime) times
their distance in the window (`Spaced`), so a mean of `SlowRate` leaves no gap
shorter than that; once it is latched they are more than `WakeRate` times that
distance apart (`Apart`), so the mean cannot show a wake. `Recent` keeps every age in
use below the clock's period, by the cap or else by the length of a window.

**BridgeProofs.** `TypeCorrect`, `KeysReleased`, `GateCorrect`, `ReportsCurrent`,
`PulsesEnd`, `SessionsFresh`, `HandshakesCount` (while no controller is taken up
during an update), `NeverLeftDisabled` (while the stack is not restarted during
a suppression) and `SessionsHonoured`: the bridge implements `RideSession`. `IInv`
consists of `TypeOK` and `Sound`: what it takes to be ready (`ReadyIsSound`), how
gate and report go with that (`KeyboardInStep`), who halted the keyboard
(`HaltHasCause`), how the suppression, its policy and the client's enabling go
together (`SuppressionIsSound`), which phases go with which states of the client
(`LinkFollowsClient`) and when the input is open (`LinkCounts`); and that a
stale session stays recognisable as one (`Outdated`): its input is closed, or
its link is on the way down. The last is what makes `SessionIsFresh` inductive: the
flag that keeps an old session out is cleared by CONNECT and OPEN, so no such event
may follow for the old link. Every step of a handler has a lemma that says what
it does to the state and one that says it keeps the invariant.

**InputStateProofs.** `TypeCorrect`, `Followed` and `Steady` (an action property), for
every pair of thresholds that `set_thresholds` accepts and every integer value
of a lever. `IInv` adds where the levers' actions began (`BeganBeyond`).
`ImplementsInputState` (`Spec => InputSpec`) carries them over to `RideInput`, whose
frames do nothing to the input state that a packet does not. `ReportsShown`
(`ReportShowsHeld`) and `HeldAsMeant` (`HeldAsFrameMeans`) rest on `InputInv`,
which adds that the waiting report is that of the controls held (`ReportInStep`)
and that those are what the decoder said of the last frame (`HeldAsDecoded`). The
report is built by a loop over the twenty actions: after each, what it shows is the keys
of those among the actions looked at that are held, each once, or that they are too many
for six. `Induction` over the loop speaks of a set, the numbers of actions for which
this holds, and follows from the least number not in it; the library's theorem
has an operator as its parameter, which the provers cannot instantiate. They are about every decoder that keeps
`DecoderAssumption`, every keymap and every history of frames. `HeldAsMeant` supposes that
the decoder misreads no frame (`Misread = {}`), which `input` evaluates for the
repository's decoder and the run's frames; what is proved is that whatever comes
before and between, nothing of an older frame is left in what is held.

**Halves of liveness properties.** Seven more theorems state what no step may
lose for a liveness property to be possible at all: while the good thing has not
happened, what brings it about is still set. The prover cannot do the rest (fairness
then makes it happen, which the runs check). No run repeats them; each is inductive
together with the invariant of its module or with the part named.

| theorem | half of | says |
|---|---|---|
| `FailuresEnd` | `SetupResolves` | in ERROR, ESPHome's client is idle, closing, or will close as soon as it opens: `fail_setup_` always asked for it, and no connection is begun over an ERROR (`AskedWhenIdle`) |
| `LossesNoticed` | `LossIsReported` | when a link is down that RideClient is not done with, DISCONNECT or CLOSE is queued, or the client is idle or ends its teardown by itself; also for a loss that overtakes the news of the connection (`LossFollows`) |
| `ConstructionIsWatched` | `ConstructionEnds` | a construction that has neither ended nor failed has its watchdog set and `loop()` running |
| `NoReportForgotten` | `HostCatchesUp` | a host not yet told the current report has `pending_report_` set, or its loss is queued |
| `OfferNeverDropped` | `Discoverable` | `advertising_desired_` is set while a host could be let in |
| `NoKeysForgotten` | `KeysReachHost` | the bridge has queued the keys a ready host lacks, or has yet to see that it is ready |
| `RadioStaysQuiet` | `UpdateStopsScanning` | during an update or after a shutdown the scanner never runs; it may be starting, and then `on_scanner_state` stops it |

Assumptions: those of the modules (`LinkAssumption`, `TimeAssumption`,
`ConfigAssumption`, ...), which the runs also evaluate. The timeouts are shorter
than the clock's period; the configuration obeys the schema of `__init__.py`; a
decoder returns packets (`DecoderAssumption`).

Only model-checked: that `RideProtocol`'s decoder reads frames as the grammar does
(`Misread = {}`, the first conjunct of `HeldAsFrameMeans`: recursive operators over
bytes, out of the prover's reach), and all liveness (`SetupResolves`,
`LossIsReported`, `WakeIsRecognised`, `ConstructionEnds`, `Discoverable`,
`HostCatchesUp`, `QuiesceReleasesKeys`, `GateCloses`, `ComesBack`,
`UpdateStopsScanning`, `KeysReachHost`), but for the halves above: the prover
handles neither `ENABLED` nor fairness.

## What is not modelled

* `HidKeyboard`: the report map and descriptors, keyboard LEDs, MTU, pairing
  dialogues, the exact deadlines (their 32-bit comparison is a hazard without a
  property), which of two calls starts advertising, and which of the two input
  attributes notifies (the code falls back from one to the other). The stack
  never drops a CONNECT or DISCONNECT event: the code does not recover from that.
  UNREG is left out, as nothing unregisters the application while the stack is up.
* `RideClient`: the haptic pattern and log texts.
* `Bridge`: the status LED, diagnostics, logs, the debug captures, and a setup
  that fails because the configuration is wrong. A haptic pulse is either due or
  not; the rate limit is a choice.
* Discovery, configuration code generation and the Python tools: a comparison
  (its result is the advertisement that `ParseDevice` is given), a generator and
  a presentation layer, with no state to get wrong.

## Plan

Done: every component of the firmware that keeps state, their composition, both
abstractions that the composition rests on, and the proofs above. Left: the
keyboard's deadlines over a wrapping 32-bit clock.
