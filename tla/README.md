# Serin Link controller: TLA+ models, checks and proofs

Serin Link lets battery "dials" (Links) control a heat pump through a
controller over ESP-NOW. This directory specifies the controller's side:
`src/src/sl2_link.c` (the platform-free core), the headers under
`src/include/serin_link/`, and the ESPHome adapter in
`src/esphome/components/serin_link/`, its code generation included. The dial's
firmware is not in the repository.

Every definition is translated from the code. A comment above it says what it
stands for; `PROJECT.json` ("map") gives its lines.

## 1. Inventory

| Part | State | Operations | What is hard |
|---|---|---|---|
| Pairing (`sl2_link.c`) | window/confirm state, candidate (MAC, LMK, identity, ephemeral), own ephemeral, deadlines, result | `pair_start`, `pair_cancel`, `on_pair_req`, PAIR_CONFIRM, `pair_commit`, time-outs in `loop` | requests and proofs in any order, any port call may fail, a re-pair replaces a working key, deadlines move |
| Bond table | up to 4 slots in RAM, a blob in the key/value store, encrypted peers in the radio | load at `start`, commit, latch, forget one, forget all | three copies that must agree through failed saves and power loss; slots compact |
| Replay guard | per-boot epoch, per-bond durable latch, per-boot `epoch_seen` | `epoch_ok`, `room_epoch_ok`, `wifi_epoch_ok` | recorded frames decrypt after a reboot; old dials are let in until they prove otherwise |
| Receive queue (`sl2_rxq.h`) | positions, slots, drop counter | `push` in the Wi-Fi task, `pop` in the loop | two tasks, no lock, positions that wrap |
| Wire format (`sl2_proto.h`) | none | tolerant decode, version floors, sizes sent | a frame of any version and length; absent, torn and whole fields |
| STATE fan-out | last state, per-dial stamps and pending bits | `loop`, `echo_state_all`, `dial_live_at` | change detection per head, rate floor, 32-bit time |
| Pulls and certificates | latched requests, throttle stamps, trust | `serve_pulls`, `mark_other_info_pending`, `dial_cert_apply` | one head's choice must reach the others |
| Wi-Fi setup session | owner, token, verdict, 8 retired tokens per dial | `wifi_queue_setup`, `wifi_cancel`, AP-closed observation | starts, cancels and their repeats race |
| Identity and `caps_seq` | one key pair, one byte, stored; a fingerprint in the adapter | `start`, `caps_changed` | stores whose read errors look like absence, two stores that advance apart |
| Transport (`serin_link.cpp`) | attempt counters, Wi-Fi event bits, driver flags | `try_start_`, `process_wifi_events_`, `maintain_transport_`, `repair_transport_` | losses that no query reveals, retries that run out |
| Room source and catalog | selected id, its projections, two preferences, pages | selection, reconcile, feed, paging | stale catalogs, slots that move, preferences written one by one |
| Sensor rows, diagnostics | what was last published per slot | `feed_sensor_row_`, `check_sensor_rows_`, `publish_diagnostics_` | a value of a dial that moved to another slot |
| HVAC commands | staged mask, overlay mask, hold values | `hvac_apply`, `apply_pending_`, `apply_overlay_` | late reports of an older state, expiry, halves of a band |
| HVAC, CAPS and INFO mapping | battery latch | conversions | rounding, and agreement of what is declared with what is reported |
| Gate switches | the two gates, a preference each | `setup`, toggles, `hvac_get_state` | a boot must not send STATE before they are restored |
| Automations | - | pair, cancel, forget by slot or MAC | decided on what was shown, carried out later |
| Code generation (`__init__.py`) | configuration, memory that outlives a validation | schema, expansion, `to_code` | keys that must agree, sizes fixed at build time |
| Hash and key derivation (`sl2_sha256.h`) | a context | `update`, `final`, HMAC, HKDF | block ends; an adapter that pads otherwise derives another key |
| Monocypher | - | - | see section 6 |

How they interact: the radio callback pushes raw frames into the queue;
`loop()` of the adapter starts or repairs the transport, pops the frames,
filters them through `max_links`, hands them to `sl2_link_on_recv`, and then
runs `sl2_link_loop`. The core reaches the platform only through its port
(send, peer_add, peer_del, kv_get, kv_set, time, random) and the HVAC interface
(`apply`, `get_state`, `get_caps`, INFO, room source, catalog, Wi-Fi hooks).
By the threading contract at the head of `sl2_link.h` everything but the queue's
push, and the Wi-Fi event task that only sets bits, runs in that one context:
a handler is atomic against other handlers - not against failure of a port call
inside it, nor against loss of power.

What makes each part correct is stated as properties in its module (section 4);
`PROJECT.json` lists the hazards they are for, at their lines.

## 2. Modules

A module holds one component: its state, `Init`, one action per operation,
`Next`, and its properties, each with the reason for it. Operators called
*Mutant* are plausible bugs; a property is kept only if one of them breaks it.

| Module | What it models | Variables and the code's state |
|---|---|---|
| `SerinCore` | pairing, bonds, store, radio peers, replay guard, `max_links`, start, power loss | see section 3 |
| `BondRegistry`, `SerinCoreRegistry` | abstract: a durable registry of bonds and the part being served; the mapping from the core to it | - |
| `MCSerinCore`, `MCSerinCoreRegistry` | constants and symmetry; two sentences of the documentation | - |
| `RxQueue`, `BoundedFifo` | the ring, one step per shared access; abstract: a bounded queue that loses only what finds it full | `head`, `tail`, slots |
| `PairHandshake` | the handshake across the air: controllers, their queues and radios, and dials taken from what controllers expect of them; the air loses, repeats and delays | `ctrl` = pairing fields, bonds and peers; `queue` = rxq; `dial`, `air` external |
| `PairWindow` | the two deadlines on a clock that wraps, late loops, extensions | `pair`, `deadline`, `confirmDeadline`, `result` |
| `WireLayout`, `WireFormat` | layouts; what the receive handler decides on a frame of any type, version and length, and what it keeps of a dial's texts | `epoch`, the bond's latch; `info` = `have_info`, `model`, `fw`; the last frame and what was made of it |
| `StateFanout` | STATE: changes, heartbeat, rate floor, echo, liveness | `last` = `last_state`; `dial[d]` = stamps, `pend`, `pull` |
| `PullService` | the other pulls, throttling, room-source echo, certificates | `rt[d]` = pull bits, throttle stamp, certificate state |
| `WifiSetup` | setup sessions: owner, verdicts, history | `owner`, `req`, `ring` = the retired sessions; `ap`, `hook` = the adapter |
| `CapsSync` | identity and `caps_seq` over reboots into other firmware | `kvId`, `kvSeq` = store; `fp`, `fpFlash` = preference, cached and in flash |
| `Transport` | bringing ESP-NOW up and keeping it up | `radio` = driver and what the adapter believes of it; counters; `events` = the atomic bits |
| `RoomSource` | selection, projections, reconcile, feed, the two preferences | `room` = the adapter's fields; `saved`/`stored` = preferences, cached and in flash; `torn` = power failed between the writes of the two |
| `Catalog` | ids, revision and pages of the catalog, read while it changes | nothing in the controller; request, page and list of the dial |
| `SensorRows` | readings per slot | `row` = `LinkRow`, `shown` = the entities |
| `Diagnostics` | the diagnostic rows and totals | `rt` = what the core knows, `row` = caches, `shown` = the entities |
| `CmdOverlay` | staging, quiet time, the call, the overlay | `hold`, `pending`, `overlay`, `age`, `timer`; `device`, `flight` = the entity |
| `HvacMapping` | one field of a command at a time: staging, the call, the overlay, reports to the wire; degrees Fahrenheit by the configured or the inferred table; battery latch | `traits` = the entity and its configuration, `entity` = what it publishes, `staged` = the field in `hold_` with its mask bits, `latch` |
| `HvacReport` | STATE with its overlay and CAPS as a whole, for an entity not heard of yet, one that does not measure everything, and commands for what it does not declare | `node` = configuration, `dev` = entity, link source and network, `held` = what of `hold_` masks |
| `InfoTlvs` | filling INFO, walking over TLVs | the buffer |
| `Gates` | the screen and night switches through restarts | `gate`, `cached`/`flash` = preference |
| `LinkActions` | the button and the four actions, by slot or MAC, in lists | `bonds`, `source`, `list` = what is still to be played |
| `ConfigSlots`, `ConfigSources` | the keys about bond slots and about room sources; what is built from them | `yaml`, `conf`, `built`; `fahrenheit` = `CORE.data` |
| `HashStream`, `KeyExpansion` | streaming SHA-256 around an abstract compression; HMAC and HKDF | `buf`, `bitlen`, chaining; `prk`, `t`, `ctr` |
| `Controller`, `Adapter`, `Formats`, `Progress` | compositions for checking | all of the above |
| `SerinCore_proofs`, `RxQueue_proofs`, `PairHandshake_proofs`, `WifiSetup_proofs`, `PullService_proofs`, `Controller_proofs`, `Adapter_proofs`, `Formats_proofs` | theorems about the modules they are named for; the last three also about the parts composed there | - |

The four compositions are sums, not products. Their parts share no state: where
the code connects two components, the module of one contains what it needs of
the other (`RoomSource`, `SensorRows`, `Diagnostics` and `LinkActions` each have
a bond table that compacts; `PairHandshake` has the queue, the bonds and the
radio). Interleaving parts that share nothing would multiply states and add no
behaviour of any part, so a behaviour of a composition is a `scenario`: one part
runs, in an instance of its own size, and the others rest. A component with two
interesting sizes appears as two scenarios (`heads` and `floor`, `owner` and
`past`, `sources` and `vouchers`, `rekey` and `rivals`). `Fan(x)`, `Window(x)` and
`Caps(x)` are instances whose size `x` is a parameter, given where they are used, so
that what is proved of them is proved for every size. `Controller` and
`Formats` extend `WireFormat` and `HashStream`, whose variables keep their names.

Where behaviour crosses components for real, it is in one module:
`SerinCore` joins pairing, table, store, radio and `max_links`; `PairHandshake`
joins two controllers, two dials, queues and the air; `Catalog` joins the pages,
the bond table, INFO and a dial; `CmdOverlay` joins the core's echo, the
adapter and an asynchronous entity.

## 3. SerinCore and RxQueue in detail

| Variable | Code |
|---|---|
| `dials`, `seen` | `dial[0..n_dials-1].bond`, `.epoch_seen` |
| `stored` | the blob under `SL2_KV_BONDS` |
| `peers`, `bcast` | the driver's encrypted peers, the broadcast peer |
| `pair`, `cand`, `eph`, `result` | the pairing fields of `sl2_link_t` |
| `epoch`, `started` | the same |
| `blind`, `proven`, `out` | history: the boot could not read the store and has not saved; the dials that have proven they echo epochs; what the last step did for the outside |
| `windows`, `boots`, `faults` | bounds |

One action is one handler with everything it calls: `PairReq` is
`pair_req_past_max_links_` and `on_pair_req`; `PairConfirm` is that branch of
`on_recv` with `pair_commit` and `pair_cleanup_candidate`; `Command`,
`RoomFrame` and `WifiSessionFrame` are the epoch-guarded branches; `Start` is
`sl2_link_start`, whose first failing peer ends the attempt and leaves the
table loaded; `RepairPeers` is the peer loop of `repair_transport_`, which runs
only between pairings. Port calls fail where the code checks them: the save,
the candidate's, the restored, the broadcast and the bonded peers, the key
pair, the random epoch, the read of the store.

Frames need no network here: any request, proof or epoch that could ever have
been made may arrive at any time and any number of times. `PairHandshake` has
the network, and dials that make only the frames a dial makes.

Abstractions a reader should know:

- A key is the pair of ephemerals it is derived from; a proof exists only for
  the key it was made with; signatures have been verified. Frames that are
  dropped without an effect on this state are stuttering steps.
- A boot's epoch differs from those of earlier boots. The code draws 16 random
  bits, so this holds only with probability 1 - 2^-16 per boot.
- The key/value store replaces a blob atomically (NVS does) and `peer_del`
  succeeds. A failed `peer_add` leaves no usable key (`FailedKey`).
- The driver does not lose peers while `SerinCore` runs; `Transport` is about
  the driver that does. Deadlines may pass at any moment; `PairWindow` is about
  their length.
- The unreadable store: `kv_get` reports a read error as absence
  (`sl2_port.h:34`, `serin_link.cpp:113-119`). A boot that meets one serves an
  empty table and its first save replaces the stored bonds and pins. The
  properties name this exception (`blind`) and hold without any other.

In `RxQueue`, `push` and `pop` are split at each access to shared memory, and a
frame's copy into and out of a slot in two (`meta`: addresses and length;
`data`). `Word` stands for 2^32. The acquire/release pairs justify interleaving
the steps in one order. `Fifo` maps a frame to the abstract queue when `head`
is published and to `delivered` when `tail` is.

## 4. What is checked

| Run | Instance | Shows |
|---|---|---|
| `core_pairing` | 3 dials, 2 identities, table of 2, 2 windows, 2 boots, 2 faults | durability, slots, coherence of pairing, radio against bonds, ACKs, pins, forgets |
| `core_max_links` | 2 dials, 2 identities, 2 ephemerals, `max_links` 1 under a table of 2 | `OnlyCandidatesCommit` |
| `core_epoch` | 2 dials, 4 boots, 2 faults | `ReplayGuard` |
| `core_registry` | 2 dials, 2 identities, table of 2 | `ImplementsRegistry` |
| `rx_queue` | 2 slots, positions modulo 4, 9 frames | `SlotHasOneUser`, `NeverOverfull`, `ImplementsFifo` (with the liveness of delivery) |
| `controller` | 11 scenarios of the core's services | sessions, fan-out, deadlines, pulls, identity, `caps_seq`, handshake, wire format |
| `adapter` | 7 scenarios of the adapter's services | repairs, room source, rows, staged bands, diagnostics, automations, gates |
| `formats` | 8 scenarios of what is computed | mapping, INFO, catalog, configurations, hash, key derivation |
| `progress` | 6 scenarios, no symmetry, fairness | the parts' liveness, in four properties |
| `core_doc_latch`, `core_doc_result`, `hvac_doc_mode` | 2 dials; all commands | three sentences of the documentation that the code does not keep |

The compositions state one property per part, the conjunction of what the part's
module says, each conjunct for the scenarios in which it runs, its type invariant
included. The table below gives the conjuncts and, in its last column, the property
of a run they belong to; for each conjunct there is a mutant that breaks it.

### What each part's properties say

| Module | What its properties say | In the runs |
|---|---|---|
| `SerinCore` | `DurableTable`: RAM is what a reboot loads. `OneSlotPerDial`, `SlotOrderKept`: slots stay one per dial and in order. `PairingCoherent`: state, candidate, broadcast peer and result agree. `RadioMatchesBonds`: the radio holds the bonds' keys, or the candidate's during its confirmation. `AckedKeyIsDurable`: an ACK is sent only for a stored key. `ForgetIsFinal`: a forgotten dial comes back only by pairing. `PinnedUntilForgotten`, `ReplayGuard`, `OnlyCandidatesCommit` (under `max_links`), `ImplementsRegistry` | themselves |
| `RxQueue` | `SlotHasOneUser`, `NeverOverfull`, `ImplementsFifo` | themselves |
| `PairHandshake` | `CommittedIsDerived`, `AckedIsCommitted`: neither end takes a key the other has not. `OneWinner`: one controller per attempt. `EndsAgree`: outside a handshake both ends and the radio hold one key. `AckLossRecovers` | `KeysAgree`; `PairingRecovers` |
| `PairWindow` | `NoOverstay`: pairing ends in time however it is extended. `TimeoutIsDue`: never early. `CountdownIsTrue` | `PairingIsTimely` |
| `WireFormat` | `NothingTorn`: zeros put in by the decode are never acted on. `ShownIsLatest`, `ReportIsShown`: a dial's model and firmware are of its latest report, never of two, and whole if the report was. `EchoWasWhole`. `OneUnit`: tenths are never read as hundredths. `OldDialsWork`. `FitsRadio` | `FramesAreReadWhole` |
| `StateFanout` | `FreshOrPending`: no head keeps an old state. `RateFloor`. `PendingGoesOut` | `HeadsAreCurrent`; `DialsAreServed` |
| `PullService` | `KnowsOrMayPull`: a choice of one head reaches the others. `PullIsAnswered`. `GenuineIsOwn`: trust is in the dial's own certificate | `PullsTellTheTruth`; `DialsAreServed` |
| `WifiSetup` | `QueueIsOwners`, `RetiredStartsRefused`, `CancelTouchesOwnWindow`, `VerdictIsTrue` | `SessionsKeepApart` |
| `CapsSync` | `IdentityIsDurable`, `IdentityIsKept`; `NumberNamesContent`: equal numbers mean equal capabilities | `NumbersSurviveBoots` |
| `Transport` | `LostCallbackKnown`: a lost callback is always going to be registered again. `BoundedBurst`: a broken driver is not hammered. `WarningIsCurrent`. `Recovers`, `StaysAwake` | `RadioIsLookedAfter`; `RadioRecovers` |
| `RoomSource` | `FeedIsSelected`, `ShownIsPinned`, `ProjectionAgrees`, `DropdownTracks`, `SelectionIsTheUsers`, `PumpIsReleased`, `HeartbeatRepeats` | `SelectionIsShown` (what is selected and shown), `SelectionHolds` (what a step does) |
| `Catalog` | `ListIsACatalog`: a dial shows the catalog of one moment. `AcceptedAsShown`, `EmptyOnlyIfChanged`, `CatalogArrives` | `CatalogIsOfOneMoment`; `TruthArrives` |
| `SensorRows` | `MovedIsRetracted`, `HumidityIsOwn`, `ShowsLatest`, `FreshIsShown` | `RowsShowTheirDial` |
| `Diagnostics` | `RowsAreTheSlots`, `LinkedAgreesWithLastSeen`, `OutageGrows` | `RowsShowTheirDial` |
| `CmdOverlay` | `LatestIsSent`, `ShownIsLatest`: of overlapping commands the last is sent and shown. `TruthReturns` | `LastCommandCounts`; `TruthArrives` |
| `HvacMapping` | `DeclaredConfirms`: a staged value is the one reported back. `DegreesReturn`: a dial is shown the degree F it chose, masked or not. `ReportIsDeclared`: what is reported is declared, but for a command beyond it while its overlay lasts. `SplitIsSplit`, `NoFlapping` | `ReportsComeBack` |
| `HvacReport` | `StateFitsCaps`: a node reports what it declares, and setpoints in range whatever masks them. `MirrorIsTheLowEnd`: dials without bands show the band's low end, overlaid or not. `UpIsHeard`: it is up only once its entity was heard of | `ReportsComeBack` |
| `InfoTlvs` | `NothingLeftOut`, `WalkKeepsPlace`, `RowsAreAnnounced`, `KnownIsNotNA` | `InfoIsWhole` |
| `Gates` | `GateOutlivesReboot`, `UntouchedIsAsBefore` | `GatesEndure` |
| `LinkActions` | `NeverAnOlderLink`, `ListHitsSeen`, `ShownIsSource` | `ForgetsHitTheirLink` |
| `ConfigSlots` | `ScreenRowsReport`, `DevicePerRow`, `LimitedLinkHasRows`, `DropdownCoversCatalog` | `BuildsFit` |
| `ConfigSources` | `BuildSucceeds`, `ChoiceIsItsSource`, `ReadingsAreCelsius` | `BuildsFit` |
| `HashStream`, `KeyExpansion` | `NothingLost`, `DigestOfMessage`, `WholeBlocks`; `AsOtherAdapters`, `Extracted`: HMAC and HKDF against RFC 2104 and RFC 5869 | `StreamIsRight`; `AsTheStandards` |

### Bounds, and why they are enough

- *SerinCore.* Three dials over a table of two give a full table, a refused
  dial, a removal that moves another dial's slot, and a re-pair beside a new
  candidate. Two windows give a re-pair with another key and a stale proof of
  the first. Two faults give the deepest failure path of one handler (the save,
  or the candidate's peer, then the restored peer) and any two separate ones.
  Two boots give a reboot after anything; `core_epoch` has four, because a
  latch that was not saved, a replay and its repetition each need one.
  `max_links` 1 under 2 separates the adapter's limit from the core's.
- *RxQueue.* Positions modulo 4 wrap twice in nine frames, and 4 = 2 * Slots is
  the hardest ratio the code's assertion allows.
- *Frames.* Every packet type at every length from nothing to more than its
  layout, versions around each floor, epochs with an equal low byte (7 and 263)
  and 0; the real MTU, 250. The sizes of the layouts are computed from their fields
  and compared with the code's static assertions (`SizesAsGuarded`), and the fields a
  handler reads once a frame has its `MIN_LEN` end within that length
  (`FieldsAsRequired`): both are closed computations, an assumption TLC evaluates.
- *Sessions.* `owner`: two dials with two sessions each and a history of one, so
  that takeovers and forgotten retirements happen; `past`: three sessions of
  a dial and a history of two. The code's eight differs only in how many
  retirements `RetiredStartsRefused` allows before a token is new again.
- *Clocks.* `floor` wraps at 11 with a floor of 2, a heartbeat of 4, a liveness
  of 5 and a loop that may be late: every comparison is met before, at and
  after its limit on both sides of the wrap, and the sentinel 0 is a time. `heads`
  has two dials on a shorter clock. `window` wraps at 12 with windows shorter and longer
  than the confirmation, stalls of 5, and two calls of `pair_start`.
- *Identity and number.* Three contents in a row, two failures, a number modulo 6: a
  return to an earlier firmware, a lost save and a reboot between the two
  stores. 256 changes that bring the number round are out of the bound on
  purpose: then the code does give one number to two contents.
- *Handshake.* `rekey`: one dial, three windows and three attempts, a queue of two,
  so that a third key meets proofs under both former ones. `rivals`: two dials
  between two controllers, one window each, two attempts.
- *Radio.* Five attempts are three here; two failing passes of the loop, one loss
  from outside and one pairing window in any order, or five failing passes alone,
  more than there are attempts.
- *Tables that compact.* Two or three dials over two or three slots: from above
  and from below, the last and not the last, a return to another slot.
- *Room source.* Two Links, one external source, Heat pump and the retired id,
  with power lost before, after and between the writes of the two preferences, in
  either order of them. The v3 pin is followed only as long as `setup` uses it, which
  is until an id is stored.
- *Diagnostics.* Silence wraps at 8 and is negative from 4; a dial lives below 1, and
  the refresh is every 2 seconds, not every walk.
- *Commands.* Only the band, whose two halves share a bit, is here; a single value
  behaves as one half. Three commands, two refusals or foreign changes, and a
  hold that outlasts the quiet time by one.
- *Formats.* The mapping runs over all modes, presets and percentages, setpoints on
  and off the grid, and degrees Fahrenheit at both ends, around the table's gaps and
  beyond it, over entities that each vary one thing: a set of modes, the speeds, a
  range, the vane's options, sixteen positions among them, and the entity's own rounding
  against each `fahrenheit_table`; only the field that is followed is anything but
  what it is after a boot. The report takes commands on the nodes that differ in
  what may be commanded, modes aside, with a mode they have or not, a setpoint and ends of a band
  below their range or none, a humidity at its limit and beyond. INFO has each string at its longest and a
  frame cut by 0 to 17 bytes. The catalog has pages of two and four changes, so
  a page is full, the last is full, and bonds change between pages. Configurations range
  over every combination of lengths up to one past the table. Messages of 0 to 7
  bytes in every cut, blocks of 5, a length of 3 bytes: every residue, with and
  without room for the length. Keys from empty to longer than a block, five
  blocks of output.

Symmetry is declared only over constants the modules treat alike, and never in
`progress`; where a scenario has one dial, the other does not occur in its states,
so nothing is identified. `CHECK_DEADLOCK FALSE` stands only where bounded inputs run out, as
each cfg says.

### Fairness, and why the code justifies it

ESPHome calls `loop()` for ever and time passes; that is all the controller
itself contributes.

| Conjunct | Assumed | Because |
|---|---|---|
| `ImplementsFifo` | WF of a pop | the loop drains the ring on every tick (`serin_link.cpp:1942`); nothing is assumed of the radio |
| `PendingGoesOut` | WF of `Loop` and the clock | the dial may go away at any time; the property is about those that stay |
| `Recovers`, `StaysAwake` | WF of the two halves of loop, SF of the clock | a pass of loop is between two ticks, so the clock is enabled again and again, not all the time. `Recovers` also assumes what re-arms the attempts: Wi-Fi that comes back, and a pairing window that ends |
| `PullIsAnswered` | WF of serving each dial and of the clock | `serve_pulls` runs in each loop; the throttle ends with time |
| `TruthReturns` | WF of loop, clock, the quiet-time timer and the entity | an entity that never answers keeps only what the hold's expiry takes away |
| `CatalogArrives` | WF of ask, serve, receive, INFO | the dial repeats; losses and changes are bounded, as otherwise it could be interrupted for ever |
| `AckLossRecovers` | SF of hearing the ACK, of a proof into a queue with room and of its reception; WF of draining | the air may lose any frame, but not every repetition. The dial gives up at will, which ends the obligation |

Properties are written with `[]<>` and `<>[]`, as what must not last for ever.

### Divergences met

The three runs that expect a violation:

- `core_doc_latch`: src/include/serin_link/sl2_bond.h:28 says of
  SL2_BOND_F_EPOCH: "re-pairing the dial resets it with the rest of the bond".
  pair_commit gives every new bond, a re-pair's too, candidate.flags =
  SL2_BOND_F_EPOCH (sl2_link.c:449-450), so a re-pair sets the latch and never
  resets it. `core_doc_latch` shows a legacy bond replaced by a re-pair with the
  latch set.
- `core_doc_result`: src/include/serin_link/sl2_link.h:246 lists the values of
  sl2_link_pair_result as
  "idle"/"listening"/"confirming"/"paired"/"timeout"/"full"/"pin-mismatch"/"storage-error".
  sl2_link_pair_cancel ends with pair_end(l, "cancelled") (sl2_link.c:343, also
  :434). The run shows the undocumented value after a cancelled window.
- `hvac_doc_mode`: README.md:567-569 says: "Wire input is validated before it
  reaches the entity: ... unknown modes/presets are no-ops", and
  docs/serin-link-wire-spec.md:510-513 that undeclared modes are ignored.
  preset_from_sl2 refuses an unknown preset; mode_from_sl2 maps every unknown
  mode to CLIMATE_MODE_OFF and hvac_apply (500-503) stages it, so a command with
  mode 7..15, which the protocol reserves, turns a running unit off.

Others were met while modelling. The modules model the code as it is: the
properties name the exception, as their comments say, and have no run that
fails.

- sl2_link.c:21: src/include/serin_link/sl2_link.h:207 says of SL2_DIAL_LIVE_MS:
  "Dial-liveness window: STATE flows only to dials that probed within this."
  dial_live_at (sl2_link.c:21-24) compares 32-bit differences and last_probe_ms
  is never cleared when a dial goes away, so a dial silent for 2^32 ms (49.7
  days) is live again for SL2_DIAL_LIVE_MS and STATE flows to it.
- sl2_link.c:319: src/src/sl2_link.c:314-317 says of a pair_start while already
  pairing: "only extend the window". Line 319 sets pair_deadline_ms = now +
  window_ms unconditionally, so a button or action with a shorter window_ms than
  what is left (the schema lets each have its own) ends the window earlier.
- serin_link.cpp:1553:
  src/esphome/components/serin_link/serin_link.cpp:1330-1333 says
  selected_source_id_ "is the ONLY thing persisted: selected_src_ and
  primary_dial_ are projections of it ..., so they cannot drift out of step with
  it or survive a reboot disagreeing with it". room_src_pref_ is persisted too
  (1353), as a blob of its own, and setup (1551-1555) and room_source_reconcile_
  (1407-1409) let its BLE win over the id: if power fails between the writing of
  the two, the id names a Link or an external source and selected_src_ is BLE until
  the next choice or until that source is missing. Such a Link does not feed the heat
  pump; such an external source does, though it reads as BLE. The `adapter` run
  reaches both; `ProjectionAgrees` and `FeedIsSelected` allow them only after such a
  cut (`torn`).
- serin_link.cpp:500: docs/serin-link-wire-spec.md:510-513 says that what CAPS does
  not declare is ignored in a CMD, and README.md:568-570 that input is validated
  before it reaches the entity. hvac_apply stages every mode, the eight presets, a
  band, a humidity up to 100 and every vane code whatever the entity declares
  (500-546), ESPHome drops what it does not support, and until ECHO_HOLD_MS after the
  last command apply_overlay_ (613-662) shows dials what was dropped, a band or a
  humidity from a node without one too. `ReportIsDeclared` and `StateFitsCaps` except
  a field as long as it is masked so, and no longer.
- serin_link.cpp:466: README.md:575-576 says setpoints snap to the 0.5 degree grid "so
  the echo never jumps when the entity stores its own rounding". The snap goes by the
  Fahrenheit table in force, not by the entity's rounding (466-470): an entity that keeps
  half degrees but has a wider range, or `fahrenheit_table: linear`, never confirms a
  setpoint off its grid, and the echo jumps when the overlay expires. `Suits` names the
  configurations for which `DeclaredConfirms` and `DegreesReturn` hold.
- serin_link.cpp:322: CAPS numbers fifteen positions of a vane at most (311), while
  vane_state_code (315-325) reports positions beyond them, which no dial can place.
- sl2_link.c:635: sl2_proto.h:625 lets model and fw be absent from DIAL_INFO. The
  handler copies them from the zero-filled packet all the same (635-638) and sets
  have_info: a short report empties the texts of a longer one, and one cut inside a text
  shows its front. `NothingTorn` excepts the two; `ShownIsLatest` says what remains true.
- sl2_link.c:493: src/src/sl2_link.c:487-488 says of the certificate bytes: "The
  raw bytes are kept even when INVALID so tooling can inspect a rejected cert."
  When sl2_dial_cert_decode refuses them (493-496: wrong length or format),
  dial_cert_apply returns before the memcpy, and sl2_link_dial_cert gives out
  the bytes of an earlier certificate, or zeros, as the rejected one.
- serin_link.cpp:1684:
  src/esphome/components/serin_link/serin_link.cpp:1668-1670 says: "Fingerprint
  the current content and bump the seq once whenever it differs from the last
  announced one, so every dial re-pulls". caps_seq is committed to NVS at once
  (sl2_link_caps_changed, p_kv_set), the fingerprint is an ESPHome preference
  that reaches flash later. Firmware B announces number 1, a dial caches B's
  content, power is lost before the preference is written, and firmware A is put
  back: the fingerprint still matches A, number 1 is announced for A's content,
  and the dial keeps B's.
- sl2_link.c:855: README.md:493 says: "Both ends generate a per-unit Ed25519
  identity on first boot". sl2_link_start makes a new key pair whenever kv_get
  returns false, and p_kv_get returns false for any NVS error as for an absent
  key, so one failed read replaces the identity every bonded dial has pinned.
- serin_link.cpp:1146: serin_link.cpp:1179-1181 says of a slot whose occupant
  changed: "the reading on display belongs to the OLD occupant. Retract it", and
  1040-1046 that an edit-only frame must not re-label the arbitrated entity.
  feed_sensor_row_ (1134-1146) stores the new occupant's address for any frame
  and returns for one without a temperature, keeping temp_cc, temp_ms and what
  is shown; check_sensor_rows_ then finds row and slot in agreement and shows
  the old dial's temperature until it expires.
- serin_link.cpp:1169: serin_link.cpp:1135-1137 says of a new occupant: "drop
  the previous occupant's humidity before this frame's fields apply (independent
  NA sentinels — same leak the arbitrated pair guards)". The row's hum_cc is
  dropped, the entity is not: publish_sensor_row_ (1166-1169) publishes no
  humidity when hum_cc is NA, so a frame with a temperature and none, arriving
  before the check, leaves the former occupant's humidity on display for as long
  as the new one reports. The arbitrated pair retracts it first
  (reset_dial_reading_, 1081-1084).
- serin_link.cpp:620: README.md:583-587 says an overlay "masks each field until
  the entity publishes it back", so "async platforms like CN105 can't snap the
  Serin Link back with a stale echo mid-adjustment". A dial commands 22 while
  the entity has 21, the call goes out, and before the entity reports it the
  dial commands 21 again: the stale report 21 equals hold_ and clears the
  overlay bit (620-655), the entity then reports 22 from the first call, and the
  dials are shown 22 until the second call is carried out.
- serin_link.cpp:509: serin_link.h:258-259 says "a burst of detent edits merges
  into hold_ (latest wins) and one ClimateCall goes out", and README.md:580-581
  that a burst "merges into one ClimateCall". A TEMP_BAND command may carry one
  bound and SL2_DC_NA for the other (508-512 and apply_pending_ treat NA as
  'leave alone'), but hvac_apply stores the NA over a bound an earlier command
  of the burst staged, so that bound is neither sent nor shown.
- serin_link.cpp:2049: serin_link.cpp:2046-2048 says "lit iff the Link is
  reporting AND says so — an empty slot or a Link that stopped reporting reads
  off". Line 2049 looks at screen_valid and screen_on, which only a DIAL_SENSOR
  of that dial changes (sl2_link.c:586-587), and not at live: a dial that falls
  silent with its screen lit keeps the entity on for as long as it is bonded and
  the controller runs.
- serin_link.cpp:2038: serin_link.cpp:2046-2048 speaks of "the row family's
  ""/off/NAN convention for absent slots". MAC, firmware and linked follow it at
  the next walk; last_seen is published on a liveness edge or after 60 s
  (2035-2041), and forgetting a dial that is not live is no edge: for up to a
  minute the row shows no MAC and the number of the dial that left.
- serin_link.cpp:2023: serin_link.cpp:1968-1969 repeats last_seen every 60 s "so
  an ongoing outage's duration stays visible". sl2_link.c:980 casts the
  difference of 32-bit stamps to int32_t: after 2^31 ms (24.8 days) it is
  negative, line 2023 takes that for 'never' and the entity turns unknown, for
  as long again.
- __init__.py:1023: __init__.py:1020-1022 says link_devices: alone implies the
  slot count, "pairing past it is refused, so no Link can bond without a row in
  Home Assistant". The schema (552) and _expand_max_links (718-726) accept an
  empty list, which gives a count of 0: no rows are generated, set_max_links(0)
  means 'unset' in the component (serin_link.h:144-145), and up to four Links
  bond.
- __init__.py:837: __init__.py:119-120 says the label limit "Must match
  SL2_ROOM_SOURCE_NAME_LEN - 1 in sl2_proto.h". That is 23 bytes; cv.Length
  (231) and len(label) (837) count characters, of which one may take up to four
  bytes in UTF-8. room_catalog_entry_ (serin_link.cpp:1289) cuts the label at 23
  bytes: labels the configuration accepts as distinct are cut to the same text,
  perhaps inside a character, and a dial shows two entries alike.
- __init__.py:481: README.md:396-397 says of the night switch: "a controller
  reboot loses the gate (switch restores OFF) until next sunset/sunrise". Its
  schema's default is RESTORE_DEFAULT_OFF (__init__.py:481), by which ESPHome
  restores the stored state and takes OFF only when none is stored, as
  serin_link.h:508-513 applies it and test_adapter_switch_restore.cpp:53-60
  expects. A restart may leave the gate on; what the README's advice guards
  against is then also a gate that is stale, not only one that is lost.

## 5. What is proved

TLAPS checks the theorems for every value of the constants: any sets of dials,
identities and ephemerals, any table size, ring, history or block, any number of
windows, attempts and faults. The run of a property shows it on a small instance.

| Module | Theorems | Of |
|---|---|---|
| `SerinCore_proofs` | `TypeCorrect`, `TableIsDurable`, `OneSlotAlways`, `PairingAlwaysCoherent`, `ReplaysAreRefused`, `PinsHold`, `RadioIsInTune`, `AcksAreDurable`, `ForgettingIsFinal`, `OnlyCandidates`, `SlotsKeepOrder`, `CoreImplementsRegistry` | the core's types, `DurableTable`, `OneSlotPerDial`, `PairingCoherent`, `ReplayGuard`, `PinnedUntilForgotten`, `RadioMatchesBonds`, `AckedKeyIsDurable`, `ForgetIsFinal`, `OnlyCandidatesCommit`, `SlotOrderKept`, the refinement `ImplementsRegistry` |
| `RxQueue_proofs` | `TypesAreKept`, `SlotsAreNotShared`, `RingNeverOverfull`, `RingIsAQueue` | `TypeOK`, `SlotHasOneUser`, `NeverOverfull`, the safety part of `ImplementsFifo` |
| `PairHandshake_proofs` | `KeysAgreeAcrossAir`, `HandshakeTypes` | `CommittedIsDerived`, `OneWinner`, `AckedIsCommitted`, `EndsAgree`; `TypeOK` |
| `WifiSetup_proofs` | `OwnersAreServed`, `RetiredStayRefused`, `CancelsTouchTheirOwn`, `VerdictsAreTrue`, `SessionTypes` | `QueueIsOwners`, `RetiredStartsRefused`, `CancelTouchesOwnWindow`, `VerdictIsTrue`; `TypeOK` |
| `PullService_proofs` | `ChoicesReachTheOthers`, `GenuineIsAlwaysOwn`, `PullTypes` | `KnowsOrMayPull`, `GenuineIsOwn`; `TypeOK` |
| `Controller_proofs` | `SetupsKeepApart`, `KeysAlwaysAgree`, `PullsAreTrue`, `HeadsStayCurrent`, `PairingStaysTimely`, `NumbersOutliveBoots`, `FramesStayWhole` | `SessionsKeepApart`, `KeysAgree`, `PullsTellTheTruth`, `HeadsAreCurrent`, `PairingIsTimely`, `NumbersSurviveBoots`, `FramesAreReadWhole` |
| `Adapter_proofs` | `RadioIsKept`, `GatesAreKept`, `LastCommandIsKept`, `ForgetsAreKept`, `RowsAreKept`, `SelectionIsKept`, `FeedsAreTheSelected` | `RadioIsLookedAfter`, `GatesEndure`, `LastCommandCounts`, `ForgetsHitTheirLink`, `RowsShowTheirDial`, `SelectionIsShown`, `SelectionHolds` |
| `Formats_proofs` | `StreamAlwaysRight`, `KeysAreStandard`, `CatalogsAreOfOneMoment`, `BuildsAlwaysFit` | `StreamIsRight`, `AsTheStandards`, `CatalogIsOfOneMoment`, `BuildsFit` |

With these, every property that the runs of `SerinCore`, `controller` and `adapter`
check is a theorem, of `RxQueue` all but the liveness of delivery, and of `formats`
four of six.

### The core

`Coherent` joins the types, durability, uniqueness of slots and the coherence of
pairing, because they support each other: a commit fits the table because the
candidate was admitted while there was room, and it is the same table because RAM
is what is stored. On it rest:

- `ReplaysAreRefused`. It needs `ProvenIsLatched`: a stored bond of a dial that has
  proven it echoes epochs carries the latch. Every table that a handler saves keeps
  that (`ProposalsLatched`), also when power fails between the save and the rest.
- `PinsHold`: every bond of a saved table is an old bond, perhaps latched, or the
  candidate, which was admitted with the pinned identity (`ProposalEntries`).
- `RadioIsInTune`, inductive together with `Coherent`: giving up a candidate puts
  the bond's key back or none (`CleanupRadio`), and adding peers in slot order, up
  to the one the driver refuses, gives each dial its own key because no dial has two
  slots (`InstalledFacts`).
- `AcksAreDurable` and `ForgettingIsFinal` are about one step, and need `Coherent` and
  the radio before it: only then is what RAM and radio hold after a commit or a
  forget what the store holds, and is a bond that was not removed not one that
  comes back.
- `OnlyCandidates` needs `AdmissionHolds`: a new dial in confirmation was admitted
  with a link to spare, and nothing has been added since. `SlotsKeepOrder` follows
  from the three ways in which a table changes.
- `CoreImplementsRegistry`: the initial state maps to the registry's, and each step
  to bonding, forgetting, clearing, a boot or a loss of power, or to none
  (`RegistryInv` is the invariant used). A save that succeeds before power is lost
  maps to the registry's durable step, which is why the registry separates what is
  stored from what is served.

A handler's effect on the table is summed up once (`TableStep`: the table is kept,
a proposal is saved and published, or power is lost in between), so invariants over
tables have three cases instead of twenty.

### The ring

Lemmas about remainders give the distance of two positions through a wrap, and the
slot of a position beside the end of the ring; this needs the width of the positions to
be a multiple of the number of slots, as 2^32 is. The invariant: a task at work knows what
it looked up when it began, for the other one can only have made it more true
(`Claims`); what came out, what waits and what is being pushed is no more than what
arrived (`Accounted`); the halves of a frame copied so far agree with their source
(`Copied`). The waiting frames then are the abstract queue, and each step is one of
`BoundedFifo` or none.

### The handshake

The four promises follow from `Agreement`, which says what attempts and windows are
worth in each phase of the two ends:

- an attempt gives one key and a window one commit (`AttemptsAreUsedOnce`,
  `WindowsAreUsedOnce`), and later attempts are not answered in earlier windows
  (`InOrder`), so an offer that lay in the air is never taken for a new one;
- a bond at either end was committed, and what was committed was derived
  (`BondsAreCommitted`);
- the candidate of a confirmation, once its key is derived, is what its dial is
  proving (`CandidateIsAwaited`), and a committed key a dial is still proving is the
  controller's bond (`ProvenIsBond`), unless an end gave up or forgot the other:
  without these two a repeated commit or a late ACK could part ends that nobody parted
  (`EndsMeet`).

`FramesAreReal` says that each frame in the air or in a queue is one somebody had
reason to send. The proof has a lemma for what each kind of step does to one end,
one for what that means for `Agreement`, and one per action. The same promises are
the group `KeysAgree` of the run `controller`, there in two scenarios.

### The setup session

The invariant has three parts. A request that waits is the owner's, whose session is
neither cancelled nor in the history (`Queued`). An owner that may still ask the
adapter to close is the one whose window is open (`Opened`). The ring holds the
latest retirements in order, each slot's successors retired after it, and a token
that is not in the ring was never retired or has seen as many others retire as there
are slots (`InTurn`): when a slot is overwritten the ring is full of sessions younger than
its own, which are as many as the ring has slots. It is stated over values, because a
handler first observes that the AP has closed and then goes on with what that left.

### The hash and the key derivation

Every byte of a message is compressed, buffered or still to be copied, once and in
order (`NothingLost`), and what a finished context has compressed is the message, its
padding and its length (`DigestOfMessage`). With them are inductive: the types (the
buffer never holds a whole block between two copies) and `LengthKnown` (the counter
is the length of what was taken from the message).

`AsTheStandards` has two parts. The padding (`WholeBlocks`) is the fewest zeros that end
a block: what is compressed is whole blocks at every moment (`PadInv`), and two numbers of zeros below a block that both end one are equal, since remainders are
unique (`RemainderUnique`, `FewestZeros`). The expansion (`KeysInv`) has written the
front of RFC 5869's output: the reference is a recursive function of the number of
blocks, which `RfcUnfolds` takes apart by `Induction`, a lemma that comes from a least
counterexample, because the library's induction is about operators, which the provers
cannot instantiate. In proving it the assumption on the counter's limit turned out too
weak: the counter starts at one, which a limit of one does not hold, so the limit is at
least two.

### The pulls

What may be pulled or is still to be sent covers every dial that was not told of the
last choice, and a certificate counts as genuine only after it was assessed as the
dial's own. Both need `FreeSlotsAreBlank`: a dial that is not bonded has nothing
pending and no assessed certificate, so a bond made later starts from nothing.

### The services of the controller

A behaviour of a composition is one service in its scenario, so the invariant of a
composition is, for each service, `scenario = ... => ` its own invariant
(`WifiIsSound`, `HandsAreSound`, `PullsAreSound`, `FanIsSound`, `WindowIsSound`,
`CapsIsSound`, `FramesAreSound`). Sessions, handshake and pulls are instances of their
modules of theorems, whose lemmas are cited; that an instance of the theorems speaks
about the instance of the specification is a lemma of its own (`OwnerIsProved` and
its like). The lemmas about the fan-out, the deadlines and the capability number are
about `Fan(x)`, `Window(x)` and `Caps(x)` for every `x` that satisfies their assumption:

- *Fan-out* (`FanInv`). With `FreshOrPending` goes `StampsAreTrue`: as long as a dial
  that is live has been quiet for less than the minimum interval, the difference to
  the stamp of its last STATE is the true time since, also across the wrap. Only so
  does the comparison of stamps in `sl2_link_loop` mean what `RateFloor` says.
- *Deadlines* (`WindowInv`). Each deadline agrees with what is left of it
  (`AgreesWith`): it lies ahead by just that, or has been reached, and then not for
  longer than the loop has been away. A stamp half the word ahead would count as
  past, so windows, confirmation and stalls are below half the word.
- *Identity and number* (`CapsInv`). Unless a write was lost, the stored number has
  grown by no more than the changes of contents (`NumbersCount`), and a dial that holds
  the stored number holds the fingerprinted content (`NoneReused`). Fewer contents
  than numbers is an assumption (`MaxContents`): after a full turn the code does use
  a number twice.
- *Frames* (`FramesInv`). The offsets of the fields and the lengths the handler tests
  for are numbers: TLC computes `LayoutAssumption` once, and the proof reads what it
  needs from there (`FieldsAsRequired`). That an accepted frame holds its fields whole,
  that it brought its echo, and that no released dial is refused, is then a case
  per packet type over any version, length, epoch and latch.

### The services of the adapter

Each service has an inductive invariant over its own variables, for any values of the
constants of `Adapter`:

- *Radio* (`RadioInv`). A callback that is lost while the radio is up and set up is
  marked for another registration, or the driver's own event that does so is waiting
  (`Known`); the attempts of a burst are counted in `attempts_`, which is 0 when no
  repair is pending (`BurstCounted`).
- *Gates* (`GatesInv`). What a restart would find, and what is set, is what a gate may be;
  only a change waits to be written (`Restorable`). A state that nobody asked for is
  neither set, nor waiting, nor what a restart gives (`Unasked`).
- *Commands* (`BandInv`). A value that was sent and not superseded is in flight, in
  force, or was overruled by someone else (`Sent`); nothing but the last value of a part
  is shown, reported or under way unless someone interfered (`OnlyLatest`); and a part
  that is in some call in flight is in a last one (`HasLast`).
- *Automations* (`LinkInv`). The table is ordered by age (`InOrder`), so what moves into
  a slot after a forget is younger than what was seen there (`SeenInTime`); a list
  that goes from the highest slot down finds each dial where it was seen
  (`StillThere`).
- *Rows and diagnostics* (`RowsInv`, `DiagInv`). A row's cache and what is shown fit each
  other and name one occupant (`RowFits`, `Cached`); after a check or walk this is the
  dial in the slot. How a table compacts is one lemma (`HoleFacts`).
- *Room source* (`RoomInv`). Once started, the projections follow the id (`Follows`) and
  the choice is in the catalog or was missing from it (`AtRest`). Before that a pin
  restored from an older preference may stand beside the id, but nothing that can feed
  the pump (`Hears`). What is displayed is fresh and of a Link that may be selected
  (`Shows`), and a stored BLE has no source beside it (`Fits`) unless power failed between
  the writes of the two preferences, in this boot's past or in what the next one would
  find (`torn`).

### The catalog and the configuration

The parts of `Formats` are services of a composition too; each has its own invariant:

- *Catalog* (`CatalogInv`). An answer is a page of some table there was; what a dial has
  staged is the front of one table's catalog, up to its cursor, and what it shows is the
  whole of one (`Begun`, `ListIsACatalog`). Pages of different tables are never joined,
  because the entries depend on a table only by the ids of which the revision consists
  (`RevisionTells`); a page goes on where the cursor is, with one entry at least
  (`PageContinues`), so an empty one lies past the end of a catalog that became shorter.
  The revision stands for the ids themselves: that the 32-bit hash of two tables never
  collides is assumed by the model, not proved.
- *Slots* (`SlotsInv`). What has validated has lists of rows that fit the table and agree
  with the slots stated (`Validated`); what is built of it has a row per Link it may bond
  and a dropdown sized for them (`Sized`). In proving this, `SlotCount` turned out to
  have overlapping arms of a CASE, of which TLC takes the first and TLA+ any; it is a
  nested IF now, in the order of the code.
- *Sources* (`SourcesInv`). What has validated has labels with different hashes and
  units that are known, and `CORE.data` holds those of its sensors that are in
  Fahrenheit (`Buildable`), also when one configuration is validated after another; the
  component built of it has different ids (`Component`), so the first match of an id is
  the source chosen.

### Assumptions, and what is left to the model checker

The theorems assume what the modules assume of their constants: `ConstantsAssumption`
of each (types; marks such as `None` or `NoOwner` that are not values; at least one
slot, boot or place in a history; intervals in their order), `InstancesAssumption` of
the compositions, `SizesAssumption` of `RxQueue`, `FramesAssumption` and
`LayoutAssumption` of the wire format. The runs evaluate all of them for their
instances. Four are there for the provers rather than for the code, and true of it:
`MaxBackoff` of `Transport`, a power of two, is a natural number; the marks of
`Diagnostics` are not integers; dials and external sources of `RoomSource` are finitely
many; the versions and epochs of frames are natural numbers.

In `controller` the numbers of dials, sessions and controllers of each scenario are part of
the module; the theorems of the parts hold for any, and so do the lemmas about `Fan(x)`,
`Window(x)` and `Caps(x)`, but for one dial in the last.

Only model-checked:

- liveness, which is out of the prover's reach: that the ring delivers
  (`ImplementsFifo`), and the four properties of `progress`;
- `ReportsComeBack`: fan speeds and vanes are selections from sequences (`SelectSeq`)
  and minima over tables, which the provers cannot compute for every table;
- `InfoIsWhole`: the sender folds over the TLVs, and the receiver walks over what that
  made: induction over data.

## 6. Not modelled, and the plan

Left out:

- Monocypher: vendored; its arithmetic is beyond a model checker. Keys, proofs and
  signatures are symbolic.
- The compression function of SHA-256, and the curve operations of key derivation.
- The bond blob: format byte, count and a copy; taken as lossless, with read errors
  as described above.
- Checks of the configuration that look at one key only (`espnow:`, `eap:`, removed
  keys), and the registration of entities that only pass a value on.
- Formatting, logging and the HTTP side of the setup access point.
- The copies of the core and its headers under `src/esphome/components/serin_link/`,
  which differ in include paths only: the originals are mapped.

What could be done next:

1. `PairHandshake` as a refinement of `SerinCore`'s establishment of keys, so that the
   two models of pairing are one argument.
2. Fan speeds and vanes of `HvacMapping` as functions of the option instead of selected
   sequences, so that its promises come into the provers' reach.
