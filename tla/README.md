# Aurora: a TLA+ verification of the audio stack

Aurora is a modular immersive-audio stack in Rust: a real-time core that
carries audio between device callbacks, renderers and DSP, network transports to
detachable loudspeaker modules, and a control plane that decides what plays
where. This directory holds TLA+ models of these parts, TLC configurations that
check them on small instances, and TLAPS proofs of most of the checked safety
properties for every size. The models are translated from the source; `PROJECT.json` maps
each definition to the lines it stands for.

## 1. The system

```
  documents ──> configuration ──> runtime plan, setup plan ──> report
                                        │
  plugins, sources ──> live decode ─────┤
                                        ▼
  input callback ──> sample ring ──> engine: renderer, delay, DSP ──> output callback
       │        (adaptive or slip bridge)                                │
       └── status atomics ──> control thread: state machine, restarts    │
                                                                         ▼
                         block pool + metadata queue ──> network worker ──> fan-out
                                                                         │
                                         one transport per module: simulated, GenAVB, ESP, AOO
                                                                         ▼
  inventory, intent ──> fabric planner ──> handover commands ──> detachable endpoint, firmware
```

### Inventory

| Component | State | Operations | What makes it hard | What makes it correct |
| --- | --- | --- | --- | --- |
| Sample ring, `transport.rs` | cells, `head`, `tail` (free-running words) | push, pop, peek, discard | two threads, `UnsafeCell`, index wrap | disjoint accesses; a FIFO |
| Adaptive bridge, `duplex.rs`, `drift_controller.rs`, `estimator.rs` | ring, status atomics, clock epoch, estimator, output cache | push, read, mark a discontinuity | three threads on relaxed atomics | frames accounted, no stale feed-forward, final latch |
| Slip bridge, `duplex.rs`, `drift.rs` | fill, compensator, last frame, health | push, read with insertion or removal | fill is read before it is used | frames lost only by counted slips |
| Network block bridge, `network_bridge.rs` | PCM slots, metadata queue, timestamps, sequence | push, pop, submit, reset | two queues kept in step by access order | lockstep, right audio for each time, visible gaps |
| Duplex state machine, `device_state.rs` | state, fault, attempts | ten events, backoff | flapping devices | bounded, delayed recovery; history kept |
| Live duplex command, `realtime_commands.rs` | control thread, two streams, terminal fault | start, prefill, poll, stop, restart | faults between any two reads | no refused event, honest report, termination |
| Real-time engine, `aurora-realtime-engine/src/lib.rs` | delay lines, media position, metrics, histogram | process a callback of any length | a fault in the middle of a callback | no frame twice; exact percentile |
| Output DSP, `output.rs` | two rings, gains, limiter | frame, delay change, reset | delay changes and bad frames meet a cross-fade | exact delays, image kept |
| Device selection, CPAL streams | device list, selector, stream | resolve, open, reopen | devices come and go | the same device, or none |
| Real-time command and acceptance | counters, histogram | run, stop, judge | last callback races the final read | an accepted run kept its limit |
| Device simulation, `aurora-realtime-audio-sim` | two clocks, script, one recovery slot | callback, fault, recovery | overlapping faults share one slot | every fault ends |
| Assurance campaigns | ordinals, digests, report files | run a shard, repeat, write | killed between two files | verdict of all repeats of all ordinals |
| Offline rendering, CamillaDSP | WAV files, child process, temp directory | render, process, poll, time out | three channel orders; a child that outlives its time | DSP on its own speaker; final answer |
| AuroraOS daemon | documents, published plan, health | poll | torn documents, crash between two files | whole documents, health of the plan |
| Speaker fabric, `aurora-modular-speaker-fabric` | inventory, intent, plan | observe, ask, plan, route | a plan outlives its facts | plan fits the inventory and can be deployed |
| Handover, ESP firmware gate | commands, epochs, phases, deadline timer | build, compile, apply, fire | lost writes, reboots, clock loss, a second task | one topology, open on the deadline |
| Detachable endpoint, `endpoint.rs` | phase, epoch, routes, mute, telemetry | Mute, Prepare, Arm, Commit, Stop, telemetry, media frame | late, lost, duplicated, reordered commands | fails closed; audible in sync and on time |
| Module transport set; ESP set | lifecycle, timeline, transports | prepare, start, submit, stop, reset | one route of several failing | all or nothing, same blocks everywhere |
| AVDECC session and GenAVB runtime | control handle, cache, slots, talkers | connect, disconnect, prepare, start, close | indications cross; cache and session differ | transmits what is connected |
| GenAVB native shim, `aurora_genavb_shim.c` | shared library handle, its users, clock, latency, presentation anchor | create, prepare, start, send, stop, destroy, AVDECC open and close | handles of several threads share one runtime under a mutex that is let go between calls | library as long as its users; one clock, latency and timeline |
| AOO adapter and native handle, `aurora_aoo_shim.c` | process-wide flag, library, timeline, events; client, source, socket threads | load, prepare, start, submit, stop, drop | two threads load and close; a preparation fails half way | one library at a time; no socket thread outlives its client |
| Source manager | sessions with generations | register, prepare, activate, fail, transport | late commands of old generations | only the active session is heard |
| Plugin registry | package slots, snapshot | stage, commit, discard, roll back, restore | restart by another host | restorable, permanent identities |
| Live immersive decode | gate, decoder, counters | packet, discontinuity, recover | several ways back from a fault | inaudible before a stable acquisition |
| Configuration, assembly, inspection | documents, plans, report | validate, migrate, materialise, prepare, redact | many documents, presets in graphs | one-to-one routes, stable plans, no leaks |
| VBAP (plane and space), basic panners | layout, cached topology, smoothing | configure, prepare, render | doubled, disabled, missing speakers; cached topology | right speakers, right slots |
| Head-tracked HRTF | clock mapping, poses, candidate, cross-fade | sample, prepare, commit, release, cancel | late and repeated poses, one-time boundary | what is committed was fresh there |
| libspatialaudio adapter | plan, scene, native handle, queued objects | select, bind, load, render, drop | any native call fails | roles kept, no stale samples, no call after close |
| Diagnostics, `aurora-diagnostics` | bounded event log behind a mutex, atomic counters | append, read, record, take a snapshot, validate | recorders and snapshot interleave counter by counter; a poisoned lock | newest events kept, the others counted; a snapshot between two real states |
| Latency measurement, decoders, tools | reports | one pass | floating point, I/O | tested in their crates |

Callbacks and control threads share only atomics and lock-free queues
(`docs/threading-model.md`); the network worker owns its transports;
endpoints, firmware and controller share nothing but messages; the setup thread
owns documents and plans. That decides the granularity of the actions: one
shared access in the ring, the bridges and the live session; one method where
one thread owns the object; one file operation in the daemon; one command or
report in an endpoint; one native call in the AOO load and preparation; one
critical section of the mutex in the GenAVB shim.

## 2. Modules

A definition introduced by `Mutant:` is a deliberately wrong version of its
neighbour: it documents a mistake that a property catches, and no specification
uses it.

**SampleFifo, SpscRing.** `SampleFifo` is the promise: an atomic bounded FIFO.
`SpscRing` is `SpscSampleRing`: `slots`, `head`, `tail` are the fields, `prod`
and `cons` the calls in progress. A call is a begin step (index loads and length
check), one step per cell and a finish step (the release store). `Wrap` is the
machine word. The acquire/release pairs are expressed by the interleaving; the
code uses no weaker order on these indices.

**AdaptiveDuplex, SlipDuplex.** Producer, consumer and control thread of the two
duplex bridges; each action is one access to the shared atomics. The ring is its
number of frames, since `SpscRing` shows that it is a FIFO. In the adaptive
bridge a feed-forward is named by the epoch it was measured in, the PI
arithmetic is a choice between a ratio and a saturation fault, and the resampler
is a number of needed frames that may be refused. In the slip bridge a push is
three steps (the look at the room, the push, the count of what was rejected with
the look at the fill) and a read is three (look and decision, rendering, second
look), so that a correction is decided on a fill that is stale when it is
applied, and an overflow is counted after the consumer has made room again.

**NetworkBridge.** `try_push` is four steps (checks, slot write, `head` store,
metadata push), `try_submit_one` four more. The metadata `ArrayQueue` is an
atomic bounded queue. The audio of a block is named by the time it was rendered
for. `broken` records the two outcomes the code calls impossible.

**DuplexState, LiveDuplex, MCLiveDuplex.** `DuplexState` is the transition
table as relations. Two control threads drive it: `run_duplex` with the CPAL
streams, error callbacks and audio callbacks (`LiveDuplex`), and the reconnecting
control plane of `faulted_wall_clock_soak.rs`, which is short and stands in
`MCLiveDuplex` beside the specification that composes the two. A poll is two
steps, because the bridge's snapshot is read before the streams' faults.
`SimulationAssurance` drives the same table.

**Endpoint.** All commands, telemetry handlers and the media clock of
`DetachableEndpoint`. `issued` is the controller: handover *e* is `issued[e]`, and
each of its commands may arrive whenever and as often as it likes, which makes
delay, loss, duplication and reordering the same thing. A refused command is a
stutter. `MaxFrame` stands for every frame after the last start frame. The small
instance of its run is the last section of the module.

**SpeakerFabric, EspHandover.** `SpeakerFabric` is the
session and planner with the preset intents, the network routes and the
fan-out's admission, and the `EndpointHandoverState` of the same crate over an
unreliable channel. `EspHandover` takes admitted plans through
`build_handover_plan`, the envelopes and the AEM writes into the firmware's
control state machine and its deadline gate.
The sender of the AEM writes is not in the repository: it is assumed to send in
order, one write at a time, to repeat a write whose answer was lost and
otherwise to give the handover up. `Preempt` lets a command overtake the timer's
callback between its checks and its effect; the passing run takes the callback
as atomic, and `fabric_race` shows what happens when it is not. `callback[m]` is
the deadline that the callback has checked, so that `OpensOnDeadline` can say
of an overtaken callback too which window it opens in.

**TransportSet, AvbRuntime, GenAvbShim, AooRuntime.** `TransportSet` is
`ModuleNetworkTransportSet` over the simulated and the GenAVB transport; `bad` is
the set of routes whose native calls fail during one method. `EspAvbTransportSet`
composes the same actions, so it is a short part of `MCTransportSet` over an
instance of that module. `AvbRuntime` is the AVDECC control handle with its
cache, the session that counts its connected slots, and the talkers.
`GenAvbShim` is the C code below the talkers: a handle takes the mutex, joins or
initialises the library, lets the mutex go, opens its stream and registers it;
the library is named by the number of its initialisation, so that a stream of one
that was shut down is visible. `AooRuntime` is loading, using and dropping under
the process-wide flag, with the native handle's preparation and clean-up one
native call at a time.

**PluginRegistry, SourceSession, LiveDecode.** Package slots with the digest
remembered for each version, and snapshots restored by a host with another API;
sessions as pairs of source and generation, and the chunk released with them;
the acquisition gate over a decoder that may fail or panic in every call.

**Configuration, RuntimeAssembly.** `Configuration` holds
validation, normalisation, both schemas, migrations, presets and redaction as
operators on documents; `RuntimeAssembly` the derivation of the plans and of
the report and the control thread that uses them. Strings are
classes (good, blank, too long; local, marker, public).

**OsDaemon, AudioDevices, Diagnostics.** The daemon's poll, one file operation at
a time, over documents that are absent, torn, admissible or not. Both
backends' device lists, the selectors made from them and the streams opened
with them, while devices come and go. The event log, owned or shared behind a
mutex that a panic poisons, and the real-time counters, of which a recorder
updates one atomic at a time while a snapshot reads them one at a time.

**RealtimeEngine, OutputDsp, RealtimeCommand, SimulationAssurance,
OfflineAudio.** The programs on the host. A sample is the
position of the frame it comes from, so a frame that is repeated, lost or
late is visible; a channel of an offline file is its label and the role of the
speaker whose gain it has, two things that part after a disabled speaker
(section 5, note o); a digest is the sequence of what was hashed.

**Vbap, BasicPanning, HeadPoseHrtf, SpatialAdapter.** The renderers
without their arithmetic: directions are exact (multiples of a fraction of the
circle, or integer vectors), so that the signs the code decides on are exact; a
gain is what it is computed from, and a smoothed gain the set of targets it is a
mixture of, for each object and speaker.

The `MC...` modules instantiate these for TLC. Where a run covers several
components that share no state, `focus` names the one that moves in a
behaviour: interleaving independent components would multiply states and show
nothing. Each component is still checked with all of its own threads, messages
and faults. The MC modules that proofs extend (`MCBridges`, `MCLiveDuplex`,
`MCTransportSet`, `MCFabric`, `MCControlPlane`) keep their sizes and sets as constants, so that the
theorems are about every value of them and only the `.cfg` is small. A
`\E x \in {e}` around an action is there for TLC, which then evaluates `e` once.

## 3. Runs

| Run | Components and bounds | Shows |
| --- | --- | --- |
| `bridges` | ring: 3 cells, modulus 6, blocks of 1 or 2; adaptive: ring of 3, 6 frames, 4 reads, 1 mark; slip: ring of 6, 8 frames | `RingSafe`, `ImplementsFifo`, `AdaptiveSound`, `LatchIsFinal`, `SlipsAccounted` |
| `network_bridge` | 2 blocks, sequence modulo 3, 6 times, 2 resets | `BridgeSafe`, `GapsVisible`, `Drains` |
| `live_duplex` | 2 polls, 1 restart, 3 kinds of fault; recovery with 5 attempts, backoff 1 to 8 | `LiveSound`, `FaultStopsBoth`, `LiveEnds`, `RecoverySound`, `Reconnects` |
| `endpoint` | 2 handovers, 3 routes, frames 0 to 3, 5 sync and 3 power reports, one dock | `EndpointSafe`, `StepsSafe`, `CommittedResolves` |
| `transport_set` | 4 routes of alternating kinds, queue 2, 7 times; 2 AVB streams; shim with 2 talkers and the control handle, 2 clocks, 2 latencies, 2 initialisations; 2 AOO threads, 3 events; 2 ESP pairs | `SetSafe`, `NoGapHeard`, `AvbSound`, `LinksSound` |
| `fabric` | 2 modules in 8 conditions, all preset and 6 other intents; 3 handovers of 6 plans, time to 5; contract with 3 epochs | `FabricFailsClosed`, `PlansCoherent`, `OpensOnDeadline` |
| `control_plane` | one plugin in 2 versions and 2 builds, 2 hosts; 2 sources in 2 generations; decode with every frame of 2 channels; several thousand documents and preset graphs; daemon with 1 module and 2 polls; lists of up to 3 devices and virtual profiles; log of 2 with 3 appends; 2 recorders, 2 recordings | `RegistrySound`, `SessionsSound`, `ReleasedOnlyActive`, `SetupSound`, `DaemonSound`, `StableSelectorKept`, `DiagnosticsSound` |
| `audio_host` | six programs, each with the bounds given in `MCAudioHost` | `SamplesInPlace`, `AcceptedKeptBudget`, `DspOnItsRole`, `SimulationSound`, `AnswerIsFinal` |
| `rendering` | 7 spatial, 8 horizontal and 6 basic layouts, up to 2 basic objects over 3 smoothings; 3 poses at 4 times; an adapter over 3 blocks | `HullSound`, `PlaneSound`, `PannersSound`, `BoundaryPoseFresh`, `AdapterSound` |
| `fabric_race` | the fabric with `Preempt` | violated `OpenOnlyCommitted`: finding 1 |
| `daemon_stale_plan` | 2 modules, 2 polls | violated `FailsClosed`: finding 2 |
| `health_gate` | 4 buckets, limit of the whole budget | violated `AcceptedKeptBudget`: finding 3 |

Each property is stated in a comment at its definition; where a property is a
conjunction (`...Sound`, `...Safe`), its parts are named there and defined, with
the sentence of the repository they come from, in the component's module.

Why the bounds are enough:

- *ring*: capacity 3 with blocks of 2 gives calls that wrap around the cells,
  calls that do not fit and both threads inside a call; indices wrap constantly.
  The proofs remove the bound.
- *bridges*: pushes of 2 into 3 overflow, reads of 3 need several refills of 2
  and underflow, two windows make an estimate trusted and a mark or an overflow
  then ends its epoch. In the slip bridge every correction, every health level
  and both limits are met, with each step of a push between the steps of a read. Callbacks are counted; `BoundReached` is the host that
  calls no more.
- *network bridge*: one block in the pool while another is in the worker's
  hands; the sequence wraps while times run on; two resets give a block of an
  old timeline in the worker's hands.
- *live duplex*: a fault before, between and after polls needs two polls, a
  restart that fails again one restart. One unit of time is the initial
  backoff; the clamp is one doubling lower than in the code, so that an attempt
  meets it.
- *endpoint*: a replay needs an older and a newer handover; early, exact and
  missed starts need a frame on each side of a start frame.
- *transports*: for each kind of failing route there are routes of both kinds
  before and after it, and the queue fills; two streams may cross, share an
  address or an identity; a load may meet another thread's drop at each step; in
  the shim the last user leaves while another arrives, and a second
  initialisation tells a stale stream from a current one.
- *fabric*: two modules are what it takes to hear two topologies; three
  handovers allow an abandoned, a superseded and a current one; time passes
  before, on, within and beyond the lateness limit of a deadline.
- *control plane*: a version built twice and a host with another API are the
  smallest registry that can go wrong; two generations of two sources give late
  commands and a foreign active session; documents differ from a valid one in
  every section, and presets form every graph over three with cycles and
  diamonds. The daemon meets torn and missing documents and is killed between any
  two operations on files. Devices share a name across directions, a name or an
  identifier, and one name is part of another. The log overflows, filters, and meets
  an event too large and a poisoned lock; a snapshot is taken around two recorders,
  which are a symmetry set: they start alike, no definition tells them apart, and the
  run has no liveness property.
- *audio host*: callbacks are longer than a block and no multiple of it; faults
  come before, in and after an outage; a WAV order differs from the canonical order in
  7.1; scenes have no speaker off, the first, one in the middle, or all; a shard is
  killed between its two files.
- *rendering*: layouts are chosen for what the geometry can do: coplanar faces,
  doubled corners, an open hull, one that depends on the listener. Three
  generations let a tracker follow one candidate by another.

`CHECK_DEADLOCK FALSE` stands where a program ends (commands, campaigns, counted
polls and frames) or a bounded clock stops.

Fairness, used by the liveness properties only:

- `endpoint`: weak fairness of `MediaFrame`. The media clock is the hardware's
  and runs on whatever commands arrive. No command is owed.
- `live_duplex`: weak fairness of the command's control thread, and for the
  reconnecting one of `Tick`, `Reopen` and the outcome of an attempt: time
  passes, the loop attempts what is due, an open call returns. Backend and
  callbacks owe nothing; a stop call that fails still returns.
- `network_bridge`: weak fairness of the worker loop and of a callback that has
  begun; callbacks need not come.

## 4. Theorems

| Module | Theorem | States | For every |
| --- | --- | --- | --- |
| `BridgesProofs` | `RingSafety`; `RingTyped`, `RingCallsFit`, `RingDisjoint` | `RingSafe` and its parts | capacity, word size, block size; `RingSafety` and `RingDisjoint` if the capacity divides the modulus |
| `BridgesProofs` | `RingImplementsFifo` | `ImplementsFifo` | as `RingSafety` |
| `EndpointProofs` | `EndpointSafety`; `EndpointTyped`, `EndpointFailsClosed`, `EndpointRouteFitsWorld` | `EndpointSafe` and parts | capability set, policy, plan, telemetry, number of handovers |
| `EndpointProofs` | `EndpointSteps`; `EndpointOpensOnTime`, `EndpointNoReplay` | `StepsSafe` and parts | as above |
| `NetworkBridgeProofs` | `BridgeSafety`; `BridgeLockstep`, `BridgeNeverBroken`, `BridgeAudio` | `BridgeSafe` and parts | capacity of at least 2, sequence width, run length |
| `NetworkBridgeProofs` | `BridgeGapsVisible` | `GapsVisible` | as above, any number of resets |
| `TransportSetProofs` | `SetSafety`; `SetNoStraggler`, `SetInStep`, `SetTimelineShared` | `SetSafe` and parts | number and mix of routes, queue size, failures |
| `TransportSetProofs` | `SetNoGap` | `NoGapHeard` | as above |
| `BridgesProofs` | `AdaptiveSafety`, `AdaptiveLatchFinal` | `AdaptiveSound`, `LatchIsFinal` | ring and block size, thresholds, callback sizes, run length |
| `BridgesProofs` | `SlipSafety` | `SlipsAccounted` | capacity, target, policy, window, callback sizes, interleaving of pushes and reads |
| `LinkProofs` | `LinkSafety` | `LinksSound` | number of AOO threads, blocks, events, failures; the ESP set is the two pairs of the model |
| `LinkProofs` | `AvbSafety` | `AvbSound` | number of streams, talkers, clocks, latencies, connection tables, failures |
| `LiveDuplexProofs` | `LiveSafety` | `LiveSound` | set of stream faults, number of polls and restarts |
| `LiveDuplexProofs` | `RecoverySafety`, `RecoveryHistory` | `RecoverySound`, `HistoryKept` | recovery policy |
| `FabricProofs` | `FabricSafety`, `FabricCoherence` | `FabricFailsClosed`, `PlansCoherent` | modules, conditions, intents, offered plans, writes, clock; if no command overtakes the timer callback |
| `FabricProofs` | `FabricDeadline` | `OpensOnDeadline` | modules, plans, writes, clock; whether or not a command overtakes the timer callback |
| `ControlPlaneProofs` | `RegistrySafety` | `RegistrySound` | packages offered, host interfaces, restarts |
| `ControlPlaneProofs` | `SessionsSafety`, `ReleaseSafety` | `SessionsSound`, `ReleasedOnlyActive` | sources, generations; thresholds of the acquisition, channels, objects |
| `ControlPlaneProofs` | `DaemonSafety` | `DaemonSound` | modules, number of polls, crashes |
| `ControlPlaneProofs` | `SelectionSafety` | `StableSelectorKept` | devices, their names, lists with unique identifiers, requests |
| `ControlPlaneProofs` | `DiagnosticsSafety` | `DiagnosticsSound` | events, capacity and size limit of the log; recorders, durations, occupancies |

The assumptions are the named `ASSUME`s of the modules: sizes are natural
numbers, the ring's capacity is at most half of the word's range, missing
readings are not numbers, a connection table names an index for each slot,
observed modules are module states, and so on. TLC evaluates each of them in a
run. Two hypotheses stand in theorems themselves, each shown necessary: for the
ring, the capacity divides the modulus (section 5, note a); for `FabricSafety` and
`FabricCoherence`, `Preempt = FALSE` (finding 1, run `fabric_race`). The arguments:

- *Ring.* `NoSharedSlot` is not inductive. `CallsFit` is: the room a push
  checked and the samples a take checked stay there, because the other thread
  can only give more of them. Together with the type invariant and "an idle
  thread holds no block" it is preserved by each step. Disjointness then is
  arithmetic: two positions less than a capacity apart have different
  remainders, and the remainder survives the wrap if the capacity divides the
  modulus.
- *Ring as a FIFO.* The abstract queue is read off the cells between `tail` and
  `head`. A step inside a call is a stutter, because it writes no published
  cell; the release store of a push appends its block (`PublishAppends`), that of a
  take removes one (`TakeRemoves`), and what the call returns is the front of the
  queue (`TakeReturns`). The extra invariant, `CallsTrue`, says that the cells a
  call has passed already hold, or the samples it has collected already are, what
  the call is about.
- *Endpoint.* The amplifier's state says nothing about the phases that lead to
  it, so the invariant carries what each phase has established: which routes
  exist (`RouteOfPhase`), that an armed route stays in sync
  (`InSyncOnceArmed`), that a staged route fits the world (`RouteFitsWorld`), and
  that the amplifier is open exactly while playing. `EndpointOpensOnTime` adds
  that an armed route carries the start frame of its handover.
- *Network bridge.* `Lockstep` counts blocks; to know that a counted slot holds
  the right audio the invariant adds `SlotsFaithful` (each announced, held or
  half-pushed block lies in its slot) and `RoomKept` (a push under way still has
  room in both queues, because only the worker removes). For `BridgeGapsVisible`
  a second invariant, `InOrder`, lines up all blocks on their way, from the
  delivered one over the worker's and the queued ones to the one `expected` and
  `next_sequence` stand for: each follows the one before. A reset is harmless
  because it needs empty queues: only what has left them is of an older timeline.
- *Set.* `NoStraggler` is what `prepare` and `start` rely on and
  `TimelineShared` what the routes' own checks rely on. For `SetNoGap`, what a
  route heard last is followed by what the fan-out expects; a started set that
  was reset has a first route that accepts nothing, so no route hears a block.
- *Adaptive bridge.* The books balance only if what a push found free stays free
  (`PushFits`). A feed-forward is of the refill's epoch because the refill loads
  the epoch once and every estimate made before is dropped where it differs
  (`EstimateOfEpoch`). `LatchOnItsWay` says at which stores a latched fault is
  visible, and that a latched consumer is at none of the steps that consume.
- *Slip bridge.* The account is inductive with the types and its clause about a
  half-done push: what it found room for still fits, since the other thread only
  makes room. A correction chosen on a stale fill is applied to what is there, and counted.
- *AOO.* `ThreadFits` gives, for each place of a thread in load, preparation and
  drop, what its adapter and its native handle then are, and which clean-up still
  has to join which socket thread.
- *ESP pairs.* Their methods are methods of a transport set, so the invariant of
  `TransportSetProofs` is used through an instance (`SetStep`).
- *AVDECC runtime.* The counter is the cardinality of the occupied slots; that a
  slot is counted once needs the cache and the session to agree
  (`SessionCached`), which in turn needs one slot for each stream index.
- *GenAVB shim.* `users` and `started_users` are the cardinalities of the handles
  that hold the library and of the started streams (`ShimCounted`); a handle
  between two critical sections still holds what it acquired (`HandlePlaced`), so
  the last user cannot be another one.
- *Live command.* What the machine's state, the streams and the published fault
  are at each step of the control thread. A fault published while a poll is to
  come stays on its stream until that poll and is in the verdict afterwards
  (`FaultPlaced`).
- *Recovery.* `DelayPlaced`: the documented delay is `next_recovery_backoff_ms` of
  the attempts made, and the time that has passed beyond the delays owed plus the
  time still due is at least the next one.
- *Fabric.* `SessionInv`: the plan is what the planner says of the current facts,
  or there is none, since every operation reconciles. `ContractInv`: each phase of
  `EndpointHandoverState` knows which commands of which handover led to it.
  `FirmwareInv`: an open output is committed and unmuted in every control block,
  and so is the block of a callback that passed its checks; nothing is
  assumed of the writes, so also a sender other than the one modelled cannot open
  an output without a COMMIT.
- *Deadline.* `GateInv` needs no assumption about `Preempt`: a callback past its
  checks is inside the window of the deadline it checked, whatever a command has
  made of the control block since. An output opens by a COMMIT inside the window
  of the block's start time, or by such a callback.
- *A plan can be deployed.* The planner's routes are flattened, selected and
  sorted. What is needed of them are facts about positions, not an induction:
  the elements of a flattened sequence are the elements of its parts, a sorted
  one has each element at its rank, and ranks of a strict order are a bijection.
  `SessionDeployable` follows: what the planner offers, the fan-out admits.
- *One topology is heard.* `PlansCoherent` speaks about open outputs; the
  invariant `Coherent` about everything that may still open one. Each control
  block follows the program of the handover (`Follows`); where the sender knows
  a module's state, its block has the plan's roles if it is committed (`Plays`);
  where it does not, because an answer was lost, the block has heard the MUTE of
  this epoch, is in boot or fault, or its MUTE is still left to be sent
  (`Silenced`, `MuteLeft`); and once one endpoint of an epoch is committed all
  committed ones play the plan. `ProgramFits` says what is still to be sent:
  the tail of MUTE for all, then PREPARE, ARM, COMMIT for the kept. That the
  MUTEs come first is what the proof rests on; the mutant `PerModule`, which
  handles one module after the other, falls there.
- *Registry.* `RegistrySound` says nothing of what a restart will read.
  `DiskInv` does: every identity on disk is the one in memory, so a restart
  contradicts nothing, and what the disk names as active or rollback was
  committed once. With it `RegistrySound` is inductive (`RegistryInv`).
- *Sessions.* `OnlyActivePlays` is inductive with the types (`ManagerInv`); most
  operations give one source a record that does not play and leave the other's
  session alone (`QuietRecord`). For the decode, `LiveInv` bounds the counters
  by the history of the packets: the streak is the number of stable packets, a
  block is out only after `RequiredStable` of them in a running runtime, and
  unless it is faulted the poor packets are at most the empty ones, the probes
  and, for each error spent, what one error stands for. A discontinuity at the
  last error leaves none spent: the next error faults again.
- *Daemon.* `DaemonInv` names, for each stage of a poll, what the files are: at
  a rename the temporary file is the whole new document, the plan is removed
  only if there is none to publish, and while health is written, unless an
  operation failed, the published plan is the one it speaks of.
- *Device selection.* A selector suits the device it was made of (`Suits`) as
  long as identifiers are unique in a list; what is open was found by it.
- *Diagnostics.* The log is the last of what was admitted, and what is not in it
  is counted. For the counters, each total is the sum over the recorders of what
  they have added so far; the measure over a set of recorders is shown additive,
  and a snapshot lies between the sums at its begin and at its end, counter by
  counter (`MetricInv`).

Only model-checked:

- every liveness property (`Drains`, `CommittedResolves`, `FaultStopsBoth`,
  `LiveEnds`, `Reconnects`), because fairness and `ENABLED` are outside the
  prover's reach;
- `SetupSound`: what normalisation, migration, nested presets and redaction
  compute for every document is an induction over data;
- the programs on the host (`audio_host`) and the renderers (`rendering`), whose
  properties are about sums, percentiles and rings over particular scripts, and about
  particular layouts and directions. `BasicPanning` computes roots by a `RECURSIVE`
  operator, the only one of the project.

## 5. Findings

Disagreements between the code and what the repository says of it, each shown by
a run:

1. *Deadline callback and MUTE* (`aurora_patch_esp_avb_ptp_deadline.py:110`, run
   `fabric_race`). The callback checks epoch, phase, clock and lateness and then
   unmutes without a lock. A MUTE handled by the AVB task in between is undone:
   a removed module stays open.
2. *Stale plan of the daemon* (`aurora-os-daemon/src/main.rs:198`, run
   `daemon_stale_plan`). `reconcile_once` returns before it reaches the removal of
   the plan when any document cannot be read; its README says that the plan is
   removed when admission fails.
3. *Health gate at 100 %* (`aurora-realtime-engine/src/lib.rs:925`, run
   `health_gate`). Every callback beyond the budget falls into the last bucket,
   whose upper end is the budget, so the default limit accepts every run.

Observations met while modelling. The checked properties are stated so that they
hold beside them, and the comments of those properties say how:

- a. *Ring index wrap* (`transport.rs:171`). Unless the capacity divides 2^w,
  the sequence of slots jumps when the word wraps and a push may write cells the
  consumer still reads. It takes 2^w samples: never on 64 bits in practice.
- b. *Power of a wired detached route* (`endpoint.rs:494`). Admission looks at
  the power only for wireless routes, while the policy speaks of all detached
  playback.
- c. *Stale handover after recovery* (`endpoint.rs:307`). Recovery forgets the
  epoch, so delayed commands of an older handover are accepted again.
  `NoReplay` is therefore stated between two recoveries.
- d. *Fault after the last poll* (`realtime_commands.rs:293`). The summary reads
  bridge and engine again but not the streams' faults: a device lost in the last
  second is reported as a clean run. `StreamFaultObserved` covers faults
  published while a poll is still to come.
- e. *Reset of a started set* (`aurora-modular-speaker-fabric/src/lib.rs:613`).
  Both transports stop on reset while the set stays started; the next submission
  aborts it. A failed start leaves the set prepared although its document says
  that it is invalidated.
- f. *Failing close of the AVDECC control*
  (`aurora-network-genavb-runtime/src/lib.rs:396`). Talkers that are prepared stay
  so, and a start accepts them. `TalksOnConnected` is stated while no close has
  failed.
- g. *Geometric delay in file order* (`aurora-cli/src/main.rs:1317`).
  `process --apply-geometric-delay` writes canonical delays into a configuration
  that counts the channels of the file (`lib_entry.rs:3`).
- h. *Open hull* (`three_d.rs:148` and `234`). A hull that is not closed around
  the listener still yields triplets; directions in its hole have none.
  `InteriorCovered` is about listeners strictly inside, on the inner side of every
  face. A listener on a face, for which `listener_inside_hull()` is true as well
  (`three_d.rs:235`), has no base for the directions behind that face and is
  left out.
- i. *Network bridge after an overflow* (`network_bridge.rs:129`). Every block is
  refused until the owner resets a drained timeline.
- j. *Shared recovery slot of the simulation* (`simulation.rs:651`). A later
  fault moves the time at which an earlier one ends; each still ends.
- k. *Name selectors* (`aurora-realtime-audio-api/src/lib.rs:242`). A plain name
  whose device is gone may match another device that contains it;
  `StableSelectorKept` is about the stable selector.
- l. *Firmware and sync loss.* Once open, the firmware's gate is not closed by a
  loss of gPTP; only a command closes it.
- m. *Preset diamonds* (`preset.rs:314`). A preset reached over two paths is
  applied twice, the later application deciding. `PayloadHasLastWord` is about the
  preset that was asked for, which comes after both applications; it does not
  tell one application of a shared base from two.
- n. *Missed candidate of the HRTF scheduler* (`scheduler.rs:194`). A candidate
  that missed its only boundary blocks the scheduler until it is cancelled.
- o. *Disabled speakers in an offline rendering* (`aurora-cli/src/main.rs:1488`).
  `BasicRenderer::configure` keeps the enabled speakers
  (`aurora-renderer-basic/src/lib.rs:314`) and `render_mono_to_scene` writes their
  gains to the channels by position, while the file is exported under the roles of
  all ordered speakers (`main.rs:1441` and `1531`): after a disabled speaker a
  channel carries the audio of the next enabled one and the last channels are
  silent. `docs/audio-data-model.md:20` says that Aurora "uses explicit
  `ChannelRole` values". The model does as the code does; `DspOnItsRole` asks for
  every chain that it is on the channel of its role, and for the audio there up to
  the first disabled speaker.
- p. *Last block of a timeline* (`aurora-modular-speaker-fabric/src/lib.rs:371`). A
  block whose timestamp has no successor is refused after `next_sequence` was
  written, so the two halves of the expectation part. Every later block of that
  clock is refused for its timestamp alone, which is why `next` of `TransportSet`
  stands for both.

## 6. What is left

1. *Theorems.* `AnswerIsFinal` and the campaign part of `SimulationSound` of the
   programs on the host; `BoundaryPoseFresh` of the HRTF scheduler. Each is a
   machine of a few stages like the daemon's.
2. *Compositions.* Endpoints under a fabric session whose inventory is their
   own telemetry; the network bridge with the transport set behind it as one
   system; an abstract handover that `EspHandover` implements.
3. *Liveness* of the daemon (health follows the documents) and of a handover
   whose sender is fair.

## 7. Not modelled

- Floating-point signal processing: gain values, filters, the resampler's inside,
  estimator and regression arithmetic, correlation. No finite abstraction keeps
  what matters, and the crates test it numerically.
- Latency and remote-clock measurement, the evaluation and
  inspection commands: one pass over recorded data, read back by nothing.
- Decoders (bitstream parsing behind external libraries); the runtime's use of
  them is `LiveDecode`.
- Foreign code: CPAL, crossbeam queues, rubato, the GenAVB, AOO and
  libspatialaudio libraries, CamillaDSP, ESP-IDF. They appear as what the Rust
  code relies on: calls that succeed or fail, atomic queues, callbacks at any
  time, a child process that writes and exits or does not.
- The prototypes of `transport.rs` that only benchmarks use, the loopback and
  hand-driven simulation backend, laboratory harnesses, OS images and scripts
  other than the two firmware patches.
- In modelled components: charging state and module identifiers of the endpoint,
  channel copying of the fan-out, AAF packing, wording and layout of reports,
  byte limits of documents, format negotiation of devices, and calls refused
  for their shape that change nothing.
