------------------------ MODULE SimulationAssurance ------------------------
(***************************************************************************)
(* aurora-realtime-audio-sim: two virtual devices with clocks of their own *)
(* (clock.rs), a profile of what they support and how they fail            *)
(* (profile.rs, backend.rs), and the accelerated duplex run over them      *)
(* (simulation.rs), one action per iteration of its loop.  The lifecycle   *)
(* is the DuplexStateMachine of the live session.                          *)
(*                                                                         *)
(* Abstraction: a millisecond of the script is one tick.  The random       *)
(* generator is a choice.  Of the drift controller the run uses the        *)
(* frames it asks for, off by at most one, and its refusal after too many  *)
(* saturated updates.  Times are cut off at EndTicks.                      *)
(***************************************************************************)
EXTENDS Integers, SequencesExt

CONSTANTS EndTicks,     \* the duration of the run
          Capacity,     \* frames of the ring
          Unity,        \* a million ppm
          Scripts,      \* the fault timelines, in any order
          Policies,     \* callback size policies of a device
          Jitter        \* callback_jitter_frames of both devices

VARIABLES sim,          \* the locals of run_duplex_simulation
          script        \* faults not applied yet

simVars == <<sim, script>>

Machine == INSTANCE DuplexState WITH
  StreamFaults <- {"deviceLost", "formatChanged", "callback"},
  MaxRecoveryAttempts <- 2, InitialBackoff <- 1, MaxBackoff <- 1

Never == EndTicks + 1000    \* recovery_at_ticks is None
Target == Capacity \div 2
Directions == {"Input", "Output"}

\* FaultEvent; the profile's own faults are part of the script.
Fault(at, action, duration, value) ==
  [at |-> at, action |-> action, duration |-> duration, value |-> value]

\* CallbackSizePolicy::frames: the sizes a callback of this index may have.
Fixed(frames) == [first |-> frames, second |-> frames, random |-> FALSE]

PolicyFrames(policy, index) ==
  IF policy.random THEN policy.first .. policy.second
  ELSE {IF index % 2 = 0 THEN policy.first ELSE policy.second}

-----------------------------------------------------------------------------
(* VirtualScheduler                                                        *)

Domain(policy) ==
  [ppm |-> 0, policy |-> policy, nominal |-> 0, next |-> 0, callbacks |-> 0, burst |-> 0]

\* Domain::period_ticks: a faster clock has a shorter period.
PeriodTicks(domain, frames) == Max({1, (frames * Unity) \div Max({Unity + domain.ppm, 1})})

Signed(domain, jitter) ==
  IF jitter = 0 THEN 0
  ELSE IF jitter > 0 THEN PeriodTicks(domain, jitter) ELSE -PeriodTicks(domain, -jitter)

\* The domain that fires: input wins a tie.
Due(s) == IF s.domains["Input"].next <= s.domains["Output"].next THEN "Input" ELSE "Output"

NextTicks(domain, nominal, jitter) ==
  IF domain.burst > 0 THEN domain.next + 1
  ELSE Max({nominal + Signed(domain, jitter), domain.next + 1})

\* next_callback: the domain after it fired with so many frames.
Fired(domain, frames, jitter) ==
  LET nominal == domain.nominal + PeriodTicks(domain, frames)
  IN  [domain EXCEPT !.nominal = nominal,
                     !.next = NextTicks(domain, nominal, jitter),
                     !.burst = Max({@ - 1, 0}),
                     !.callbacks = (@ + 1) % 2]

SetPpm(s, ppm) == [s EXCEPT !.domains["Input"].ppm = ppm]

SetCallbackSize(s, frames) ==
  [s EXCEPT !.domains = [d \in Directions |-> [@[d] EXCEPT !.policy = Fixed(Max({frames, 1}))]]]

InjectBurst(s, callbacks) ==
  [s EXCEPT !.domains = [d \in Directions |-> [@[d] EXCEPT !.burst = Max({callbacks, 1})]]]

StallDirection(s, direction, ticks) ==
  [s EXCEPT !.domains[direction].nominal = @ + ticks, !.domains[direction].next = @ + ticks]

-----------------------------------------------------------------------------
(* run_duplex_simulation                                                   *)

\* The state after the two start transitions.
Started(policies) ==
  [phase |-> "running", clock |-> 0, domains |-> [d \in Directions |-> Domain(policies[d])],
   machine |-> [Machine!Fresh EXCEPT !.state = "running"], recoveryAt |-> Never,
   restore |-> FALSE, enabled |-> TRUE, fill |-> Target]

Init ==
  /\ \E policies \in [Directions -> Policies] : sim = Started(policies)
  /\ script \in {SortSeq(faults, LAMBDA a, b : a.at <= b.at) : faults \in Scripts}

\* transition: the machine moves on the event's row, and without one the run is an Err.  `row'
\* is the set of machines the event may lead to.
Transition(s, row) ==
  IF row # {} THEN [s EXCEPT !.machine = CHOOSE m \in row : TRUE]
  ELSE [s EXCEPT !.phase = "error"]

Recovered(s) == Transition(s, {m \in Machine!Machines : Machine!RecoverySucceeded(s.machine, m)})

\* The kinds of AudioStreamFault a script action stands for.
StreamFaultOf(action) ==
  CASE action \in {"InputLoss", "OutputLoss"} -> "deviceLost"
    [] action = "FormatChange" -> "formatChanged"
    [] OTHER -> "callback"

ClockJump(s, fault) ==
  [SetPpm(s, fault.value) EXCEPT !.restore = TRUE, !.recoveryAt = fault.at + fault.duration]

Outage(s, fault) ==
  LET faulted == {m \in Machine!Machines :
                    Machine!StreamFault(s.machine, m, StreamFaultOf(fault.action))}
      lost == Transition(s, faulted)
      stopped == [lost EXCEPT !.enabled = FALSE]
      requested == {m \in Machine!Machines : Machine!RecoveryRequested(lost.machine, m)}
      recovering == Transition(stopped, requested)
  IN  CASE lost.phase = "error" -> lost
        [] lost.phase # "error" /\ fault.duration = 0 -> stopped
        [] OTHER -> IF recovering.phase = "error" THEN recovering
                    ELSE [recovering EXCEPT !.recoveryAt = fault.at + fault.duration]

ApplyFault(s, fault) ==
  IF s.phase = "error" THEN s
  ELSE CASE fault.action = "ClockJump" -> ClockJump(s, fault)
         [] fault.action = "CallbackSizeChange" -> SetCallbackSize(s, fault.value)
         [] fault.action = "CallbackBurst" -> InjectBurst(s, fault.value)
         [] fault.action = "InputCallbackStall" -> StallDirection(s, "Input", fault.duration)
         [] fault.action = "OutputCallbackStall" -> StallDirection(s, "Output", fault.duration)
         [] OTHER -> Outage(s, fault)

\* Mutant: a clock jump is undone only together with a device that reappears.
RecoverDevice(s, ticks) ==
  IF ticks < s.recoveryAt THEN s
  ELSE LET s1 == [s EXCEPT !.recoveryAt = Never]
       IN  IF s.machine.state # "recovering" THEN s1
           ELSE LET s2 == [Recovered(s1) EXCEPT !.enabled = TRUE]
                IN  IF s.restore THEN [SetPpm(s2, 0) EXCEPT !.restore = FALSE] ELSE s2

\* The deadline that a loss and a clock jump share.
Recover(s, ticks) ==
  IF ticks < s.recoveryAt THEN s
  ELSE LET s1 == IF s.machine.state = "recovering"
                 THEN [Recovered(s) EXCEPT !.enabled = TRUE]
                 ELSE s
           s2 == [s1 EXCEPT !.recoveryAt = Never]
       IN  IF s.restore THEN [SetPpm(s2, 0) EXCEPT !.restore = FALSE] ELSE s2

\* An input callback fills the ring, which rejects what does not fit; an output callback
\* takes what the controller asks for, or what is there.
Capture(s, frames) == [s EXCEPT !.fill = Min({@ + frames, Capacity})]

Render(s, needed) == [s EXCEPT !.fill = Max({@ - needed, 0})]

\* One iteration of the loop; `after' is bound so that TLC evaluates it once.
Step(frames, jitter, correction) ==
  LET direction == Due(sim)
      domain == sim.domains[direction]
      ticks == domain.next
      fired == [sim EXCEPT !.clock = ticks,
                           !.domains[direction] = Fired(domain, frames, jitter)]
      due == SelectSeq(script, LAMBDA fault : fault.at <= ticks)
  IN  /\ sim.phase = "running"
      /\ ticks < EndTicks
      /\ frames \in PolicyFrames(domain.policy, domain.callbacks)
      /\ script' = SubSeq(script, Len(due) + 1, Len(script))
      /\ \E after \in {FoldLeft(ApplyFault, Recover(fired, ticks), due)} :
           sim' = IF after.phase = "error" \/ ~after.enabled THEN after
                  ELSE IF direction = "Input" THEN Capture(after, frames)
                  ELSE Render(after, Max({frames + correction, 0}))

\* controller.update gives up, which ends the run with an Err.
ControllerFault ==
  /\ sim.phase = "running" /\ Due(sim) = "Output" /\ sim.enabled
  /\ sim.fill \in {0, Capacity}
  /\ sim' = [sim EXCEPT !.phase = "error"]
  /\ UNCHANGED script

\* The callbacks have reached the end: the session is stopped and reported.
Finish ==
  /\ sim.phase = "running"
  /\ sim.domains[Due(sim)].next >= EndTicks
  /\ \E stopping \in {Transition(sim, {m \in Machine!Machines : Machine!StopRequested(sim.machine, m)})} :
       sim' = IF stopping.phase = "error" THEN stopping
              ELSE [Transition(stopping, {m \in Machine!Machines :
                                            Machine!StreamsStopped(stopping.machine, m)})
                      EXCEPT !.phase = "done"]
  /\ UNCHANGED script

Next ==
  \/ \E frames \in 1 .. Capacity, jitter \in -Jitter .. Jitter,
        correction \in IF Due(sim) = "Output" THEN -1 .. 1 ELSE {0} : Step(frames, jitter, correction)
  \/ ControllerFault
  \/ Finish

Spec == Init /\ [][Next]_simVars

-----------------------------------------------------------------------------
TypeOK ==
  /\ sim.phase \in {"running", "done", "error"}
  /\ sim.machine \in Machine!Machines
  /\ sim.fill \in 0 .. Capacity
  /\ sim.enabled \in BOOLEAN /\ sim.restore \in BOOLEAN

\* An outage that is to end and a clock that is off its rate both have a deadline
\* pending, although they share one: neither is forgotten when the other replaces it.
\* Callbacks run exactly while the machine says the streams do.
DisturbanceEnds ==
  sim.phase = "running" =>
    /\ (sim.machine.state = "recovering" \/ sim.domains["Input"].ppm # 0)
         => sim.recoveryAt # Never
    /\ sim.enabled <=> sim.machine.state = "running"

(***************************************************************************)
(* aurora-simulation-assurance: a campaign generates scenarios from their  *)
(* ordinals, runs each against the simulators, repeats the whole, and      *)
(* writes a report with its verdict beside a file of the failures kept for *)
(* replay.  A campaign is split into shards; each is a process of its own  *)
(* that may be killed at any time and started again with the same path.    *)
(*                                                                         *)
(* Abstraction: a seed is the pair it is mixed from, what is drawn from a  *)
(* seed is the seed, and the aggregate hash is the sequence of the values  *)
(* that were hashed.  The simulators' reports are inputs.                  *)
(***************************************************************************)
CONSTANTS Options,        \* [level, scenarios, shard_count, repeat, legacy] of a campaign
          StartSeed,
          SoakHours,
          FailureLimit,
          Fixtures,       \* number of legacy fixtures
          DuplexReports, RoutingReports, RendererReports, ProbeReports,
          MaxCampaigns

VARIABLES options,    \* of the whole campaign; its shards run one after the other
          run,        \* the running shard
          disk,       \* shard -> its report and its failures file
          ran,        \* history: shard -> the ordinals of its last run, and whether it ended
          campaigns

campaignVars == <<options, run, disk, ran, campaigns>>

Lifecycle == {"InputLoss", "OutputLoss", "CallbackError", "FormatChange",
              "StreamFreeze", "MissingCallbacks", "SchedulingStall"}

FaultUsesLifecycle(action) == action \in Lifecycle

-----------------------------------------------------------------------------
(* Scenarios                                                               *)

\* main: what the command line accepts, and the fixtures it adds to the first shard.
Accepted(o) == /\ o.shard_count \in 1 .. 64 /\ o.repeat \in 1 .. 10
               /\ o.scenarios <= 1000000 /\ SoakHours \in 1 .. 720

IncludesLegacy(o, shard) ==
  (o.legacy \/ o.level \in {"standard", "deep"}) /\ shard = 0

ScenarioSeed(ordinal) == <<StartSeed, ordinal>>

\* Of every fifth configuration a stream fault, of every twentieth also a change of size.
DuplexFaults(ordinal, duration) ==
  IF ordinal % 5 # 0 \/ duration < 2 THEN {}
  ELSE {"InputLoss"} \cup (IF ordinal % 20 = 0 THEN {"CallbackSizeChange"} ELSE {})

DuplexConfig(seed, ordinal, duration) ==
  [kind |-> "Duplex", profile |-> (ordinal \div 4) % 4, drawn |-> seed,
   duration |-> Max({duration, 1}), faults |-> DuplexFaults(ordinal, duration)]

RoutingScenario(ordinal) == [kind |-> "Routing", profile |-> (ordinal \div 4) % 3]

RendererScenario(seed, ordinal) ==
  [kind |-> "Renderer", geometry |-> (ordinal \div 4) % 7, angle |-> (ordinal \div 28) % 5,
   drawn |-> seed]

Probes == <<"InvalidSpread", "UnsupportedSampleRate", "NonFiniteSpeaker", "RoutingCapacity",
            "UnsupportedClockMismatch", "ExtremeFiniteRenderer">>

StructuredProbe(seed, ordinal) ==
  [kind |-> "Probe", probe |-> Probes[((ordinal \div 4) % 6) + 1], drawn |-> seed]

BuildScenario(level, ordinal, seed) ==
  CASE level = "soak" -> DuplexConfig(seed, ordinal * 4, SoakHours * 3600)
    [] level # "soak" /\ ordinal % 4 = 0 -> DuplexConfig(seed, ordinal, 2 + (ordinal % 7))
    [] level # "soak" /\ ordinal % 4 = 1 -> RoutingScenario(ordinal)
    [] level # "soak" /\ ordinal % 4 = 2 -> RendererScenario(seed, ordinal)
    [] OTHER -> StructuredProbe(seed, ordinal)

ExpectedOutcome(scenario) ==
  IF scenario.kind = "Probe" /\ scenario.probe # "ExtremeFiniteRenderer"
  THEN "StructuredRejection" ELSE "Pass"

\* The duplex configuration of a fixture: an hour, the script of the fixture.
LegacyScenario(fixture) ==
  [kind |-> "Duplex", profile |-> 2, drawn |-> ScenarioSeed(1000 + fixture),
   duration |-> 3600, faults |-> {"OutputLoss"}]

-----------------------------------------------------------------------------
(* Verdict on one scenario: the first check that fails                     *)

FirstFailure(checks) ==
  LET i == SelectInSeq(checks, LAMBDA check : check[1])
  IN IF i = 0 THEN "none" ELSE checks[i][2]

ValidTransitions ==
  {<<"Stopped", "Starting">>, <<"Starting", "Running">>, <<"Running", "Faulted">>,
   <<"Faulted", "Recovering">>, <<"Recovering", "Running">>, <<"Running", "Stopping">>,
   <<"Recovering", "Stopping">>, <<"Faulted", "Stopping">>, <<"Stopping", "Stopped">>}

\* A lifecycle fault must show in the records, any other must change the checksum against
\* a run without faults.
ExecuteDuplex(config, r) ==
  FirstFailure(<<
    <<r.error, "InternalError">>,
    <<~r.finite, "NonFiniteOutput">>,
    <<~r.bounded, "UnboundedState">>,
    <<r.final # "Stopped" \/ ~(r.transitions \subseteq ValidTransitions), "StateTransition">>,
    <</\ \E f \in config.faults : FaultUsesLifecycle(f)
      /\ \A t \in r.transitions : t[2] # "Faulted", "MissingFaultObservation">>,
    <</\ config.faults # {} /\ \A f \in config.faults : ~FaultUsesLifecycle(f)
      /\ r.baseline = r.checksum, "MissingFaultObservation">> >>)

ExecuteRouting(r) ==
  FirstFailure(<< <<r.error, "InternalError">>, <<r.leaks, "ChannelLeakage">>,
                  <<~r.finite, "NonFiniteOutput">> >>)

\* Rendered as a point with both interfaces, with spread, and with the speakers reversed.
ExecuteRenderer(r) ==
  FirstFailure(<< <<r.error, "InternalError">>, <<r.pointDiffers, "PointCompatibility">>,
                  <<~r.finite, "NonFiniteOutput">>, <<~r.unitPower, "EnergyNormalization">>,
                  <<r.spread /\ r.permutedDiffers, "PermutationEquivalence">> >>)

ExecuteProbe(scenario, r) ==
  IF ExpectedOutcome(scenario) = "Pass"
  THEN FirstFailure(<< <<r.refused, "InternalError">>, <<~r.finite, "NonFiniteOutput">> >>)
  ELSE FirstFailure(<< <<~r.refused, "StructuredErrorMismatch">> >>)

ReportsOf(scenario) ==
  CASE scenario.kind = "Duplex" -> DuplexReports
    [] scenario.kind = "Routing" -> RoutingReports
    [] scenario.kind = "Renderer" -> RendererReports
    [] OTHER -> ProbeReports

ExecuteScenario(scenario, r) ==
  CASE scenario.kind = "Duplex" -> ExecuteDuplex(scenario, r)
    [] scenario.kind = "Routing" -> ExecuteRouting(r)
    [] scenario.kind = "Renderer" -> ExecuteRenderer(r)
    [] OTHER -> ExecuteProbe(scenario, r)

-----------------------------------------------------------------------------
(* One shard                                                               *)

NoReport == [written |-> FALSE, passed |-> FALSE, failures |-> <<>>]
Idle == [pc |-> "idle"]

CampaignInit == /\ options \in Options /\ Accepted(options)
        /\ run = Idle
        /\ disk = [s \in 0 .. options.shard_count - 1 |->
                     [report |-> NoReport, failures |-> <<>>]]
        /\ ran = [s \in 0 .. options.shard_count - 1 |-> [ended |-> FALSE, ordinals |-> <<>>]]
        /\ campaigns = 0

Start(shard) ==
  /\ run.pc = "idle" /\ campaigns < MaxCampaigns
  /\ run' = [pc |-> "scenario", shard |-> shard, next |-> shard, fixture |-> 0,
             aggregate |-> <<>>, checksums |-> <<>>, failures |-> <<>>, dimensions |-> {},
             executed |-> <<>>, clean |-> TRUE]
  /\ campaigns' = campaigns + 1
  /\ UNCHANGED <<options, disk, ran>>

\* Mutant: shards of consecutive ordinals, cut as if they were strided.
NextConsecutive(ordinal) == ordinal + 1

NextOrdinal(ordinal) == ordinal + options.shard_count

\* Only the first failures are kept.
RetainFailure(failures, record) ==
  IF Len(failures) >= FailureLimit THEN failures ELSE Append(failures, record)

HashInto(aggregate, value) == Append(aggregate, value)

\* The dimensions of what passed are recorded in the first repeat.
RecordAll(scenario) ==
  IF run.checksums = <<>> THEN run.dimensions \cup {scenario.kind} ELSE run.dimensions

\* `clean' is history: nothing has failed.
Executed(scenario, category, checksum) ==
  LET ordinal == run.next
      hashed  == HashInto(run.aggregate, ExpectedOutcome(scenario))
      stepped == [run EXCEPT !.next = NextOrdinal(ordinal), !.executed = Append(@, ordinal)]
  IN run' = IF category = "none"
            THEN [stepped EXCEPT !.aggregate = HashInto(hashed, checksum),
                                 !.dimensions = RecordAll(scenario)]
            ELSE [stepped EXCEPT !.aggregate = HashInto(hashed, category),
                                 !.failures = RetainFailure(@, <<ordinal, category>>),
                                 !.clean = FALSE]

\* A panic is caught and counts as a failure.
RunScenario ==
  LET scenario == BuildScenario(options.level, run.next, ScenarioSeed(run.next))
  IN /\ run.pc = "scenario" /\ run.next < options.scenarios
     /\ \/ \E r \in ReportsOf(scenario) :
             Executed(scenario, ExecuteScenario(scenario, r), r.checksum)
        \/ Executed(scenario, "Panic", "")
     /\ UNCHANGED <<options, disk, ran, campaigns>>

\* A fixture that fails is kept but not hashed; its panic is not caught, and a fixture
\* that cannot be loaded ends the campaign without a report.
RunFixture ==
  LET scenario == LegacyScenario(run.fixture)
  IN /\ run.pc = "scenario" /\ run.next >= options.scenarios
     /\ IncludesLegacy(options, run.shard) /\ run.fixture < Fixtures
     /\ \/ \E r \in DuplexReports :
             LET category == ExecuteDuplex(scenario, r)
             IN run' = IF category = "none"
                       THEN [run EXCEPT !.aggregate = HashInto(@, r.checksum), !.fixture = @ + 1]
                       ELSE [run EXCEPT !.failures = RetainFailure(@, <<"fixture", category>>),
                                        !.fixture = @ + 1, !.clean = FALSE]
        \/ run' = Idle
     /\ UNCHANGED <<options, disk, ran, campaigns>>

FinishRepeat ==
  /\ run.pc = "scenario" /\ run.next >= options.scenarios
  /\ IncludesLegacy(options, run.shard) => run.fixture = Fixtures
  /\ LET checksums == Append(run.checksums, run.aggregate)
     IN run' = IF Len(checksums) < options.repeat
               THEN [run EXCEPT !.checksums = checksums, !.aggregate = <<>>, !.executed = <<>>,
                                !.next = run.shard, !.fixture = 0]
               ELSE [run EXCEPT !.checksums = checksums, !.pc = "report"]
  /\ UNCHANGED <<options, disk, ran, campaigns>>

\* Mutant: any repeat that agrees with the first will do, the first among them.
ReproducibleOnce(checksums) == \E i \in DOMAIN checksums : checksums[i] = checksums[1]

Reproducible(checksums) == \A i \in DOMAIN checksums : checksums[i] = checksums[1]

WriteReport ==
  /\ run.pc = "report"
  /\ disk' = [disk EXCEPT ![run.shard].report =
                [written |-> TRUE, failures |-> run.failures,
                 passed |-> Reproducible(run.checksums) /\ run.failures = <<>>]]
  /\ run' = [run EXCEPT !.pc = "failures"]
  /\ ran' = [ran EXCEPT ![run.shard].ended = FALSE]
  /\ UNCHANGED <<options, campaigns>>

\* Mutant: a failures file is written but never removed.
KeepStaleFailures ==
  /\ run.pc = "failures"
  /\ disk' = IF run.failures = <<>> THEN disk
             ELSE [disk EXCEPT ![run.shard].failures = run.failures]
  /\ ran' = [ran EXCEPT ![run.shard] = [ended |-> TRUE, ordinals |-> run.executed]]
  /\ run' = Idle
  /\ UNCHANGED <<options, campaigns>>

\* The failures file is written, or the one of an earlier run removed.
WriteFailures ==
  /\ run.pc = "failures"
  /\ disk' = [disk EXCEPT ![run.shard].failures = run.failures]
  /\ ran' = [ran EXCEPT ![run.shard] = [ended |-> TRUE, ordinals |-> run.executed]]
  /\ run' = Idle
  /\ UNCHANGED <<options, campaigns>>

\* Killed, or an error of a file operation.
Crash == /\ run.pc # "idle"
         /\ run' = Idle
         /\ UNCHANGED <<options, disk, ran, campaigns>>

CampaignNext ==
  \/ \E shard \in DOMAIN disk : Start(shard)
  \/ RunScenario \/ RunFixture \/ FinishRepeat \/ WriteReport \/ WriteFailures \/ Crash

CampaignSpec == CampaignInit /\ [][CampaignNext]_campaignVars

-----------------------------------------------------------------------------
(* Properties                                                              *)

\* ShardsComplete: once every shard has completed a run, each ordinal of the campaign was
\* executed in each repeat by exactly one of them.  (selected_ordinals)
ShardsComplete ==
  (\A s \in DOMAIN ran : ran[s].ended) =>
    \A ordinal \in 0 .. options.scenarios - 1 :
      \E s \in DOMAIN ran :
        /\ ordinal \in ToSet(ran[s].ordinals) /\ IsInjective(ran[s].ordinals)
        /\ \A t \in DOMAIN ran \ {s} : ordinal \notin ToSet(ran[t].ordinals)

\* VerdictOfAllRepeats: a report passes exactly when no scenario and no fixture failed in
\* any repeat and all repeats hashed the same evidence, also when the list of failures was
\* cut.  (run_campaign)
VerdictOfAllRepeats ==
  run.pc = "failures" =>
    (disk[run.shard].report.passed <=>
       run.clean /\ \A i, j \in DOMAIN run.checksums : run.checksums[i] = run.checksums[j])

\* FailuresOfReport: the failures file of a shard whose last run ended holds the failures
\* of its report; none is left over from an earlier run, ended or killed.
\* (write_report_and_failures)
FailuresOfReport ==
  \A s \in DOMAIN disk : ran[s].ended => disk[s].failures = disk[s].report.failures
=============================================================================
