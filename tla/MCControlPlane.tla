--------------------------- MODULE MCControlPlane ---------------------------
(***************************************************************************)
(* The control plane: plugin registry, source sessions, live decode, the   *)
(* setup pipeline, the AuroraOS daemon, device selection and diagnostics.  *)
(* They share no state, and each property is about one of them, so every   *)
(* behaviour is one in which the component named by `focus' moves alone:   *)
(* steps of the others would be stutters to it.                            *)
(***************************************************************************)
EXTENDS RuntimeAssembly

CONSTANTS Plugins, Versions, Digests, HostApis, Sources, MaxGeneration,
          RequiredStable, MaxErrors, MaxEmpty, MaxProbe, RequireNative, Objects, Roles,
          MaxChannels,
          Modules, MaxPolls,
          Devices, PartOf, Numerals, Profiles, Requests, MaxPlugged,
          Capacity, MaxEventBytes, MostCounted, Events, Severities, SupportDocuments,
          MaxPushes, Recorders, Durations, Occupancies, MaxRecordings

VARIABLES focus,
          hostApi, slots, disk, committed,
          sources, active, chunks, released,
          state, stable, errors, empty, probes, crashed, out, streak, poor,
          inventory, intent, published, daemon, polls,
          driver, host, request, selector, stream,
          shared, poisoned, log, admitted, outcomes, accepted,
          counters, recorders, begun, finished, taking, taken

registryVars == <<hostApi, slots, disk, committed>>
managerVars == <<sources, active, chunks, released>>
liveVars == <<state, stable, errors, empty, probes, crashed, out, streak, poor>>
daemonVars == <<inventory, intent, published, daemon, polls>>
deviceVars == <<driver, host, request, selector, stream>>
logVars == <<shared, poisoned, log, admitted, outcomes, accepted>>
metricVars == <<counters, recorders, begun, finished, taking, taken>>

-----------------------------------------------------------------------------
(* Documents for the pipeline: a stereo and a 7.1.4 document that are      *)
(* valid, every routing over two inputs and three outputs, and documents   *)
(* that differ from a valid one in a section.                              *)

StereoPair == << Speaker(2, "FR", 30, None), Speaker(1, "FL", -30, 0) >>

Stereo ==
  [schema |-> Schema(3, "ok"), texts |-> {"ok"},
   mode |-> "LiveIntent", rate |-> 48000, channels |-> 2, frames |-> 256,
   fallback |-> <<48000, 44100, 48000>>,
   input |-> Device("Input", ComponentReference("cpal", "AudioInputBackend", EmptyPayload)),
   output |-> Device("Output", ComponentReference("virtual", "AudioOutputBackend", EmptyPayload)),
   routing |-> Routing(<<2, 1>>, <<1, 2>>, << <<1, 2>>, <<2, 1>> >>, <<>>),
   layout |-> Layout("Stereo", StereoPair, FALSE),
   renderer |-> ComponentReference("renderer.vbap", "Renderer", Payload("point_source", 1, None)),
   buffering |-> Buffering(1, 2, 3, 4), diagnostics |-> Diagnostics(1),
   simulation |-> Simulation(100)]

Atmos ==
  LET roles == << "FL", "FR", "FC", "LFE", "SL", "SR", "SBL", "SBR", "TFL", "TFR", "TRL", "TRR" >>
      height(i) == IF i > 8 THEN 45 ELSE IF i = 1 THEN 0 ELSE None
  IN  [Stereo EXCEPT
         !.schema = Schema(4, None),
         !.channels = 12,
         !.routing = Routing([i \in 1 .. 2 |-> i], [i \in 1 .. 12 |-> 13 - i],
                             << <<1, 1>>, <<2, 2>> >>, [i \in 1 .. 10 |-> i + 2]),
         !.layout = Layout("Surround714",
                           [i \in 1 .. 12 |-> Speaker(13 - i, roles[i], 0, height(i))], TRUE)]

SmallSeqs(S, n) == UNION {[1 .. k -> S] : k \in 0 .. n}

Routings ==
  [inputs : {<<>>, <<1>>, <<2, 1>>, <<1, 1>>},
   outputs : {<<1>>, <<2, 1>>, <<2, 2>>, <<3, 1, 2>>},
   routes : SmallSeqs((1 .. 2) \X (1 .. 3), 2),
   inactive : {<<>>, <<1>>, <<3>>, <<2, 1>>, <<2, 2>>, <<4>>}]

RoutingDocuments ==
  {[Stereo EXCEPT !.channels = Len(routing.outputs), !.routing = routing] : routing \in Routings}

\* One section changed.
Sections(document) ==
  {[document EXCEPT !.mode = mode, !.output.backend.id = backend] :
      mode \in OperatingModes,
      backend \in {"virtual", "cpal", "offline", "studio", "unknown"}}
    \union {[document EXCEPT !.input = device] :
        device \in {None, [document.input EXCEPT !.direction = "Output"],
                    [document.input EXCEPT !.ambiguity = "AllowFirst"],
                    [document.input EXCEPT !.stable = None],
                    [document.input EXCEPT !.stable = None, !.ambiguity = "Reject"],
                    [document.input EXCEPT !.stable = None, !.friendly = None, !.ambiguity = "Reject"],
                    [document.input EXCEPT !.friendly = "long"],
                    [document.input EXCEPT !.backend.minimum = 1, !.backend.maximum = 1],
                    [document.input EXCEPT !.backend.kind = "Renderer"],
                    [document.input EXCEPT !.backend.pin = "9.9.9"]}}
    \union {[document EXCEPT !.renderer = ComponentReference(id, "Renderer", payload)] :
        id \in {"renderer.basic", "renderer.vbap", "renderer.external", "renderer.other"},
        payload \in {EmptyPayload, Payload("point_source", 1, None),
                     Payload("horizontal_spread", 2, 50), Payload("horizontal_spread", 2, 101),
                     [EmptyPayload EXCEPT !.object = FALSE]}}
    \union {[document EXCEPT !.renderer = ComponentReference("renderer.vbap", "Renderer", payload)] :
        payload \in {[EmptyPayload EXCEPT !.depth = 9],
                     [Payload("point_source", 2, None) EXCEPT !.texts = {"blank"}]}}
    \union {[document EXCEPT !.fallback = rates] : rates \in {None, <<>>, <<1>>}}
    \union {[document EXCEPT !.texts = texts] : texts \in {{"ok", "blank"}, {"long"}}}
    \union {[document EXCEPT !.rate = 7999], [document EXCEPT !.frames = 0],
            [document EXCEPT !.buffering.target = 4], [document EXCEPT !.simulation.drift = NaN],
            [document EXCEPT !.simulation = None], [document EXCEPT !.diagnostics.retention = 0]}

\* Speakers changed: elevations, roles, identifiers and inactive speakers of any role.
Layouts(document) ==
  {[document EXCEPT !.layout.speakers[1] = [@ EXCEPT !.elevation = elevation]] :
      elevation \in {None, 0, 30, 91}}
    \union {[document EXCEPT !.layout.speakers[1] = [@ EXCEPT !.role = role]] :
        role \in {"FR", "TBL", "shelf"}}
    \union {[document EXCEPT !.layout.speakers = Append(@, [Speaker(id, role, -180, None)
                                                   EXCEPT !.active = used])] :
        id \in {0, 1}, role \in {"FL", "shelf"}, used \in BOOLEAN}
    \union {[document EXCEPT !.layout.kind = "CustomHorizontal",
                             !.layout.speakers = <<Speaker(1, "shelf", 0, 0)>>],
            [document EXCEPT !.layout.kind = "Surround51"],
            [document EXCEPT !.layout.elevated = ~@]}

\* Legacy documents of versions 0, 1 and 2.
Legacy(version, renderer, backend) ==
  [Stereo EXCEPT !.schema = Schema(version, None),
     !.renderer = renderer, !.output.legacy = backend]

LegacyDocuments ==
  {Legacy(version, [type |-> type, members |-> members, percent |-> spread, spread |-> spread],
          backend) :
     version \in 0 .. 1, type \in {"basic", "point_source_vbap", "horizontal_spread", "other"},
     members \in 1 .. 2, spread \in {None, 0, 100, 101, NaN},
     backend \in {None, "virtual", "offline", "unknown"}}
    \union {Legacy(2, Stereo.renderer, backend) : backend \in {None, "cpal", "offline"}}

AllDocuments ==
  RoutingDocuments \union Sections(Stereo) \union Sections(Atmos)
    \union Layouts(Stereo) \union Layouts(Atmos) \union LegacyDocuments

\* A base and two overlays, each with any two references, cycles among them.
AllCollections ==
  {<< Preset(2, "diagnostics", Diagnostics(9), overlays[1]),
      Preset(1, "full", Stereo, base),
      Preset(3, "renderer", ComponentReference("renderer.basic", "Renderer", EmptyPayload),
             overlays[2]),
      Preset(4, "diagnostics", Diagnostics(7), last) >> :
     overlays \in [1 .. 2 -> SmallSeqs(1 .. 3, 2)], base \in {<<>>, <<2>>, <<3>>},
     last \in {<<1>>, <<2>>, <<3>>, <<2, 3>>}}

\* A backend that may be used offline everywhere but never for live audio.
Studio == {Backend("studio", FALSE, "Portable")}

-----------------------------------------------------------------------------
Manifest(wellFormed, minMinor, maxMinor) ==
  [wellFormed |-> wellFormed, minMinor |-> minMinor, maxMinor |-> maxMinor]

\* Two builds of every version; one range for each host, one for both, one empty, and
\* one manifest that is not well formed.
Offered ==
  [version : Versions, digest : Digests, manifest : {Manifest(TRUE, 0, 1), Manifest(TRUE, 1, 1)}]
    \union [version : {1}, digest : Digests, manifest : {Manifest(FALSE, 0, 1), Manifest(TRUE, 1, 0)}]

-----------------------------------------------------------------------------
(* Devices of which one is named by a part of the name of another, one     *)
(* that captures, and two profiles of the simulation, one with a name      *)
(* twice.                                                                  *)

FormatRange(low, high, channels) == [low |-> low, high |-> high, channels |-> channels, sample |-> "F32"]
OutputDevice(name) ==
  [name |-> name, id |-> None, direction |-> "output", formats |-> {FormatRange(44, 48, 2)}]
VirtualDevice(name, id, direction) ==
  [name |-> name, id |-> id, direction |-> direction,
   formats |-> {FormatRange(48, 48, 2), FormatRange(48, 48, 8)}]

MCDevices ==
  {OutputDevice("usb"), [OutputDevice("usb2") EXCEPT !.formats = {[FormatRange(48, 48, 8) EXCEPT !.sample = "I16"],
                                                      FormatRange(48, 48, 2)}],
   [OutputDevice("usb") EXCEPT !.direction = "input"]}
MCNumerals == <<"0", "1", "2">>
Contained ==
  {<<d, d>> : d \in {"usb", "usb2", "stereo"}} \union {<<"usb", "usb2">>, <<"2", "usb2">>}
    \union {<<"0", d>> : d \in {"usb", "usb2", "stereo"}}
MCProfiles ==
  {<<VirtualDevice("stereo", "in", "input"), VirtualDevice("stereo", "out", "output")>>,
   <<VirtualDevice("usb", "in", "input"), VirtualDevice("usb", "out", "output"),
     VirtualDevice("usb", "duplicate", "output")>>}
MCRequests == {[direction |-> d, rate |-> 48, channels |-> c] : d \in {"input", "output"}, c \in {2, 8}}

-----------------------------------------------------------------------------
(* Events that are refused for each reason, filtered, or retained; and     *)
(* support documents with and without what their truth source requires.    *)

LogEvent(id, severity, source, path, size) ==
  [schema |-> 1, component |-> id, fields |-> <<[key |-> 4, value |-> size]>>,
   severity |-> severity, source |-> source, path |-> path]

MCEvents ==
  {LogEvent(1, 1, "UnitTest", None, 0), LogEvent(2, 2, "UnitTest", None, 0),
   LogEvent(3, 2, "PhysicalMeasurement", 5, 0), LogEvent(4, 1, "PhysicalMeasurement", 0, 0),
   LogEvent(5, 2, "UnitTest", -1, 0), LogEvent(6, 2, "UnitTest", None, 60),
   LogEvent(0, 1, "UnitTest", None, 0), [LogEvent(7, 2, "UnitTest", None, 0) EXCEPT !.schema = 2]}

SupportReport(source, seed, path) ==
  [type |-> "report", schema |-> 1, component |-> 1, operation |-> 1, scenario |-> 1,
   recommendation |-> 1, seed |-> seed, source |-> source, path |-> path]
SupportSnapshot(occupancy, retained, source, path) ==
  [type |-> "snapshot", schema |-> 1, renderer |-> 1, occupancy |-> occupancy, capacity |-> 2,
   retained |-> retained, retainable |-> 2, platform |-> 1, version |-> 1, commit |-> 1,
   source |-> source, path |-> path]

MCSupportDocuments ==
  {SupportReport("DeterministicSimulation", seed, None) : seed \in {None, 1}}
    \union {SupportReport("PhysicalMeasurement", None, path) : path \in {None, 0, 3}}
    \union {SupportSnapshot(2, retained, "UnitTest", None) : retained \in {2, 3}}
    \union {SupportSnapshot(3, 0, "UnitTest", None), SupportSnapshot(0, 0, "UnitTest", 3)}

-----------------------------------------------------------------------------
Registry == INSTANCE PluginRegistry
Manager == INSTANCE SourceSession
Live == INSTANCE LiveDecode
Daemon == INSTANCE OsDaemon WITH disk <- published
Plugged == INSTANCE AudioDevices
Diagnosed == INSTANCE Diagnostics

ASSUME ControlPlaneAssumption ==
  /\ Offered \subseteq Registry!Packages
  /\ MaxGeneration \in Nat \ {0} /\ None \notin [source : Sources, generation : Nat]
  /\ {RequiredStable, MaxErrors, MaxEmpty, MaxProbe} \subseteq Nat \ {0}
  /\ None \notin Plugged!AllDevices
  /\ \A profile \in Profiles :
       /\ profile \in Seq(Plugged!AllDevices)
       /\ \A i, j \in DOMAIN profile : profile[i].id = profile[j].id => i = j
  /\ Capacity \in Nat \ {0} /\ MostCounted \in Nat
  /\ Durations \subseteq Nat /\ Occupancies \subseteq Nat

\* The document only matters to the pipeline, the devices to their selection and the log to
\* its owners.
MCInit ==
  /\ focus \in {"registry", "manager", "live", "setup", "daemon", "devices", "log", "metrics"}
  /\ Registry!Init /\ Manager!Init /\ Live!Init /\ Daemon!Init
  /\ Plugged!Init
  /\ focus # "devices" => /\ driver = "cpal" /\ host = <<CHOOSE d \in Devices : TRUE>>
                          /\ request = CHOOSE r \in Requests : TRUE
                          /\ selector = [kind |-> "default"]
  /\ Diagnosed!Init
  /\ focus # "log" => ~shared /\ log.minimum = CHOOSE s \in Severities : TRUE
  /\ IF focus = "setup" THEN Init
     ELSE /\ doc = None /\ presets = None /\ config = None /\ chosen = None /\ saved = None
          /\ plan = None /\ setup = None /\ report = None /\ shown = {}

RegistryMoves ==
  /\ focus = "registry" /\ Registry!Next
  /\ UNCHANGED <<focus, managerVars, liveVars, setupVars, daemonVars, deviceVars, logVars, metricVars>>
ManagerMoves ==
  /\ focus = "manager" /\ Manager!Next
  /\ UNCHANGED <<focus, registryVars, liveVars, setupVars, daemonVars, deviceVars, logVars, metricVars>>
LiveMoves ==
  /\ focus = "live" /\ Live!Next
  /\ UNCHANGED <<focus, registryVars, managerVars, setupVars, daemonVars, deviceVars, logVars, metricVars>>
SetupMoves ==
  /\ focus = "setup" /\ Next
  /\ UNCHANGED <<focus, registryVars, managerVars, liveVars, daemonVars, deviceVars, logVars, metricVars>>
DaemonMoves ==
  /\ focus = "daemon" /\ Daemon!Next
  /\ UNCHANGED <<focus, registryVars, managerVars, liveVars, setupVars, deviceVars, logVars, metricVars>>
DeviceMoves ==
  /\ focus = "devices" /\ Plugged!Next
  /\ UNCHANGED <<focus, registryVars, managerVars, liveVars, setupVars, daemonVars, logVars, metricVars>>
LogMoves ==
  /\ focus = "log" /\ Diagnosed!LogNext
  /\ UNCHANGED <<focus, registryVars, managerVars, liveVars, setupVars, daemonVars, deviceVars, metricVars>>
MetricMoves ==
  /\ focus = "metrics" /\ Diagnosed!MetricNext
  /\ UNCHANGED <<focus, registryVars, managerVars, liveVars, setupVars, daemonVars, deviceVars, logVars>>

MCNext == \/ RegistryMoves \/ ManagerMoves \/ LiveMoves \/ SetupMoves
          \/ DaemonMoves \/ DeviceMoves \/ LogMoves \/ MetricMoves

mcVars == <<focus, registryVars, managerVars, liveVars, setupVars, daemonVars, deviceVars,
            logVars, metricVars>>

MCSpec == MCInit /\ [][MCNext]_mcVars

\* The threads that record into the counters are alike, and no property tells them apart.
Interchangeable == Permutations(Recorders)

-----------------------------------------------------------------------------
\* PluginRegistry: a snapshot written between any two operations can be restored, a version
\* keeps the digest it was first staged with, and what is active was committed.
RegistrySound == /\ Registry!TypeOK /\ Registry!SnapshotRestorable
                 /\ Registry!IdentityPermanent /\ Registry!ActiveWasCommitted

\* SourceSessionManager and LiveImmersiveRuntime: only the active session plays, nothing is
\* audible before a stable acquisition, and a stream without good packets is given up.
SessionsSound == /\ Manager!TypeOK /\ Manager!OnlyActivePlays
                 /\ Live!TypeOK /\ Live!AudibleOnlyStable /\ Live!PoorStreamFaults

\* SourceSessionManager: a chunk reaches the speakers from the active session only.
ReleasedOnlyActive == Manager!ReleasedOnlyActive

\* The setup pipeline: a plan pairs inputs and active outputs one to one, is the same after
\* migration and has no backend that is not realtime safe in a plan for live audio; a saved
\* configuration is read back as it was, the payload of the chosen preset is in it, and
\* redaction leaves no name of the user in what is shown.
SetupSound ==
  /\ RoutesBijective /\ MigrationKeepsPlan /\ LiveIsRealtime
  /\ CanonicalReloads /\ PayloadHasLastWord /\ NothingLeaks

\* reconcile_once: published documents are whole, and health says what the plan is.
DaemonSound == Daemon!PublishedWhole /\ Daemon!HealthOfPlan

\* CpalAudioBackend and SimAudioBackend: a stable selector opens a device it was made of, or
\* none, and no device in a format it does not have.
StableSelectorKept ==
  Plugged!TypeOK /\ Plugged!StableSelectorKept /\ Plugged!FormatSupported

\* aurora-diagnostics: the log holds the newest events and counts the others, nothing claims
\* a measurement it does not document, and a snapshot of the counters misses nothing.
DiagnosticsSound ==
  /\ Diagnosed!TypeOK /\ Diagnosed!NewestRetained /\ Diagnosed!TruthDocumented
  /\ Diagnosed!SnapshotBracketed
=============================================================================
