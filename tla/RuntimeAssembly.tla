--------------------------- MODULE RuntimeAssembly ---------------------------
(***************************************************************************)
(* aurora-runtime-assembly and aurora-runtime-inspection: from a validated *)
(* configuration to the prepared runtime plan, its setup plan and the      *)
(* report an operator is shown, and the control thread that goes this way. *)
(*                                                                         *)
(* Abstraction: a speaker direction is the pair of angles it is computed   *)
(* from, with the angles that give one vector identified.  Every string    *)
(* that comes from the document is tagged Local, a redaction marker is     *)
(* tagged Marker and a name of the program Public.  String lengths are not *)
(* modelled, so the byte limits of the report never apply.                 *)
(***************************************************************************)
EXTENDS Configuration, Functions

CONSTANTS Registrations    \* backends added to the builtin registry

(***************************************************************************)
(* Registries                                                              *)
(***************************************************************************)
Backend(id, realtime, platform) ==
  [id |-> id, version |-> "0.1.0", major |-> 1, minor |-> 0, schema |-> 1,
   lowest |-> 8000, highest |-> 192000, channels |-> 32,
   realtime |-> realtime, platform |-> platform]

\* BackendComponentRegistry::builtin, the same entries for both directions, and
\* with_registration, which refuses a second entry of an identifier.
BuiltinBackends ==
  {Backend("virtual", TRUE, "Portable"), Backend("cpal", TRUE, "HostAudioBuild"),
   Backend("offline", FALSE, "OfflineOnly")}

WithRegistrations(builtin, added) ==
  builtin \union {entry \in added : \A known \in builtin : known.id # entry.id}

BackendRegistry == WithRegistrations(BuiltinBackends, Registrations)

Compatible(reference, entry) ==
  /\ reference.major = entry.major
  /\ reference.minimum <= entry.minor /\ entry.minor <= reference.maximum
  /\ reference.pin \in {None, entry.version}
  /\ reference.schema = entry.schema

\* The build is one for a host with audio.
PlatformOk(entry, mode) ==
  CASE entry.platform = "Portable" -> TRUE
    [] entry.platform = "HostAudioBuild" -> TRUE
    [] entry.platform = "OfflineOnly" -> mode = "Offline"

AnySafety(entry, mode) == TRUE

SafetyOk(entry, mode) == mode = "LiveIntent" => entry.realtime

Identity(entry) == [id |-> entry.id, version |-> entry.version, major |-> entry.major,
                    minor |-> entry.minor]

ResolveBackend(reference, kind, rate, channels, mode) ==
  LET found == {entry \in BackendRegistry : entry.id = reference.id}
      entry == CHOOSE e \in found : TRUE
  IN  IF /\ reference.kind = kind
         /\ found # {}
         /\ Compatible(reference, entry)
         /\ reference.payload.object /\ reference.payload.members = 0
         /\ entry.lowest <= rate /\ rate <= entry.highest /\ channels <= entry.channels
         /\ SafetyOk(entry, mode)
         /\ PlatformOk(entry, mode)
      THEN [identity |-> Identity(entry), kind |-> kind, schema |-> entry.schema]
      ELSE None

RendererRegistry ==
  {[id |-> id, version |-> "0.1.0", major |-> 1, minor |-> 0, schema |-> 1] :
     id \in {"renderer.basic", "renderer.vbap", "renderer.external"}}

ResolveBasic(payload) ==
  IF payload.object /\ payload.members = 0 THEN [kind |-> "BasicInverseDistance", spread |-> None]
  ELSE None

ResolveVbap(payload, speakers) ==
  CASE speakers >= 2 /\ payload.object /\ payload.mode = "point_source" /\ payload.members = 1 ->
         [kind |-> "PointSourceHorizontalVbap", spread |-> None]
    [] speakers >= 2 /\ payload.object /\ payload.mode = "horizontal_spread"
         /\ payload.members = 2 /\ payload.spread # None /\ Within(payload.spread, 0, 100) ->
         [kind |-> "HorizontalSpreadVbap", spread |-> payload.spread]
    [] OTHER -> None

\* An external object renderer, registered with external_object_pcm, here with a
\* validator that accepts an empty payload.
ResolveExternal(payload) ==
  IF payload.object /\ payload.members = 0 THEN [kind |-> "ExternalObjectPcm", spread |-> None]
  ELSE None

ResolveRenderer(reference, speakers) ==
  LET found == {entry \in RendererRegistry : entry.id = reference.id}
      entry == CHOOSE e \in found : TRUE
      plan == CASE reference.id = "renderer.basic" -> ResolveBasic(reference.payload)
                [] reference.id = "renderer.vbap" -> ResolveVbap(reference.payload, speakers)
                [] reference.id = "renderer.external" -> ResolveExternal(reference.payload)
  IN  IF /\ reference.kind = "Renderer"
         /\ found # {}
         /\ Compatible(reference, entry)
         /\ plan # None
      THEN [plan |-> plan, identity |-> Identity(entry)]
      ELSE None

(***************************************************************************)
(* Derivation of the runtime plan                                          *)
(***************************************************************************)
RoutingPlanOk(routing) ==
  /\ Unique(routing.inputs) /\ Unique(routing.outputs) /\ Unique(routing.inactive)
  /\ \A i \in DOMAIN routing.routes :
       routing.routes[i][1] \in ToSet(routing.inputs)
         /\ routing.routes[i][2] \in ToSet(routing.outputs)
  /\ ToSet(routing.inactive) \subseteq ToSet(routing.outputs)

\* Straight up every azimuth gives the same vector, and so do both ends of the circle.
Direction(azimuth, elevation) ==
  << IF elevation \in {-90, 90} THEN 0 ELSE IF azimuth = -180 THEN 180 ELSE azimuth, elevation >>

CanonicalRoles ==
  << "FL", "FR", "FC", "LFE", "SL", "SR", "SBL", "SBR", "TFL", "TFR", "TRL", "TRR" >>

\* prepare_role: the names TBL and TBR are the roles TRL and TRR (so are the long names
\* of the roles, left out here), a name that is not known is a custom role.
PrepareRole(role) == CASE role = "TBL" -> "TRL" [] role = "TBR" -> "TRR" [] OTHER -> role

StandardRole(role) == role \in ToSet(CanonicalRoles)

Rank(role) ==
  IF StandardRole(role) THEN CHOOSE i \in DOMAIN CanonicalRoles : CanonicalRoles[i] = role
  ELSE Len(CanonicalRoles) + 1

PrepareSpeaker(speaker, elevation) ==
  [id |-> speaker.id, role |-> PrepareRole(speaker.role), active |-> speaker.active,
   direction |-> Direction(speaker.azimuth, elevation)]

PrepareLayout(layout) ==
  [kind |-> layout.kind,
   speakers |-> [i \in DOMAIN layout.speakers |-> PrepareSpeaker(layout.speakers[i], 0)]]

ByRank(left, right) ==
  Rank(left.role) < Rank(right.role)
    \/ (Rank(left.role) = Rank(right.role) /\ left.id <= right.id)

AlwaysCanonical(kind, speakers) == SortSeq(speakers, ByRank)

\* A 7.1.4 layout is put in canonical channel order, every other keeps the order of
\* the document.
InChannelOrder(kind, speakers) ==
  IF kind = "Surround714" THEN SortSeq(speakers, ByRank) ELSE speakers

PrepareLayoutV4(layout) ==
  LET elevation(speaker) == IF speaker.elevation = None THEN 0 ELSE speaker.elevation
  IN  [kind |-> layout.kind,
       speakers |-> InChannelOrder(layout.kind,
         [i \in DOMAIN layout.speakers |->
            PrepareSpeaker(layout.speakers[i], elevation(layout.speakers[i]))])]

LayoutPlanOk(layout) == layout.speakers # <<>> /\ Unique(Ids(layout.speakers))

\* prepare_device_selector: the set of the prepared selector, empty on an error.
PrepareDeviceSelector(device, direction, kind, config, channels) ==
  IF device = None THEN {None}
  ELSE LET backend == ResolveBackend(device.backend, kind, config.rate, channels, config.mode)
       IN  IF device.direction = direction /\ backend # None
              /\ ~(device.stable = None /\ device.friendly = None)
           THEN {[stable |-> device.stable, friendly |-> device.friendly,
                  ambiguity |-> device.ambiguity, backend |-> backend]}
           ELSE {}

FormatPlan(config) ==
  [rate |-> config.rate, inputs |-> Len(config.routing.inputs),
   outputs |-> Len(config.routing.outputs), frames |-> config.frames,
   fallback |-> config.fallback]

\* RuntimeCapacityPlan::new; the other capacities are deferred until setup.
CapacityPlan(routing, layout, frames) ==
  [inputs |-> Len(routing.inputs), outputs |-> Len(routing.outputs),
   routes |-> Len(routing.routes), speakers |-> Len(layout.speakers), frames |-> frames,
   gains |-> Len(routing.outputs)]

ActiveSpeakers(layout) == Len(SelectSeq(layout.speakers, LAMBDA speaker : speaker.active))

\* prepare_runtime_plan_with_registries and from_configuration_v4_with_registries.
PreparePlan(config, layout) ==
  LET routing == config.routing
      renderer == ResolveRenderer(config.renderer, ActiveSpeakers(layout))
      inputs == PrepareDeviceSelector(config.input, "Input", "AudioInputBackend", config,
                                      Len(routing.inputs))
      outputs == PrepareDeviceSelector(config.output, "Output", "AudioOutputBackend", config,
                                       Len(routing.outputs))
  IN  IF /\ RoutingPlanOk(routing)
         /\ config.channels = Len(routing.outputs)
         /\ LayoutPlanOk(layout)
         /\ config.rate > 0 /\ Len(routing.outputs) > 0 /\ config.frames > 0
         /\ renderer # None
         /\ inputs # {} /\ outputs # {}
      THEN [version |-> config.schema.version, mode |-> config.mode,
            format |-> FormatPlan(config), renderer |-> renderer, dsp |-> "None",
            routing |-> routing, layout |-> layout,
            input |-> CHOOSE selector \in inputs : TRUE,
            output |-> CHOOSE selector \in outputs : TRUE,
            capacity |-> CapacityPlan(routing, layout, config.frames)]
      ELSE None

PrepareRuntimePlan(config) ==
  PreparePlan(config, IF config.schema.version = 4 THEN PrepareLayoutV4(config.layout)
                      ELSE PrepareLayout(config.layout))

(***************************************************************************)
(* Setup plan                                                              *)
(***************************************************************************)
Stages == << "Device", "Format", "Renderer", "Dsp", "Backend", "Complete" >>

\* <<stage, the stage it depends on>>
Dependencies ==
  << <<"Renderer", "Format">>, <<"Dsp", "Format">>, <<"Backend", "Device">>,
     <<"Backend", "Format">>, <<"Complete", "Device">>, <<"Complete", "Format">>,
     <<"Complete", "Renderer">>, <<"Complete", "Dsp">>, <<"Complete", "Backend">> >>

\* The stages of which no edge that is left says they depend on another.
Free(stages, removed, edges) ==
  {stage \in stages \ removed :
     \A i \in DOMAIN edges : edges[i][1] = stage => edges[i][2] \in removed}

\* validate_acyclic removes one free stage after the other; which one first makes no
\* difference to the stages that are left.
Acyclic(edges) ==
  LET stages == ToSet(Stages)
      removed[n \in 0 .. Len(Stages)] ==
        IF n = 0 THEN {} ELSE removed[n - 1] \union Free(stages, removed[n - 1], edges)
  IN  removed[Len(Stages)] = stages

\* PreparedSetupPlan::new on the given stages and dependencies.
SetupOk(stages, edges) ==
  /\ Unique(stages) /\ stages = Stages
  /\ \A i \in DOMAIN edges : edges[i][1] # edges[i][2]
  /\ Unique(edges)
  /\ Acyclic(edges)
  /\ ToSet(Dependencies) \subseteq ToSet(edges)
  /\ edges = Dependencies

BackendOf(selector) == IF selector = None THEN None ELSE selector.backend

\* prepare_setup_plan copies what the plan says and adds the stages.
PrepareSetupPlan(plan) ==
  IF SetupOk(Stages, Dependencies) /\ plan.format.outputs = Len(plan.routing.outputs)
  THEN [input |-> plan.input, output |-> plan.output, format |-> plan.format,
        renderer |-> plan.renderer, routing |-> plan.routing, layout |-> plan.layout,
        dsp |-> plan.dsp, stages |-> Stages, dependencies |-> Dependencies,
        backends |-> <<BackendOf(plan.input), BackendOf(plan.output)>>]
  ELSE None

(***************************************************************************)
(* Inspection                                                              *)
(***************************************************************************)
Local(category, value) == <<"local", category, value>>
Marker(category, index) == <<"marker", category, index>>
Public(value) == <<"public", "name", value>>

\* validate_plan_pair: both plans come from one configuration.
PlansMatch(plan, setup) ==
  /\ plan.input = setup.input /\ plan.output = setup.output
  /\ plan.format = setup.format
  /\ plan.renderer = setup.renderer
  /\ plan.routing = setup.routing /\ plan.layout = setup.layout
  /\ plan.dsp = setup.dsp

Sensitive(reveal, value, marker) == IF reveal THEN Local(marker[2], value) ELSE marker

ProjectChannels(reveal, channels, category) ==
  [i \in DOMAIN channels |-> Sensitive(reveal, channels[i], Marker(category, i))]

\* map_reference: a reference is shown as the channel it refers to.
MapReference(id, channels, projected) ==
  projected[CHOOSE i \in DOMAIN channels : channels[i] = id]

RoleAsIs(reveal, role, index) == Local("custom-channel-role", role)

\* A custom role is a name of the user, a standard role one of the program.
ProjectRole(reveal, role, index) ==
  IF StandardRole(role) THEN Public(role)
  ELSE Sensitive(reveal, role, Marker("custom-channel-role", index))

ProjectSpeakers(reveal, speakers) ==
  [i \in DOMAIN speakers |->
     [id |-> Sensitive(reveal, speakers[i].id, Marker("speaker-id", i)),
      role |-> ProjectRole(reveal, speakers[i].role, i),
      direction |-> speakers[i].direction, active |-> speakers[i].active]]

ProjectDevice(reveal, selector, direction) ==
  LET shown(value, category) ==
        IF value = None THEN None ELSE Sensitive(reveal, value, Marker(category, direction))
  IN  IF selector = None THEN None
      ELSE [stable |-> shown(selector.stable, "device-stable-id"),
            friendly |-> shown(selector.friendly, "device-friendly-name"),
            backend |-> Public(selector.backend.identity.id),
            ambiguity |-> selector.ambiguity]

ProjectTopology(reveal, plan) ==
  LET routing == plan.routing
      inputs == ProjectChannels(reveal, routing.inputs, "input-channel-id")
      outputs == ProjectChannels(reveal, routing.outputs, "output-channel-id")
  IN  [inputs |-> inputs, outputs |-> outputs,
       routes |-> [i \in DOMAIN routing.routes |->
                     << MapReference(routing.routes[i][1], routing.inputs, inputs),
                        MapReference(routing.routes[i][2], routing.outputs, outputs) >>],
       inactive |-> [i \in DOMAIN routing.inactive |->
                       MapReference(routing.inactive[i], routing.outputs, outputs)],
       speakers |-> ProjectSpeakers(reveal, plan.layout.speakers)]

Findings(plan, setup, reveal) ==
  {"ControlPlaneIntentOnly", "SetupCapacitiesDeferred",
   "CanonicalSetupDependencyOrderRepresented", "DspAbsent"}
    \union (IF reveal THEN {} ELSE {"SensitiveIdentifiersRedacted"})
    \union (IF plan.input # None \/ plan.output # None
            THEN {"RequestedDeviceSelectionUnresolved"} ELSE {})
    \union (IF plan.routing.inactive # <<>> THEN {"InactiveOutputsPresent"} ELSE {})
    \union (IF \E i \in DOMAIN plan.layout.speakers : ~StandardRole(plan.layout.speakers[i].role)
            THEN {"CustomSpeakerRolesPresent"} ELSE {})
    \union (IF "Complete" \in ToSet(setup.stages)
            THEN {"SetupPlanCompletionDescriptiveOnly"} ELSE {})

\* InspectionReport::project
Report(plan, setup, reveal) ==
  [topology |-> ProjectTopology(reveal, plan),
   devices |-> <<ProjectDevice(reveal, plan.input, "input"),
                 ProjectDevice(reveal, plan.output, "output")>>,
   capacity |-> plan.capacity, findings |-> Findings(plan, setup, reveal)]

\* validate_report bounds the entries of the collections together; 3 kinds of fact and
\* 6 deferred capacities are always there.
Formattable(report, setup) ==
  Cardinality(report.findings) + 3 + Len(report.topology.inputs) + Len(report.topology.outputs)
    + Len(report.topology.routes) + Len(report.topology.inactive)
    + Len(report.topology.speakers) + 6 + Len(setup.stages) + Len(setup.dependencies) <= 256

\* The strings JsonFormatter and TextFormatter write, beside their fixed wording.
FormatTopology(report) ==
  ToSet(report.topology.inputs) \union ToSet(report.topology.outputs)
    \union UNION {ToSet(report.topology.routes[i]) : i \in DOMAIN report.topology.routes}
    \union ToSet(report.topology.inactive)
    \union {report.topology.speakers[i].id : i \in DOMAIN report.topology.speakers}
    \union {report.topology.speakers[i].role : i \in DOMAIN report.topology.speakers}

FormatDevices(report) ==
  UNION {{report.devices[i].stable, report.devices[i].friendly, report.devices[i].backend} :
           i \in {j \in 1 .. 2 : report.devices[j] # None}} \ {None}

Format(report) == FormatTopology(report) \union FormatDevices(report)

(***************************************************************************)
(* The setup pipeline: the control thread's way from a document to a       *)
(* report.  It reads, migrates or materialises a configuration, saves and  *)
(* reads it again, prepares the runtime plan and its setup plan, and shows *)
(* what was prepared.  A call that returns an error changes nothing.       *)
(***************************************************************************)
CONSTANTS Documents,      \* what the files that are read may hold
          Collections     \* the preset collections

VARIABLES doc,         \* the document at hand, None when there is a collection
          presets,     \* the preset collection at hand, or None
          config,      \* ValidatedConfiguration or ValidatedConfigurationV4
          chosen,      \* the preset that was materialised
          saved,       \* the canonical JSON that was written
          plan, setup, \* PreparedRuntimePlan, PreparedSetupPlan
          report, shown

setupVars == <<doc, presets, config, chosen, saved, plan, setup, report, shown>>

Init ==
  /\ \/ doc \in Documents /\ presets = None
     \/ presets \in Collections /\ doc = None
  /\ config = None /\ chosen = None /\ saved = None
  /\ plan = None /\ setup = None /\ report = None /\ shown = {}

Unprepared == UNCHANGED <<doc, presets, saved, plan, setup, report, shown>>

\* from_json of either schema
Read ==
  /\ doc # None /\ config = None
  /\ config' = IF doc.schema.version = 4 THEN ValidatedV4(doc) ELSE Validated(doc)
  /\ UNCHANGED chosen /\ Unprepared

Migrate ==
  /\ doc # None /\ config = None
  /\ \E version \in 0 .. 2 : config' = MigrateToV3(doc, version)
  /\ UNCHANGED chosen /\ Unprepared

MigrateNative ==
  /\ doc # None /\ config = None
  /\ config' = MigrateV3ToV4(doc)
  /\ UNCHANGED chosen /\ Unprepared

Materialize ==
  /\ presets # None /\ config = None
  /\ \E id \in 1 .. 4 :
       /\ config' = MaterializePreset(presets, id)
       /\ chosen' = IF config' = None THEN None ELSE id
  /\ Unprepared

\* canonical_json; what is written is what the next start reads.
Save ==
  /\ config # None /\ plan = None /\ saved = None
  /\ saved' = Canonical(config)
  /\ UNCHANGED <<doc, presets, config, chosen, plan, setup, report, shown>>

Reread(document) == IF document.schema.version = 4 THEN ValidatedV4(document) ELSE Validated(document)

Reload ==
  /\ saved # None /\ plan = None
  /\ config' = Reread(saved)
  /\ UNCHANGED chosen /\ Unprepared

\* prepare_runtime_plan, PreparedRuntimePlan::from_configuration_v4
Prepare ==
  /\ config # None
  /\ plan' = PrepareRuntimePlan(config)
  /\ UNCHANGED <<doc, presets, config, chosen, saved, setup, report, shown>>

Setup ==
  /\ plan # None
  /\ setup' = PrepareSetupPlan(plan)
  /\ UNCHANGED <<doc, presets, config, chosen, saved, plan, report, shown>>

\* InspectionReport::project and one of the formatters
Inspect(reveal) ==
  /\ setup # None
  /\ PlansMatch(plan, setup)
  /\ report' = [revealed |-> reveal, body |-> Report(plan, setup, reveal)]
  /\ Formattable(report'.body, setup)
  /\ shown' = Format(report'.body)
  /\ UNCHANGED <<doc, presets, config, chosen, saved, plan, setup>>

\* RedactedConfiguration::new for a diagnostic snapshot
Redact ==
  /\ config # None /\ plan = None
  /\ \E mode \in {"Strict", "StableIdentifiers"} :
       shown' = {Redacted(config, mode).input, Redacted(config, mode).output} \ {None}
  /\ UNCHANGED <<doc, presets, config, chosen, saved, plan, setup, report>>

Next ==
  \/ Read \/ Migrate \/ MigrateNative \/ Materialize \/ Save \/ Reload
  \/ Prepare \/ Setup \/ Redact
  \/ \E reveal \in BOOLEAN : Inspect(reveal)

Spec == Init /\ [][Next]_setupVars

(***************************************************************************)
(* Properties                                                              *)
(***************************************************************************)
\* Whatever document, migration or preset it came from, a prepared plan routes every
\* input to one output and feeds every output that is not inactive from one input
\* ("an active output has no assignment" is an error, validation.rs:314).
RoutesBijective ==
  plan # None =>
    LET routes == ToSet(plan.routing.routes)
        live == ToSet(plan.routing.outputs) \ ToSet(plan.routing.inactive)
    IN  /\ Cardinality(routes) = Len(plan.routing.routes)
        /\ \A input \in ToSet(plan.routing.inputs) :
             Cardinality({route \in routes : route[1] = input}) = 1
        /\ \A output \in live : Cardinality({route \in routes : route[2] = output}) = 1
        /\ \A route \in routes : route[2] \in live
        /\ plan.capacity.outputs = plan.format.outputs

\* A document of schema v3 and its migration to v4 prepare one plan but for the schema
\* version ("Existing horizontal layouts retain their semantics", configuration_v4.rs:167).
MigrationKeepsPlan ==
  (doc # None /\ plan # None /\ plan.version = 4 /\ doc.schema.version = 3) =>
    plan = [PrepareRuntimePlan(Validated(doc)) EXCEPT !.version = 4]

\* The canonical JSON of an accepted configuration is accepted again and means the same:
\* a configuration that was saved once survives every restart.
CanonicalReloads == saved # None => Reread(saved) = saved

\* A plan for live audio names no backend that is not realtime safe, whether the
\* document named it or a migration put it there.
LiveIsRealtime ==
  (plan # None /\ plan.mode = "LiveIntent") =>
    \A selector \in {plan.input, plan.output} \ {None} :
      \A entry \in BackendRegistry :
        entry.id = selector.backend.identity.id => entry.realtime

\* A report that is not revealed shows no name of the user: neither an identifier nor a
\* custom role of a speaker (the redacted-by-default projection of lib.rs:15).  Nor
\* does a diagnostic snapshot show what a device is called (redaction.rs:15).
NothingLeaks ==
  /\ (report # None /\ ~report.revealed) => \A name \in shown : name[1] # "local"
  /\ report = None => \A device \in shown : device.friendly = None

\* What a preset says itself has the last word in what it materialises to.
PayloadHasLastWord ==
  (chosen # None /\ config # None /\ saved = None) =>
    config = Normalize(Overlaid(config, PresetNamed(presets, chosen)))
=============================================================================
