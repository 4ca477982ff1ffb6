---------------------------- MODULE Configuration ----------------------------
(***************************************************************************)
(* aurora-config: validation and normalisation of configuration documents, *)
(* schema v4, the migrations 0/1/2 -> 3 and 3 -> 4, presets and redaction. *)
(*                                                                         *)
(* Abstraction: identifiers are numbers ordered as their strings are; the  *)
(* remaining strings of a document are `texts', the set of their classes   *)
(* ("ok", "blank", "long"); a component payload is its shape, its `mode'   *)
(* and `spread' members, how many members it has, how deep it goes and the *)
(* classes of its keys and strings.  Angles and percentages are whole,     *)
(* `NaN' a number that is not finite.  Error codes are not told apart: a   *)
(* check is a conjunct, in the order of the code.                          *)
(***************************************************************************)
EXTENDS Integers, Sequences, FiniteSets, SequencesExt

CONSTANTS None,           \* an absent optional value
          MaxRefs,        \* MAX_COMPOSITION_DEPTH: direct references, depth
          MaxEntries      \* MAX_CHANNELS = MAX_SPEAKERS, MAX_ROUTES is twice as many

NaN == 999
Within(n, low, high) == n # NaN /\ n >= low /\ n <= high
Unique(seq) == \A i, j \in DOMAIN seq : seq[i] = seq[j] => i = j
Ids(seq) == [i \in DOMAIN seq |-> seq[i].id]

(***************************************************************************)
(* Documents                                                               *)
(***************************************************************************)
Schema(version, by) == [version |-> version, reader |-> version, by |-> by]

OperatingModes == {"Offline", "Simulation", "LiveIntent"}

Payload(mode, members, spread) ==
  [object |-> TRUE, mode |-> mode, members |-> members, spread |-> spread, depth |-> 1,
   entries |-> members, keys |-> {}, texts |-> {}]
EmptyPayload == Payload(None, 0, None)

ComponentReference(id, kind, payload) ==
  [id |-> id, kind |-> kind, major |-> 1, minimum |-> 0, maximum |-> 0, pin |-> None,
   schema |-> 1, payload |-> payload]

\* `legacy' is the name of the backend in documents before version 3.
Device(direction, backend) ==
  [stable |-> "ok", friendly |-> "ok", direction |-> direction,
   ambiguity |-> "RequireStableIdentifier", legacy |-> None, backend |-> backend]

Routing(inputs, outputs, routes, inactive) ==
  [inputs |-> inputs, outputs |-> outputs, routes |-> routes, inactive |-> inactive]

Speaker(id, role, azimuth, elevation) ==
  [id |-> id, role |-> role, azimuth |-> azimuth, elevation |-> elevation, active |-> TRUE]

Layout(kind, speakers, elevated) ==
  [kind |-> kind, speakers |-> speakers, elevated |-> elevated]

Buffering(minimum, target, maximum, capacity) ==
  [minimum |-> minimum, target |-> target, maximum |-> maximum, capacity |-> capacity,
   preallocated |-> TRUE]

Diagnostics(retention) == [retention |-> retention, sources |-> {"host"}]

Simulation(drift) == [drift |-> drift, texts |-> {"ok"}]

(***************************************************************************)
(* Validation of schema v3                                                 *)
(***************************************************************************)
SchemaOk(config, version) == config.schema.version = version /\ config.schema.reader = version

StringsOk(config) ==
  /\ config.texts \subseteq {"ok"}
  /\ config.schema.by \in {None, "ok"}

FormatOk(config) ==
  /\ Within(config.rate, 8000, 192000)
  /\ Within(config.channels, 1, MaxEntries)
  /\ Within(config.frames, 1, 8192)
  /\ config.fallback # None =>
       /\ Len(config.fallback) \in 1 .. 8
       /\ \A i \in DOMAIN config.fallback : Within(config.fallback[i], 8000, 192000)

\* Only a key must not be blank.
PayloadOk(payload) ==
  /\ payload.depth <= 8
  /\ payload.entries <= 128
  /\ payload.keys \subseteq {"ok"} /\ payload.texts \subseteq {"ok", "blank"}

ReferenceOk(reference, kind) ==
  /\ reference.kind = kind
  /\ reference.major # 0
  /\ reference.minimum <= reference.maximum
  /\ reference.schema # 0
  /\ reference.payload.object
  /\ PayloadOk(reference.payload)

\* The direction of the selector is not looked at here.
DeviceOk(device, kind) ==
  device # None =>
    /\ device.stable \notin {None, "blank"} \/ device.friendly \notin {None, "blank"}
    /\ device.ambiguity # "AllowFirst"
    /\ device.ambiguity = "RequireStableIdentifier" => device.stable # None
    /\ {device.stable, device.friendly} \cap {"blank", "long"} = {}
    /\ ReferenceOk(device.backend, kind)

DevicesOk(config) ==
  /\ DeviceOk(config.input, "AudioInputBackend")
  /\ DeviceOk(config.output, "AudioOutputBackend")

OutputsOnce(routes) == Unique([i \in DOMAIN routes |-> routes[i][2]])

\* assigned_inputs and assigned_outputs refuse a second insertion.
RoutesOnce(routes) ==
  /\ Unique([i \in DOMAIN routes |-> routes[i][1]])
  /\ Unique([i \in DOMAIN routes |-> routes[i][2]])

RoutingOk(config) ==
  LET routing == config.routing
      routes == routing.routes
      inputs == ToSet(routing.inputs)
      outputs == ToSet(routing.outputs)
      inactive == ToSet(routing.inactive)
      assignedInputs == {routes[i][1] : i \in DOMAIN routes}
      assignedOutputs == {routes[i][2] : i \in DOMAIN routes}
  IN  /\ Len(routing.inputs) <= MaxEntries /\ Len(routing.outputs) <= MaxEntries
      /\ Len(routes) <= 2 * MaxEntries
      /\ Len(routing.outputs) = config.channels
      /\ Unique(routing.inputs) /\ Unique(routing.outputs) /\ Unique(routing.inactive)
      /\ inactive \subseteq outputs
      /\ assignedInputs \subseteq inputs
      /\ assignedOutputs \subseteq outputs \ inactive
      /\ RoutesOnce(routes)
      /\ outputs \ inactive \subseteq assignedOutputs
      /\ inputs \subseteq assignedInputs

GeometryOk(speakers) ==
  \A i \in DOMAIN speakers :
    /\ Within(speakers[i].azimuth, -180, 180)
    /\ speakers[i].elevation # None => Within(speakers[i].elevation, -90, 90)

Bed51 == {"FL", "FR", "FC", "LFE", "SL", "SR"}
Bed71 == Bed51 \union {"SBL", "SBR"}
Heights == {"TFL", "TFR", "TRL", "TRR"}

StandardRoles(kind) ==
  CASE kind = "Stereo" -> {"FL", "FR"}
    [] kind = "Surround51" -> Bed51
    [] kind = "Surround71" -> Bed71
    [] kind = "Surround714" -> Bed71 \union Heights
    [] kind = "CustomHorizontal" -> {}

\* The active speakers of a standard layout carry its roles, each once.
RolesOk(speakers, expected) ==
  LET active == SelectSeq(speakers, LAMBDA speaker : speaker.active)
  IN  expected # {} => /\ Len(active) = Cardinality(expected)
                       /\ {active[i].role : i \in DOMAIN active} = expected

LayoutOk(config) ==
  LET layout == config.layout
  IN  /\ Len(layout.speakers) \in 1 .. MaxEntries
      /\ ~layout.elevated
      /\ Unique(Ids(layout.speakers))
      /\ GeometryOk(layout.speakers)
      /\ RolesOk(layout.speakers, StandardRoles(layout.kind))

BufferingOk(config) ==
  LET policy == config.buffering
  IN  /\ policy.minimum <= policy.target /\ policy.target <= policy.maximum
      /\ policy.maximum <= policy.capacity
      /\ policy.capacity # 0 /\ policy.preallocated

DiagnosticsOk(config) ==
  config.diagnostics.retention \in 1 .. 65536 /\ config.diagnostics.sources # {}

SimulationOk(config) ==
  config.simulation # None =>
    Within(config.simulation.drift, -500, 500) /\ config.simulation.texts \subseteq {"ok"}

ValidRoot(config) ==
  /\ SchemaOk(config, 3)
  /\ StringsOk(config)
  /\ FormatOk(config)
  /\ DevicesOk(config)
  /\ RoutingOk(config)
  /\ LayoutOk(config)
  /\ ReferenceOk(config.renderer, "Renderer")
  /\ BufferingOk(config)
  /\ DiagnosticsOk(config)
  /\ SimulationOk(config)

\* sort_by is stable; the keys are unique once the document is valid.
ById(left, right) == left.id <= right.id
ByOutput(left, right) ==
  left[2] < right[2] \/ (left[2] = right[2] /\ left[1] <= right[1])
Sorted(numbers) == SortSeq(numbers, <=)

SortedRouting(routing) ==
  [inputs |-> Sorted(routing.inputs), outputs |-> Sorted(routing.outputs),
   routes |-> SortSeq(routing.routes, ByOutput), inactive |-> Sorted(routing.inactive)]

Normalize(config) ==
  [config EXCEPT
     !.routing = SortedRouting(@),
     !.layout.speakers = SortSeq(@, ById),
     !.fallback = IF @ = None THEN None ELSE SetToSortSeq(ToSet(@), <)]

\* ValidatedConfiguration::new: None stands for every error.
Validated(config) == IF ValidRoot(config) THEN Normalize(config) ELSE None

\* canonical_json and human_readable write the document without its provenance.
Canonical(config) == [config EXCEPT !.schema.by = None]

(***************************************************************************)
(* Schema v4                                                               *)
(***************************************************************************)
Flat(speaker) == speaker.elevation \in {None, 0}

HorizontalOk(config) ==
  /\ ~config.layout.elevated
  /\ \A i \in DOMAIN config.layout.speakers : Flat(config.layout.speakers[i])
  /\ RolesOk(config.layout.speakers, StandardRoles(config.layout.kind))

Surround714Ok(config) ==
  LET speakers == config.layout.speakers
  IN  /\ config.layout.elevated
      /\ config.channels = 12
      /\ RolesOk(speakers, StandardRoles("Surround714"))
      /\ \A i \in DOMAIN speakers : speakers[i].active =>
           IF speakers[i].role \in Heights
           THEN speakers[i].elevation # None /\ speakers[i].elevation > 0
           ELSE Flat(speakers[i])

ElevationOk(config) ==
  /\ Len(config.layout.speakers) \in 1 .. MaxEntries
  /\ GeometryOk(config.layout.speakers)
  /\ IF config.layout.kind = "Surround714" THEN Surround714Ok(config) ELSE HorizontalOk(config)

\* The document as schema v3 would state it, for the checks both schemas share.
V3Shadow(config) ==
  [config EXCEPT
     !.schema.version = 3, !.schema.reader = 3,
     !.layout.kind = IF @ = "Surround714" THEN "CustomHorizontal" ELSE @,
     !.layout.speakers = [i \in DOMAIN @ |-> [@[i] EXCEPT !.elevation = None]],
     !.layout.elevated = FALSE]

NormalizeZeroElevations(speakers) ==
  [i \in DOMAIN speakers |->
     IF Flat(speakers[i]) THEN [speakers[i] EXCEPT !.elevation = None] ELSE speakers[i]]

ShadowLayout(config, shadow) == [shadow.layout EXCEPT !.kind = config.layout.kind]

\* The layout is not the one of the shadow: that has no elevations.
NormalLayout(config, shadow) ==
  [config.layout EXCEPT !.speakers = NormalizeZeroElevations(SortSeq(@, ById))]

\* ValidatedConfigurationV4::new: everything but the schema and the layout is taken
\* from the normalised shadow.
ValidatedV4(config) ==
  LET shadow == Validated(V3Shadow(config))
  IN  IF SchemaOk(config, 4) /\ ElevationOk(config) /\ shadow # None
      THEN [shadow EXCEPT !.schema = config.schema, !.layout = NormalLayout(config, shadow)]
      ELSE None

(***************************************************************************)
(* Migrations                                                              *)
(***************************************************************************)
\* A legacy renderer is its type, its spread (in v0 `percent', in v1 `spread') and the
\* number of members it has.
LegacySpread(legacy, version) ==
  IF version = 1 THEN legacy.spread
  ELSE IF legacy.percent # None /\ Within(legacy.percent, 0, 100) THEN legacy.percent
  ELSE None

\* v0 moves spread_percent to spread, which keeps the number of members.
MigrateRenderer(legacy, version) ==
  LET spread == LegacySpread(legacy, version)
  IN  IF version = 0 /\ spread = None THEN None ELSE
      CASE legacy.type = "basic" /\ legacy.members = 1 ->
             ComponentReference("renderer.basic", "Renderer", EmptyPayload)
        [] legacy.type = "point_source_vbap" /\ legacy.members = 1 ->
             ComponentReference("renderer.vbap", "Renderer", Payload("point_source", 1, None))
        [] legacy.type = "horizontal_spread" /\ legacy.members = 2 /\ spread # None
             /\ Within(spread, 0, 100) ->
             ComponentReference("renderer.vbap", "Renderer",
                                Payload("horizontal_spread", 2, spread))
        [] OTHER -> None

LegacyBackends == {"virtual", "cpal", "offline"}

\* Legacy selectors name the backend; a selector that holds a reference is kept.
\* The result is a set with the migrated selector, empty on an error.
MigrateLegacyBackend(device, direction, kind) ==
  CASE device = None -> {None}
    [] device # None /\ device.direction # direction -> {}
    [] device # None /\ device.direction = direction /\ device.legacy = None -> {device}
    [] device # None /\ device.direction = direction /\ device.legacy \in LegacyBackends ->
         {[device EXCEPT !.legacy = None,
             !.backend = ComponentReference(device.legacy, kind, EmptyPayload)]}
    [] OTHER -> {}

\* migrate_v0_to_v3, migrate_v1_to_v3, migrate_v2_to_v3: nothing of the migrated
\* document escapes the validation of schema v3.
MigrateToV3(config, version) ==
  LET renderer == IF version < 2 THEN MigrateRenderer(config.renderer, version)
                  ELSE config.renderer
      inputs == MigrateLegacyBackend(config.input, "Input", "AudioInputBackend")
      outputs == MigrateLegacyBackend(config.output, "Output", "AudioOutputBackend")
  IN  IF SchemaOk(config, version) /\ renderer # None /\ inputs # {} /\ outputs # {}
      THEN Validated([config EXCEPT !.schema.version = 3, !.schema.reader = 3,
                        !.renderer = renderer,
                        !.input = CHOOSE device \in inputs : TRUE,
                        !.output = CHOOSE device \in outputs : TRUE])
      ELSE None

MigrateV3ToV4(config) ==
  LET source == Validated(config)
  IN  IF source = None THEN None
      ELSE ValidatedV4([source EXCEPT !.schema.version = 4, !.schema.reader = 4,
                          !.layout.elevated = FALSE])

(***************************************************************************)
(* Presets                                                                 *)
(***************************************************************************)
\* A collection is a sequence of presets; its texts and tags are well formed or not.
Preset(id, type, value, extends) ==
  [id |-> id, type |-> type, declared |-> type, value |-> value, extends |-> extends,
   wellFormed |-> TRUE]

PresetNamed(collection, id) == CHOOSE preset \in ToSet(collection) : preset.id = id
PresetIds(collection) == {preset.id : preset \in ToSet(collection)}

CollectionOk(collection) ==
  /\ Len(collection) \in 1 .. 128
  /\ Unique(Ids(collection))
  /\ \A preset \in ToSet(collection) :
       /\ preset.type = preset.declared
       /\ preset.wellFormed
       /\ Len(preset.extends) <= MaxRefs
       /\ ToSet(preset.extends) \subseteq PresetIds(collection)
       /\ Unique([i \in DOMAIN preset.extends |->
                    PresetNamed(collection, preset.extends[i]).declared])

PayloadFirst(visited, preset) ==
  IF \E i \in DOMAIN visited : ~visited[i].ok THEN [ok |-> FALSE, order |-> <<>>]
  ELSE [ok |-> TRUE, order |-> <<preset>> \o FlattenSeq([i \in DOMAIN visited |-> visited[i].order])]

\* After its references, left to right, comes the preset itself.
Ordered(visited, preset) ==
  IF \E i \in DOMAIN visited : ~visited[i].ok THEN [ok |-> FALSE, order |-> <<>>]
  ELSE [ok |-> TRUE, order |-> FlattenSeq([i \in DOMAIN visited |-> visited[i].order]) \o <<preset>>]

\* The visits under way are as many as the presets on the stack.
Visit(collection) ==
  LET ids == PresetIds(collection)
      visit[id \in ids, stack \in SUBSET ids] ==
        IF Cardinality(stack) > MaxRefs \/ id \in stack THEN [ok |-> FALSE, order |-> <<>>]
        ELSE LET preset == PresetNamed(collection, id)
                 visited == [i \in DOMAIN preset.extends |->
                               visit[preset.extends[i], stack \union {id}]]
             IN  Ordered(visited, preset)
  IN  visit

\* A full configuration replaces what there is, an overlay its section of it.
Overlaid(config, preset) ==
  CASE preset.type = "full" -> preset.value
    [] preset.type # "full" /\ config = None -> None
    [] preset.type = "layout" /\ config # None -> [config EXCEPT !.layout = preset.value]
    [] preset.type = "routing" /\ config # None -> [config EXCEPT !.routing = preset.value]
    [] preset.type = "renderer" /\ config # None -> [config EXCEPT !.renderer = preset.value]
    [] preset.type = "diagnostics" /\ config # None -> [config EXCEPT !.diagnostics = preset.value]
    [] preset.type = "simulation" /\ config # None -> [config EXCEPT !.simulation = preset.value]

\* An overlay before any base ends the materialisation.
MaterializePreset(collection, id) ==
  LET visited == IF CollectionOk(collection) /\ id \in PresetIds(collection)
                 THEN Visit(collection)[id, {}] ELSE [ok |-> FALSE, order |-> <<>>]
      order == visited.order
      applied[n \in 0 .. Len(order)] ==
        IF n = 0 THEN None
        ELSE IF n > 1 /\ applied[n - 1] = None THEN None
        ELSE Overlaid(applied[n - 1], order[n])
      config == applied[Len(order)]
  IN  IF visited.ok /\ config # None THEN Validated(config) ELSE None

(***************************************************************************)
(* Redaction                                                               *)
(***************************************************************************)
RedactDevice(device, mode) ==
  IF device = None THEN None
  ELSE [device EXCEPT !.friendly = None,
          !.stable = IF mode = "Strict" /\ @ # None THEN "[redacted]" ELSE @]

\* Labels and the replay identifier are texts; every text becomes the marker.
Redacted(config, mode) ==
  [config EXCEPT !.schema.by = None, !.texts = {"[redacted]"},
     !.input = RedactDevice(@, mode), !.output = RedactDevice(@, mode)]
=============================================================================
