---------------------------- MODULE AudioDevices ----------------------------
(***************************************************************************)
(* The devices of a host as CpalAudioBackend enumerates them, or those of  *)
(* a simulation profile as SimAudioBackend offers them, the selector an    *)
(* operator gives (resolve_device_selector of aurora-realtime-audio-api)   *)
(* and the stream opened on what it selects.  Devices of a host come and   *)
(* go between an open and the reopen of a recovery, which resolves the     *)
(* selector anew.                                                          *)
(*                                                                         *)
(* Abstraction: a text is a model value; PartOf says which text is part of *)
(* the name or the descriptive selector of which device.  CPAL has no host *)
(* identifier, so the stable selector of a device is made from its name,   *)
(* in a simulation from the device's id; it holds colons, which no         *)
(* normalised name and no normalised selector does.  It names a direction  *)
(* too, here the one asked for: one of the other direction finds nothing.  *)
(***************************************************************************)
EXTENDS Naturals, FiniteSets, SequencesExt

CONSTANTS Devices,        \* of a host: [name, id, direction, formats]
          PartOf,         \* pairs <<text, name>>
          Numerals,       \* the texts of the numbers from zero
          Profiles,       \* of the simulation: sequences of such devices
          Requests,       \* RealTimeAudioConfig: [direction, rate, channels]
          MaxPlugged,     \* devices on the host at one time
          None

VARIABLES driver,        \* "cpal" or "sim"
          host,           \* its devices, in their order
          request,        \* RealTimeAudioConfig
          selector,       \* output_device_id or input_device_id
          stream          \* CpalStream, SimStream or NoStream

adVars == <<driver, host, request, selector, stream>>

NoStream == [device |-> None, format |-> None, running |-> FALSE, fault |-> "none"]
Stream(device) == [NoStream EXCEPT !.device = device, !.format = request]

\* The identity a stable selector is made of: stable_selector.
Identity(device) == IF driver = "sim" THEN device.id ELSE device.name

\* A selector is absent, the number of a device, its stable selector, or text.
AllDevices == Devices \union UNION {ToSet(profile) : profile \in Profiles}
Names == {device.name : device \in AllDevices}
Selectors ==
  [kind : {"default"}]
    \union {[kind |-> "index", index |-> n - 1, name |-> Numerals[n]] : n \in DOMAIN Numerals}
    \union [kind : {"stable"}, identity : (Names \union {d.id : d \in AllDevices}) \ {None}]
    \union [kind : {"text"}, name : Names]

Init ==
  /\ \/ driver = "cpal" /\ host \in {<<d>> : d \in Devices} \union {<<d, e>> : d, e \in Devices}
     \/ driver = "sim" /\ host \in Profiles
  /\ request \in Requests /\ selector \in Selectors
  /\ stream = NoStream

-----------------------------------------------------------------------------
(* resolve_device_selector: the places it would take, in four passes.  A   *)
(* pass that finds one decides; one that finds several is an Err.          *)

Candidates == {i \in DOMAIN host : host[i].direction = request.direction}

\* CPAL numbers the devices of a direction from zero; the simulation's ids are no numbers.
ByIndex ==
  {i \in Candidates : driver = "cpal" /\ selector.kind = "index"
                      /\ selector.index = Cardinality({j \in Candidates : j < i})}

ByIdentity ==
  {i \in Candidates : selector.kind = "stable" /\ Identity(host[i]) = selector.identity}

\* A number that no device has is compared like any other text.
IsText == selector.kind \in {"index", "text"}

ByName == {i \in Candidates : IsText /\ host[i].name = selector.name}

\* Mutant: the selector and the name are compared without normalising them, so that the
\* name in a stable selector is found in another device's.
ByPartOfIdentity ==
  {i \in Candidates :
     \/ IsText /\ <<selector.name, host[i].name>> \in PartOf
     \/ selector.kind = "stable" /\ <<selector.identity, host[i].name>> \in PartOf}

ByPart == {i \in Candidates : IsText /\ <<selector.name, host[i].name>> \in PartOf}

FirstPass == IF ByIndex # {} THEN ByIndex
             ELSE IF ByIdentity # {} THEN ByIdentity
             ELSE IF ByName # {} THEN ByName
             ELSE ByPart

Resolve == IF \A i, j \in FirstPass : i = j THEN FirstPass ELSE {}

\* select_device and SimAudioBackend::select.  The simulation looks the selected id up among
\* all its devices and defaults to the profile's first input or output; which device a host
\* has for a default is its own choice.
Selected ==
  CASE selector.kind = "default" /\ driver = "cpal" -> Candidates
    [] selector.kind = "default" /\ driver = "sim" ->
         {i \in Candidates : \A j \in Candidates : i <= j}
    [] selector.kind # "default" /\ driver = "cpal" -> Resolve
    [] selector.kind # "default" /\ driver = "sim" ->
         {i \in DOMAIN host : /\ \E r \in Resolve : host[i].id = host[r].id
                              /\ \A j \in 1 .. i - 1 : host[j].id # host[i].id}

\* validate_supported and supports_range; the simulation lists its rates and channel counts
Supports(device, format) ==
  \E r \in device.formats :
    /\ r.sample = "F32"
    /\ IF driver = "cpal"
       THEN r.low <= format.rate /\ format.rate <= r.high /\ r.channels >= format.channels
       ELSE r.low = format.rate /\ r.channels = format.channels

-----------------------------------------------------------------------------
\* open_input and open_output; a refused one returns without a stream, and the caller has
\* closed the one it had
Open ==
  /\ stream' = NoStream \/ \E i \in Selected : /\ Supports(host[i], request)
                                               /\ stream' = Stream(host[i])
  /\ UNCHANGED <<driver, host, request, selector>>

\* start_inner; the simulation's streams do not look at their fault.
Start ==
  /\ stream # NoStream /\ (driver = "cpal" => stream.fault = "none")
  /\ stream' = [stream EXCEPT !.running = TRUE]
  /\ UNCHANGED <<driver, host, request, selector>>

\* stop_inner; a pause that fails leaves the flag alone and is a stutter.
Stop ==
  /\ stream.running
  /\ stream' = [stream EXCEPT !.running = FALSE]
  /\ UNCHANGED <<driver, host, request, selector>>

\* The error callback of the host: stream_error_fault.
StreamError(fault) ==
  /\ driver = "cpal" /\ stream # NoStream
  /\ stream' = [stream EXCEPT !.fault = fault]
  /\ UNCHANGED <<driver, host, request, selector>>

\* The host: devices are plugged in at any place of the list and taken out.
Plug(device, i) ==
  /\ driver = "cpal" /\ Len(host) < MaxPlugged
  /\ host' = InsertAt(host, i, device)
  /\ UNCHANGED <<driver, request, selector, stream>>

Unplug(i) ==
  /\ driver = "cpal"
  /\ host' = RemoveAt(host, i)
  /\ stream' = IF stream.device = host[i] THEN [stream EXCEPT !.fault = "DeviceLost"] ELSE stream
  /\ UNCHANGED <<driver, request, selector>>

Next ==
  \/ Open \/ Start \/ Stop
  \/ \E fault \in {"DeviceLost", "Callback"} : StreamError(fault)
  \/ \E device \in Devices, i \in 1 .. Len(host) + 1 : Plug(device, i)
  \/ \E i \in DOMAIN host : Unplug(i)

Spec == Init /\ [][Next]_adVars

-----------------------------------------------------------------------------
TypeOK ==
  /\ driver \in {"cpal", "sim"}
  /\ request \in Requests /\ selector \in Selectors
  /\ stream.device \in AllDevices \union {None}
  /\ stream.running => stream.device # None

\* A session opened by the stable selector of a device, however often it is reopened and
\* whatever is plugged in meanwhile, plays on a device of that identity and of the
\* direction asked for or on none; it never falls back to one whose name merely contains it
\* (resolve_device_selector: "exact-first, collision-safe matching").
StableSelectorKept ==
  stream # NoStream =>
    /\ stream.device.direction = request.direction
    /\ selector.kind = "stable" => Identity(stream.device) = selector.identity

\* FormatSupported: no stream runs in a format its device does not support, on whichever
\* device a reopening ended.  (validate_supported)
FormatSupported == stream # NoStream => Supports(stream.device, stream.format)
=============================================================================
