----------------------------- MODULE LiveDecode -----------------------------
(***************************************************************************)
(* LiveImmersiveRuntime of aurora-source-runtime over a decoder wrapped in *)
(* PanicIsolatedStreamingDecoder: packets are decoded, checked, rendered   *)
(* and released to the speakers only after a stable acquisition.  The      *)
(* decoder behind the wrapper may fail or panic in every call.             *)
(*                                                                         *)
(* Abstraction: a decoded frame is the kinds of its channels, its objects  *)
(* and the table that binds objects to channels; sample values, positions  *)
(* and gains are valid or not.  Metrics are left out.                      *)
(***************************************************************************)
EXTENDS Naturals, Sequences, FiniteSets

CONSTANTS RequiredStable,   \* LiveDecodePolicy::required_stable_packets
          MaxErrors,        \* maximum_consecutive_errors
          MaxEmpty,         \* maximum_consecutive_empty_packets
          MaxProbe,         \* maximum_object_probe_packets
          RequireNative,    \* require_native_objects
          Objects,          \* object identifiers a decoder may name
          Roles,            \* bed roles of the output layout
          MaxChannels       \* channels of a decoded frame

\* DecodedChannelKind, the layout has no speaker for the role Unroutable.
Unroutable == "unroutable"
Kinds == {"Object", "Unknown", Unroutable} \union Roles
Bindings == [object : Objects, channel : 1 .. MaxChannels + 1]

\* StreamingDecodedFrame; `finite' stands for the numeric checks.
Frames == [kinds : UNION {[1 .. n -> Kinds] : n \in 1 .. MaxChannels},
           objects : SUBSET Objects,
           bindings : {<<>>} \union {<<b>> : b \in Bindings}
                        \union {<<b, c>> : b, c \in Bindings},
           finite : BOOLEAN]

VARIABLES state,       \* LiveDecodeState
          stable,      \* stable_packets
          errors,      \* consecutive_errors
          empty,       \* consecutive_empty_packets
          probes,      \* consecutive_non_object_packets
          crashed,     \* PanicIsolatedStreamingDecoder::faulted
          out,         \* frames released by the last packet
          streak,      \* history: good packets in a row up to now
          poor         \* history: packets without a good frame since the last good
                       \* one, discontinuity or recovery

ldVars == <<state, stable, errors, empty, probes, crashed, out, streak, poor>>

TypeOK ==
  /\ state \in {"Searching", "Priming", "Running", "Muted", "Faulted"}
  /\ stable \in 0 .. RequiredStable
  /\ errors \in 0 .. MaxErrors
  /\ empty \in 0 .. MaxEmpty
  /\ probes \in 0 .. MaxProbe
  /\ crashed \in BOOLEAN

\* LiveImmersiveRuntime::new with a valid policy and a decoder of the promised
\* semantics; try_new of the wrapper.
Init ==
  /\ state = "Searching" /\ stable = 0 /\ errors = 0 /\ empty = 0 /\ probes = 0
  /\ crashed = FALSE
  /\ out = {} /\ streak = 0 /\ poor = 0

-----------------------------------------------------------------------------
(* What is accepted: validate_source_audio, validate_objects,               *)
(* validate_bindings, route_bed_channels and mix_object_channels.           *)

ValidSourceAudio(f) == f.finite /\ \A i \in DOMAIN f.kinds : f.kinds[i] # "Unknown"

ValidObjects(f) == RequireNative => f.objects # {}

ValidBindings(f) ==
  /\ RequireNative => Len(f.bindings) = Cardinality(f.objects)
  /\ \A i \in DOMAIN f.bindings :
       LET b == f.bindings[i] IN
       /\ b.channel \in DOMAIN f.kinds
       /\ f.kinds[b.channel] = "Object"
       /\ b.object \in f.objects
       /\ \A j \in 1 .. i - 1 : /\ f.bindings[j].object # b.object
                                /\ f.bindings[j].channel # b.channel
  /\ \A c \in DOMAIN f.kinds :
       f.kinds[c] = "Object" => \E i \in DOMAIN f.bindings : f.bindings[i].channel = c

RoutesBeds(f) == \A i \in DOMAIN f.kinds : f.kinds[i] # Unroutable

MixesObjects(f) == \A o \in f.objects : \E i \in DOMAIN f.bindings : f.bindings[i].object = o

\* prepare_frame
PrepareFrame(f) ==
  /\ ValidSourceAudio(f) /\ ValidObjects(f) /\ ValidBindings(f)
  /\ RoutesBeds(f) /\ MixesObjects(f)

-----------------------------------------------------------------------------

\* reset_stream of the wrapper: does nothing while crashed, may panic otherwise.
ResetStream(before) == IF before THEN {TRUE} ELSE BOOLEAN

Silent(good) ==
  /\ out' = {}
  /\ streak' = 0
  /\ poor' = IF good THEN 0 ELSE poor + 1

FailureKeepsErrors(after) ==    \* Mutant: a success of the reset forgives the error.
  /\ stable' = 0 /\ empty' = 0 /\ probes' = 0
  /\ crashed' \in ResetStream(after)
  /\ errors' = IF crashed' THEN errors + 1 ELSE errors
  /\ state' = IF errors' >= MaxErrors THEN "Faulted" ELSE "Muted"
  /\ Silent(FALSE)

\* register_failure with the decoder left in `after'.  The counter saturates here at
\* its budget, beyond which no comparison tells values apart.
RegisterFailure(after) ==
  /\ errors' = IF errors >= MaxErrors THEN errors ELSE errors + 1
  /\ stable' = 0 /\ empty' = 0 /\ probes' = 0
  /\ crashed' \in ResetStream(after)
  /\ state' = IF errors + 1 >= MaxErrors THEN "Faulted" ELSE "Muted"
  /\ Silent(FALSE)

AcceptKeepsStable(counter, budget) ==    \* Mutant: stability is not reset.
  /\ UNCHANGED stable
  /\ IF counter + 1 >= budget
     THEN state' = "Faulted" /\ crashed' \in ResetStream(crashed)
     ELSE state' = "Priming" /\ UNCHANGED crashed
  /\ UNCHANGED errors
  /\ Silent(FALSE)

\* A buffering or object-less packet: a counter goes up, latch_fault at its budget.
Probe(counter, budget) ==
  /\ stable' = 0
  /\ IF counter + 1 >= budget
     THEN state' = "Faulted" /\ crashed' \in ResetStream(crashed)
     ELSE state' = "Priming" /\ UNCHANGED crashed
  /\ UNCHANGED errors
  /\ Silent(FALSE)

\* push_packet refuses the packet before it reaches the decoder: wrong transport or
\* data type, empty payload.
PacketRefused == state # "Faulted" /\ RegisterFailure(crashed)

\* push_packet of the decoder fails or panics; a crashed wrapper always fails.
DecoderFails ==
  /\ state # "Faulted"
  /\ \E after \in (IF crashed THEN {TRUE} ELSE BOOLEAN) : RegisterFailure(after)

\* accept_batch without a frame.
NoFrames ==
  /\ state # "Faulted" /\ ~crashed
  /\ empty' = empty + 1
  /\ Probe(empty, MaxEmpty)
  /\ UNCHANGED probes

\* accept_batch without native objects.
NoNativeObjects ==
  /\ state # "Faulted" /\ ~crashed
  /\ RequireNative
  /\ probes' = probes + 1
  /\ Probe(probes, MaxProbe)
  /\ UNCHANGED empty

\* accept_batch with a frame prepare_frame or the renderer refuses.
FrameRefused ==
  /\ state # "Faulted" /\ ~crashed
  /\ RegisterFailure(FALSE)

\* accept_batch with good frames only.
Accept(frames) ==
  /\ state # "Faulted" /\ ~crashed
  /\ \A f \in frames : PrepareFrame(f)
  /\ errors' = 0 /\ empty' = 0 /\ probes' = 0
  /\ stable' = IF stable = RequiredStable THEN stable ELSE stable + 1
  /\ streak' = IF streak = RequiredStable THEN streak ELSE streak + 1
  /\ poor' = 0
  /\ IF stable + 1 >= RequiredStable
     THEN state' = "Running" /\ out' = frames
     ELSE state' = "Priming" /\ out' = {}
  /\ UNCHANGED crashed

\* mark_discontinuity, a call of the ingress; push_packet of a flagged packet is this
\* step followed at once by the packet's own.
MarkDiscontinuity ==
  /\ state' = "Muted"
  /\ stable' = 0 /\ empty' = 0 /\ probes' = 0
  /\ crashed' \in ResetStream(crashed)
  /\ UNCHANGED errors
  /\ Silent(TRUE)

\* try_recover: recover_stream resets the decoder whether it crashed or not.
Recover ==
  /\ stable' = 0 /\ empty' = 0 /\ probes' = 0
  /\ \/ state' = "Searching" /\ errors' = 0 /\ crashed' = FALSE
     \/ state' = "Faulted" /\ crashed' = TRUE /\ UNCHANGED errors
  /\ Silent(TRUE)

Next ==
  \/ PacketRefused \/ DecoderFails \/ NoFrames \/ NoNativeObjects \/ FrameRefused
  \/ \E f \in Frames : Accept({f})
  \/ MarkDiscontinuity \/ Recover

Spec == Init /\ [][Next]_ldVars

-----------------------------------------------------------------------------

(* Speakers hear a frame only after required_stable_packets good packets in a  *)
(* row ("Consecutive valid object-bearing packet results required before       *)
(* output becomes audible") and never while the decoder is crashed ("a         *)
(* discontinuity cannot accidentally turn a crashed backend audible again").   *)
AudibleOnlyStable == out # {} => streak >= RequiredStable /\ ~crashed /\ state = "Running"

(* A stream that yields nothing good is given up: the packets since the last   *)
(* good one, discontinuity or recovery stay within what the three budgets      *)
(* allow together.                                                             *)
PoorStreamFaults ==
  poor <= MaxErrors * (MaxEmpty + MaxProbe - 1)

=============================================================================
