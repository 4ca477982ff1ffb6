---------------------------- MODULE BasicPanning ----------------------------
(***************************************************************************)
(* BasicRenderer (aurora-renderer-basic): nearest speaker, inverse         *)
(* distance, the two nearest, and geometric stereo for headphones, for     *)
(* blocks of objects whose gains are smoothed from block to block; and the *)
(* delays that align a layout to its listener.                             *)
(*                                                                         *)
(* Abstraction: f32 is fixed point.  Positions are whole millimetres of    *)
(* space and distances are rounded down to them; a weight of Power is one  *)
(* per square metre; a gain, a sine and a component of a unit vector are   *)
(* percentages; smoothing is in halves; rates are in kHz.  The power f32   *)
(* cannot tell from none some 2900 m away is, in this scale, below one     *)
(* some 32 m away.  A render records the weights its gains were made from. *)
(***************************************************************************)
EXTENDS Integers, Sequences, FiniteSets, SequencesExt

CONSTANTS BasicCalls,     \* calls of configure: [layout, rate, block, objects]
          BasicObjects,   \* sequences of [at, gain]: a place in space and a percentage
          BasicListeners, \* [at, forward, ear]: a place, a direction and an ear height
          BasicAlphas,    \* smoothing asked for, in halves
          BasicBuffers,   \* [output, scratch]: lengths of the caller's buffers
          MaxBasicBlocks  \* most blocks between two calls of configure

VARIABLES basic,          \* the renderer: mode, alpha (smoothing_alpha), configured, layout,
                          \* rate, objects (max_objects) and previous (previous_gains)
          rendered,       \* the last call: its result and, of a block, its objects and gains
          peak,           \* history: the largest target of each object and speaker so far
          blocks          \* blocks since configure

bpVars == <<basic, rendered, peak, blocks>>

Modes == {"NearestSpeaker", "InverseDistance", "EqualPowerAdjacent", "GeometricBinaural"}

-----------------------------------------------------------------------------
(* Space                                                                   *)

Power == 1000
Percent == 100

\* The square root rounded down, one binary digit after the other.
RECURSIVE RootFrom(_, _, _)
RootFrom(n, r, bit) ==
  IF bit = 0 THEN r
  ELSE IF r + bit <= n \div (r + bit) THEN RootFrom(n, r + bit, bit \div 2)
  ELSE RootFrom(n, r, bit \div 2)
Root(n) == RootFrom(n, 0, 32768)

\* A sequence whose elements TLC evaluates once.
Each(f) == <<>> \o f

Length(v) == Root(v[1] * v[1] + v[2] * v[2] + v[3] * v[3])
Minus(a, b) == <<a[1] - b[1], a[2] - b[2], a[3] - b[3]>>
Distance(a, b) == Length(Minus(a, b))
Horizontal(v) == <<v[1], v[2], 0>>
Larger(a, b) == IF a > b THEN a ELSE b

\* One over the square of the distance and DISTANCE_EPSILON, a millimetre.
Falloff(d) == (Power * 1000000) \div ((d + 1) * (d + 1))

\* A weight's part of the sum, in hundredths of a percent.
Share(weight, sum) ==
  LET unit == 1 + sum \div 200000
  IN ((weight \div unit) * Percent * Percent) \div (sum \div unit)

NormalizePower(weights) ==
  LET sum == FoldLeft(LAMBDA total, w : total + w, 0, weights)
  IN Each([i \in DOMAIN weights |-> IF sum = 0 THEN 0 ELSE Root(Share(weights[i], sum))])

-----------------------------------------------------------------------------
(* Speakers                                                                *)

Only(layout, i) == [k \in DOMAIN layout |-> IF k = i THEN Percent ELSE 0]

Distances(layout, source) == Each([i \in DOMAIN layout |-> Distance(source, layout[i].at)])

NearestSpeakerGains(layout, source) ==
  LET d == Distances(layout, source)
  IN Only(layout, CHOOSE i \in DOMAIN layout :
                    \A j \in DOMAIN layout \ {i} : d[i] < d[j] \/ (d[i] = d[j] /\ i < j))

\* A source in a speaker (COINCIDENT_EPSILON) is that speaker's, the first of several.
InverseDistanceGains(layout, source) ==
  LET d == Distances(layout, source)
      coincident == SelectInSeq(d, LAMBDA each : each = 0)
  IN IF coincident # 0 THEN Only(layout, coincident)
     ELSE NormalizePower(Each([i \in DOMAIN layout |-> Falloff(d[i])]))

Unfound == [index |-> 0, at |-> 0]

Closer(d, best) == best = Unfound \/ d < best.at

\* Mutant: a new nearest speaker does not hand its place on.
ForgetsFirst(best, next) ==
  IF Closer(next.at, best.first) THEN [first |-> next, second |-> best.second]
  ELSE IF Closer(next.at, best.second) THEN [best EXCEPT !.second = next]
  ELSE best

\* One speaker of adjacent_speaker_gains' single pass.
Updated(best, next) ==
  IF Closer(next.at, best.first) THEN [first |-> next, second |-> best.first]
  ELSE IF Closer(next.at, best.second) THEN [best EXCEPT !.second = next]
  ELSE best

AdjacentSpeakerGains(layout, source) ==
  LET d == Distances(layout, source)
      found == FoldLeft(Updated, [first |-> Unfound, second |-> Unfound],
                        [i \in DOMAIN layout |-> [index |-> i, at |-> d[i]]])
  IN IF Len(layout) <= 2 THEN InverseDistanceGains(layout, source)
     ELSE NormalizePower(Each([i \in DOMAIN layout |->
             IF i \in {found.first.index, found.second.index} THEN Falloff(d[i]) ELSE 0]))

\* Mutant: a disabled speaker may be the farthest.
FarthestOfAll(layout, listener) ==
  FoldLeft(Larger, 0, Distances(layout, listener.at))

\* max_distance of calculate_geometric_delays
Farthest(layout, listener) ==
  FoldLeft(Larger, 0, Distances(SelectSeq(layout, LAMBDA s : s.enabled), listener.at))

\* calculate_geometric_delays, a delay as the length of the path that takes as long
GeometricDelays(layout, listener) ==
  [i \in DOMAIN layout |->
     IF layout[i].enabled
     THEN Larger(0, Farthest(layout, listener) - Distance(layout[i].at, listener.at)) ELSE 0]

-----------------------------------------------------------------------------
(* Headphones                                                              *)

HeadRadius == 88                                \* 0.0875 m
HeadShadow == 60                                \* what the shadow takes at most

\* A listener who looks straight up or down has the world's right.
Right(forward) ==
  LET across == <<forward[2], -forward[1], 0>>
  IN IF Length(across) = 0 THEN <<Percent, 0, 0>>
     ELSE Each([i \in 1 .. 3 |-> (across[i] * Percent) \div Length(across)])

HeadCenter(listener) == [listener.at EXCEPT ![3] = @ + listener.ear]

\* side: -1 for the left ear, 1 for the right
Ear(listener, side) ==
  LET offset == Right(listener.forward)
  IN Each([i \in 1 .. 3 |->
       HeadCenter(listener)[i] + side * ((offset[i] * HeadRadius) \div Percent)])

\* Mutant: forward and source change places in the cross product.
SineFlipped(forward, toSource) ==
  LET scale == Length(Horizontal(forward)) * Length(Horizontal(toSource))
  IN IF scale = 0 THEN 0
     ELSE ((toSource[1] * forward[2] - toSource[2] * forward[1]) * Percent) \div scale

\* sin_theta, positive to the left
Sine(forward, toSource) ==
  LET scale == Length(Horizontal(forward)) * Length(Horizontal(toSource))
  IN IF scale = 0 THEN 0
     ELSE ((forward[1] * toSource[2] - forward[2] * toSource[1]) * Percent) \div scale

\* The share of a weight that the head lets through; away is how far the source is on the
\* other ear's side.
Shadowed(weight, away) ==
  LET kept == Percent - (Larger(0, away) * HeadShadow) \div Percent
  IN (weight \div Percent) * kept + ((weight % Percent) * kept) \div Percent

EarDistances(listener, source) ==
  <<Distance(source, Ear(listener, -1)), Distance(source, Ear(listener, 1))>>

BinauralGains(listener, source) ==
  LET d == EarDistances(listener, source)
      sine == Sine(listener.forward, Minus(source, HeadCenter(listener)))
  IN NormalizePower(<<Shadowed(Falloff(d[1]), -sine), Shadowed(Falloff(d[2]), sine)>>)

-----------------------------------------------------------------------------
(* The renderer                                                            *)

Answer(result) == [result |-> result, objects |-> <<>>, gains |-> <<>>, delays |-> <<>>]

\* with_smoothing clamps
Clamped(alpha) == IF alpha < 0 THEN 0 ELSE IF alpha > 2 THEN 2 ELSE alpha

\* new and with_smoothing
Init == /\ \E mode \in Modes, alpha \in BasicAlphas :
             basic = [mode |-> mode, alpha |-> Clamped(alpha), configured |-> FALSE,
                      layout |-> <<>>, rate |-> 48, objects |-> 0, previous |-> <<>>]
        /\ rendered = Answer("none")
        /\ peak = <<>> /\ blocks = 0

EnabledOf(layout) == SelectSeq(layout, LAMBDA s : s.enabled)

CanonicalStereo(layout) == [i \in DOMAIN layout |-> layout[i].role] = <<"FrontLeft", "FrontRight">>

ConfigureResult(call) ==
  IF call.rate = 0 \/ call.block = 0 \/ call.objects = 0 THEN "InvalidConfiguration"
  ELSE IF EnabledOf(call.layout) = <<>> THEN "NoEnabledSpeakers"
  ELSE IF basic.mode = "GeometricBinaural" /\ ~CanonicalStereo(EnabledOf(call.layout))
       THEN "InvalidConfiguration"
  ELSE "ok"

\* Mutant: the gain history is only resized.
ResizedGains(n) == [k \in 1 .. n |-> IF k \in DOMAIN basic.previous THEN basic.previous[k] ELSE 0]

\* previous_gains of a new configuration
NewGains(n) == [k \in 1 .. n |-> 0]

\* configure; a refused one returns before it changes anything
Configure(call) ==
  LET result == ConfigureResult(call)
      layout == EnabledOf(call.layout)
      n == Len(layout) * call.objects
  IN /\ rendered' = Answer(result)
     /\ IF result # "ok" THEN UNCHANGED <<basic, peak, blocks>>
        ELSE /\ basic' = [basic EXCEPT !.configured = TRUE, !.layout = layout, !.rate = call.rate,
                                       !.objects = call.objects, !.previous = NewGains(n)]
             /\ peak' = [o \in 1 .. call.objects |-> [k \in DOMAIN layout |-> 0]]
             /\ blocks' = 0

Weights(listener, source) ==
  CASE basic.mode = "NearestSpeaker" -> NearestSpeakerGains(basic.layout, source)
    [] basic.mode = "InverseDistance" -> InverseDistanceGains(basic.layout, source)
    [] basic.mode = "EqualPowerAdjacent" -> AdjacentSpeakerGains(basic.layout, source)
    [] basic.mode = "GeometricBinaural" -> BinauralGains(listener, source)

\* Mutant: the rows of the history are as long as there are objects.
IndexByObjects(object, speaker) == (object - 1) * basic.objects + speaker

HistoryIndex(object, speaker) == (object - 1) * Len(basic.layout) + speaker

TargetsOf(object, w) ==
  Each([k \in DOMAIN w |->
     (((w[k] * basic.layout[k].gain) \div Percent) * object.gain) \div Percent])

Smoothed(previous, target) == previous + ((target - previous) * basic.alpha) \div 2

\* The distances of an object's SpeakerGains, and their delays in samples at 343 m/s; the
\* ears have no delay of their own.
HeardFrom(listener, object) ==
  IF basic.mode = "GeometricBinaural" THEN EarDistances(listener, object.at)
  ELSE Distances(basic.layout, object.at)
OwnDelay(k) == IF basic.mode = "GeometricBinaural" THEN 0 ELSE basic.layout[k].delay

\* What render_object leaves in the history.
RenderObject(history, targets, o) ==
  FoldLeft(LAMBDA h, k : [h EXCEPT ![HistoryIndex(o, k)] = Smoothed(@, targets[o][k])],
           history, [k \in DOMAIN basic.layout |-> k])

RenderResult(objects, buffers) ==
  IF ~basic.configured THEN "NotConfigured"
  ELSE IF Len(objects) > basic.objects THEN "TooManyObjects"
  ELSE IF buffers.output # Len(objects) * Len(basic.layout) THEN "OutputBufferSize"
  ELSE IF buffers.scratch < Len(basic.layout) THEN "ScratchBufferSize"
  ELSE "ok"

\* The history after a block.
RenderedHistory(targets) ==
  FoldLeft(LAMBDA h, o : RenderObject(h, targets, o), basic.previous,
           [o \in DOMAIN targets |-> o])

\* render_gains of a block that passes every check; the values are bound so that TLC
\* evaluates them once
RenderBlock(listener, objects) ==
  \E weights \in {Each([o \in DOMAIN objects |-> Weights(listener, objects[o].at)])} :
  \E targets \in {Each([o \in DOMAIN objects |-> TargetsOf(objects[o], weights[o])])} :
  \E history \in {RenderedHistory(targets)} :
     /\ basic' = [basic EXCEPT !.previous = history]
     /\ peak' = [o \in DOMAIN peak |-> [k \in DOMAIN peak[o] |->
                   IF o \in DOMAIN targets THEN Larger(peak[o][k], targets[o][k]) ELSE peak[o][k]]]
     /\ rendered' = [Answer("ok") EXCEPT
          !.objects = objects,
          !.gains = [o \in DOMAIN objects |->
            LET d == HeardFrom(listener, objects[o])
            IN [k \in DOMAIN basic.layout |->
                  [weight |-> weights[o][k], gain |-> history[HistoryIndex(o, k)], distance |-> d[k],
                   delay |-> OwnDelay(k) + (d[k] * basic.rate) \div 343]]]]

\* render_gains; a refused one changes no gain
RenderGains(listener, objects, buffers) ==
  LET result == RenderResult(objects, buffers)
  IN /\ blocks < MaxBasicBlocks
     /\ IF result = "ok" THEN RenderBlock(listener, objects) /\ blocks' = blocks + 1
        ELSE rendered' = Answer(result) /\ UNCHANGED <<basic, peak, blocks>>

Reset == /\ basic' = [basic EXCEPT !.previous = NewGains(Len(@))]
         /\ peak' = [o \in DOMAIN peak |-> [k \in DOMAIN peak[o] |-> 0]]
         /\ rendered' = Answer("none")
         /\ UNCHANGED blocks

\* A caller aligns a layout; no renderer takes part, so one before configure stands for all.
Align(layout, listener) ==
  /\ ~basic.configured
  /\ rendered' = [Answer("aligned") EXCEPT
       !.gains = <<[i \in DOMAIN layout |->
          [distance |-> Distance(layout[i].at, listener.at), enabled |-> layout[i].enabled]]>>,
       !.delays = GeometricDelays(layout, listener)]
  /\ UNCHANGED <<basic, peak, blocks>>

Next == \/ \E call \in BasicCalls : Configure(call)
        \/ \E listener \in BasicListeners, objects \in BasicObjects, buffers \in BasicBuffers :
             RenderGains(listener, objects, buffers)
        \/ Reset
        \/ \E call \in BasicCalls, listener \in BasicListeners : Align(call.layout, listener)

Spec == Init /\ [][Next]_bpVars

-----------------------------------------------------------------------------
(* Properties                                                              *)

Block == rendered.result = "ok" /\ rendered.gains # <<>>

\* AdjacentAreNearest: the single pass over the speakers finds the two nearest ones, also
\* where several are equally far and in whatever order they come.  (adjacent_speaker_gains)
AdjacentAreNearest ==
  Block /\ basic.mode = "EqualPowerAdjacent" /\ Len(basic.layout) > 2 =>
    \A o \in DOMAIN rendered.gains :
      LET g == rendered.gains[o]
          heard == {i \in DOMAIN g : g[i].weight # 0}
      IN /\ Cardinality(heard) <= 2
         /\ heard = {} => \A i \in DOMAIN g : Falloff(g[i].distance) = 0
         /\ \A i \in heard, j \in DOMAIN g \ heard : g[i].distance <= g[j].distance

\* FarEarShadowed: wherever the listener looks, the ear farther from the source hears it
\* neither louder nor earlier: the side the shadow is computed from and the side the ears are
\* placed on agree.  (render_object, GeometricBinaural)
FarEarShadowed ==
  Block /\ basic.mode = "GeometricBinaural" =>
    \A o \in DOMAIN rendered.gains : \A near, far \in 1 .. 2 :
      LET g == rendered.gains[o]
      IN g[near].distance < g[far].distance =>
           g[near].weight >= g[far].weight /\ g[near].delay <= g[far].delay

\* SmoothedFromItself: over reconfigurations, resets and blocks with more or fewer objects, a
\* gain is smoothed only from targets of its own object's place and its own speaker in the
\* layout it is rendered for, and never overshoots them.  (render_object, configure)
SmoothedFromItself ==
  Block => \A o \in DOMAIN rendered.gains : \A k \in DOMAIN rendered.gains[o] :
             rendered.gains[o][k].gain \in 0 .. peak[o][k]

\* ArrivalsAligned: with the computed delays every enabled speaker is heard at the same time,
\* and no later than the farthest of them needs.  (calculate_geometric_delays)
ArrivalsAligned ==
  rendered.result = "aligned" =>
    LET speakers == rendered.gains[1]
        enabled == {i \in DOMAIN speakers : speakers[i].enabled}
        arrival(i) == speakers[i].distance + rendered.delays[i]
    IN /\ \A i, j \in enabled : arrival(i) = arrival(j)
       /\ enabled # {} => \E i \in enabled : rendered.delays[i] = 0
=============================================================================
