-------------------------------- MODULE Vbap --------------------------------
(***************************************************************************)
(* Vector-base amplitude panning (aurora-renderer-vbap): the horizontal    *)
(* VbapRenderer with its spread, the ObjectVbapRenderer around it, which   *)
(* keeps object audio out of the LFE channel, and the Vbap3dRenderer,      *)
(* which pans over the triangulated convex hull of the loudspeaker         *)
(* directions and caches that hull for the last listener position.         *)
(*                                                                         *)
(* Abstraction: directions in the plane are multiples of a fraction of the *)
(* circle, so that the epsilons of the code separate equal from different  *)
(* angles.  A gain there is the tuple <<numerator, span, share>> of what   *)
(* it is computed from: the sine of the numerator over the pair's span,    *)
(* shared by so many loudspeakers, plus the distance the spread's kernel   *)
(* is taken at.  Directions in space are integer vectors of one length,    *)
(* for which the signs of determinants are exact; a listener is the        *)
(* directions the loudspeakers have from it, and a gain there counts by    *)
(* whether it is zero: gains of objects are not negative.  Distances and   *)
(* delays are sums without control and are left out.                       *)
(***************************************************************************)
EXTENDS Integers, Sequences, FiniteSets, SequencesExt

CONSTANTS Circle,     \* directions of the circle; half of it is pi
          Calls,      \* calls of configure: [layout, rate, block, objects], a layout being a
                      \* sequence of [id, angle, lfe, enabled, finite]
          Objects,    \* sequences of [source, spread]: a direction, Centre or NotFinite, and
                      \* the radius of the spread, 0 for a point
          \* the three-dimensional renderer
          HullCalls,        \* calls of configure, a speaker having [id, lfe, enabled, finite,
                            \* dir : listener -> vector]
          Listeners, Lost,  \* acoustic centres, and one that is not finite
          ObjectLists,      \* sequences of [at, gain, finite]
          MaxSpatial,       \* MAX_SPATIAL_SPEAKERS
          \* both
          Buffers,          \* [output, scratch]: lengths of the caller's buffers
          Alphas,           \* smoothing asked for, in halves, or NotFinite
          MaxHistory        \* usize::MAX

ASSUME VbapAssumption == Lost \notin Listeners /\ MaxSpatial \in Nat

VARIABLES inner,      \* VbapRenderer
          outer,      \* ObjectVbapRenderer: its map of outputs
          output,     \* the gains of the last call, object by object
          given,      \* history: the layout given to the last configure that succeeded
          hull,       \* Vbap3dRenderer: layout, cached listener and topology, smoothed gains
          heard       \* the last blocks rendered: listener, objects, target and smoothed gains

vbVars == <<inner, outer, output, given>>
v3Vars == <<hull, heard>>

Centre == -1          \* at the listener: no direction
NotFinite == -2
Half == Circle \div 2

Positive(angle) == angle % Circle

ShortestAngle(a, b) == Min({Positive(a - b), Circle - Positive(a - b)})

\* speaker_angle: None at the listener.
HasAngle(speaker) == speaker.angle # Centre

Silent == <<0, 0, 1, Circle>>

-----------------------------------------------------------------------------
(* Point panning                                                           *)

\* The pair as <<left, right>> indices, its span at most a half circle.
Oriented(speakers, i, j) ==
  LET delta == Positive(speakers[j].angle - speakers[i].angle)
  IN IF delta <= Half THEN [left |-> i, right |-> j, span |-> delta]
     ELSE [left |-> j, right |-> i, span |-> Circle - delta]

\* Neither coincident nor opposite, and the source is within.
Bases(speakers, source) ==
  {p \in {Oriented(speakers, i, j) :
            <<i, j>> \in {x \in (DOMAIN speakers) \X (DOMAIN speakers) :
                            x[1] < x[2] /\ HasAngle(speakers[x[1]]) /\ HasAngle(speakers[x[2]])}} :
     /\ p.span \in 1 .. Half - 1
     /\ Positive(source - speakers[p.left].angle) <= p.span}

Lexical(a, b) == a[1] < b[1] \/ (a[1] = b[1] /\ a[2] < b[2])

Ascending(a, b) == <<Min({a, b}), Max({a, b})>>

PairPrecedes(speakers, p, q, stable) ==
  LET ids(x) == Ascending(speakers[x.left].id, speakers[x.right].id)
      byIndex == Lexical(Ascending(p.left, p.right), Ascending(q.left, q.right))
  IN IF stable THEN Lexical(ids(p), ids(q)) \/ (ids(p) = ids(q) /\ byIndex) ELSE byIndex

\* Mutant: ties always go to the configured order.
SpeakerByIndex(speakers, i, j, stable) == i < j

SpeakerPrecedes(speakers, i, j, stable) ==
  IF stable THEN speakers[i].id < speakers[j].id \/ (speakers[i].id = speakers[j].id /\ i < j)
  ELSE i < j

Sole == <<1, 1, 1, Circle>>

\* The gains of the pair; a source on a speaker is that speaker's alone.
SolvePair(speakers, p, source) ==
  LET offset == Positive(source - speakers[p.left].angle)
      gain(numerator) == CASE numerator = 0 -> Silent
                           [] numerator = p.span -> Sole
                           [] OTHER -> <<numerator, p.span, 1, Circle>>
  IN [i \in DOMAIN speakers |->
        CASE i = p.left -> gain(p.span - offset)
          [] i = p.right -> gain(offset)
          [] OTHER -> Silent]

EqualPower(speakers) == [i \in DOMAIN speakers |-> <<1, 1, Len(speakers), Circle>>]

NearestDirection(speakers, source, stable) ==
  LET placed == {i \in DOMAIN speakers : HasAngle(speakers[i])}
      d(i) == ShortestAngle(speakers[i].angle, source)
      best == CHOOSE i \in placed :
                \A j \in placed \ {i} :
                  d(i) < d(j) \/ (d(i) = d(j) /\ SpeakerPrecedes(speakers, i, j, stable))
  IN IF placed = {} THEN EqualPower(speakers)
     ELSE [i \in DOMAIN speakers |-> IF i = best THEN Sole ELSE Silent]

VbapWeights(speakers, source, stable) ==
  LET bases == Bases(speakers, source)
      best == CHOOSE p \in bases :
                \A q \in bases \ {p} :
                  p.span < q.span \/ (p.span = q.span /\ PairPrecedes(speakers, p, q, stable))
  IN IF source = Centre THEN EqualPower(speakers)
     ELSE IF bases # {} THEN SolvePair(speakers, best, source)
     ELSE NearestDirection(speakers, source, stable)

-----------------------------------------------------------------------------
(* Spread                                                                  *)

\* Speakers in one direction share what one of them got.
RedistributeDuplicates(speakers, weights) ==
  [i \in DOMAIN speakers |->
     LET same == {j \in DOMAIN speakers : HasAngle(speakers[i]) /\ HasAngle(speakers[j])
                                            /\ speakers[i].angle = speakers[j].angle}
         sounding == {j \in same : weights[j] # Silent}
     IN IF Cardinality(same) <= 1 \/ sounding = {} THEN weights[i]
        ELSE LET w == weights[CHOOSE j \in sounding : TRUE]
             IN <<w[1], w[2], Cardinality(same), w[4]>>]

\* Every speaker within the radius gets a share of the kernel at its distance.
ApplyHorizontalSpread(speakers, source, radius, weights) ==
  IF source = Centre THEN weights
  ELSE LET shared == RedistributeDuplicates(speakers, weights)
           d(i) == ShortestAngle(speakers[i].angle, source)
       IN [i \in DOMAIN speakers |->
             IF HasAngle(speakers[i]) /\ d(i) <= radius
             THEN <<shared[i][1], shared[i][2], shared[i][3], d(i)>> ELSE shared[i]]

\* The target gains of an object: a source that is not finite is silent.
Gains(speakers, source, radius) ==
  IF source = NotFinite THEN [i \in DOMAIN speakers |-> Silent]
  ELSE LET point == VbapWeights(speakers, source, radius > 0)
       IN IF radius = 0 THEN point ELSE ApplyHorizontalSpread(speakers, source, radius, point)

-----------------------------------------------------------------------------
(* What the renderers have in common                                       *)

Whole == 2

WithSmoothing(alpha) == IF alpha = NotFinite THEN Whole ELSE Max({0, Min({alpha, Whole})})

\* previous + (target - previous) * alpha: which of the two are left in the result.
Smooth(alpha, previous, target) ==
  CASE alpha = 0 -> previous [] alpha = Whole -> target [] OTHER -> previous \union target

Enabled(layout) == SelectSeq(layout, LAMBDA s : s.enabled)

\* configure, for the enabled speakers it is going to pan over
CallOk(speakers, call) ==
  /\ call.rate > 0 /\ call.block > 0 /\ call.objects > 0
  /\ speakers # <<>>
  /\ \A i \in DOMAIN speakers : speakers[i].finite
  /\ Len(speakers) * call.objects <= MaxHistory

\* validate_render_buffers
BuffersFit(renderer, count, buffers) ==
  /\ renderer.configured
  /\ count <= renderer.objects
  /\ buffers.output = count * Len(renderer.layout)
  /\ buffers.scratch >= Len(renderer.layout)

-----------------------------------------------------------------------------
(* VbapRenderer and ObjectVbapRenderer                                     *)

Directional(layout) == SelectSeq(Enabled(layout), LAMBDA s : ~s.lfe)

\* A renderer of its own, or wrapped for objects.
PlaneInit ==
  \E alpha \in Alphas, wrapped \in BOOLEAN :
    /\ inner = [configured |-> FALSE, layout |-> <<>>, objects |-> 0, history |-> <<>>,
                alpha |-> WithSmoothing(alpha)]
    /\ outer = [wrapped |-> wrapped, map |-> <<>>, channels |-> 0]
    /\ output = <<>> /\ given = <<>>

\* Mutant: the history survives when it has the right size.
HistoryReused(speakers, objects) ==
  IF Len(inner.layout) = Len(speakers) /\ inner.objects = objects THEN inner.history
  ELSE [o \in 1 .. objects |-> [i \in DOMAIN speakers |-> {}]]

\* previous_gains: the speakers that what is left of earlier gains was computed for.
NewHistory(speakers, objects) == [o \in 1 .. objects |-> [i \in DOMAIN speakers |-> {}]]

Configured(speakers, call) ==
  [inner EXCEPT !.configured = TRUE, !.layout = speakers, !.objects = call.objects,
                !.history = NewHistory(speakers, call.objects)]

\* VbapRenderer::configure
ConfigurePlain(call) ==
  /\ ~outer.wrapped /\ CallOk(Enabled(call.layout), call)
  /\ inner' = Configured(Enabled(call.layout), call)
  /\ output' = <<>> /\ given' = call.layout
  /\ UNCHANGED outer

\* ObjectVbapRenderer::configure: the wrapped renderer gets the speakers that are not LFE.
DirectionalToFull(layout) ==
  LET full == Enabled(layout)
  IN SelectSeq([i \in DOMAIN full |-> i], LAMBDA i : ~full[i].lfe)

ConfigureObject(call) ==
  /\ outer.wrapped /\ CallOk(Directional(call.layout), call)
  /\ inner' = Configured(Directional(call.layout), call)
  /\ outer' = [outer EXCEPT !.map = DirectionalToFull(call.layout),
                            !.channels = Len(Enabled(call.layout))]
  /\ output' = <<>> /\ given' = call.layout

\* render_object: the new history of an object; a source that is not finite clears it.
Smoothed(o, object) ==
  LET targets == Gains(inner.layout, object.source, object.spread)
  IN [i \in DOMAIN inner.layout |->
        IF object.source = NotFinite THEN {}
        ELSE Smooth(inner.alpha, inner.history[o][i],
                    IF targets[i] = Silent THEN {} ELSE {inner.layout[i]})]

RenderObjects(objects) ==
  [inner EXCEPT !.history =
     [o \in DOMAIN @ |-> IF o <= Len(objects) THEN Smoothed(o, objects[o]) ELSE @[o]]]

Written(object, targets, smoothed) ==
  [object |-> object, targets |-> targets, gains |-> smoothed]

\* render_spread_gains; render_gains is the same for points.
RenderSpreadGains(objects, buffers) ==
  /\ ~outer.wrapped /\ BuffersFit(inner, Len(objects), buffers)
  /\ inner' = RenderObjects(objects)
  /\ output' = [o \in DOMAIN objects |->
                  Written(objects[o], Gains(inner.layout, objects[o].source, objects[o].spread),
                          inner'.history[o])]
  /\ UNCHANGED <<outer, given>>

\* Mutant: results are written in the order they were computed.
SlotsInOrder(gains, silent) ==
  [slot \in 1 .. outer.channels |-> IF slot <= Len(gains) THEN gains[slot] ELSE silent]

\* The gains of the directional speakers in the slots of the full layout, LFE silent.
FullOutput(gains, silent) ==
  [slot \in 1 .. outer.channels |->
     LET at == SelectInSeq(outer.map, LAMBDA full : full = slot)
     IN IF at = 0 THEN silent ELSE gains[at]]

\* validate_output, then the wrapped renderer with the directional buffer.
RenderObjectGains(objects, buffers) ==
  /\ outer.wrapped /\ buffers.output = Len(objects) * outer.channels
  /\ BuffersFit(inner, Len(objects),
                [buffers EXCEPT !.output = Len(objects) * Len(inner.layout)])
  /\ \A o \in DOMAIN objects : objects[o].spread = 0
  /\ inner' = RenderObjects(objects)
  /\ output' = [o \in DOMAIN objects |->
                  Written(objects[o],
                          FullOutput(Gains(inner.layout, objects[o].source, 0), Silent),
                          FullOutput(inner'.history[o], {}))]
  /\ UNCHANGED <<outer, given>>

Reset == /\ inner' = [inner EXCEPT !.history = NewHistory(inner.layout, inner.objects)]
         /\ UNCHANGED <<outer, output, given>>

PlaneNext ==
  \/ \E call \in Calls : ConfigurePlain(call) \/ ConfigureObject(call)
  \/ \E objects \in Objects, buffers \in Buffers :
       RenderSpreadGains(objects, buffers) \/ RenderObjectGains(objects, buffers)
  \/ Reset

-----------------------------------------------------------------------------
(* Vbap3dRenderer: the hull                                                *)

Zero == <<0, 0, 0>>

Minus(a, b) == <<a[1] - b[1], a[2] - b[2], a[3] - b[3]>>

Dot(a, b) == a[1] * b[1] + a[2] * b[2] + a[3] * b[3]

Cross(a, b) == <<a[2] * b[3] - a[3] * b[2], a[3] * b[1] - a[1] * b[3], a[1] * b[2] - a[2] * b[1]>>

Determinant(a, b, c) == Dot(a, Cross(b, c))

Sign(n) == IF n > 0 THEN 1 ELSE IF n < 0 THEN -1 ELSE 0

Spatial(layout) == {i \in DOMAIN layout : ~layout[i].lfe}

Dir(layout, l, i) == layout[i].dir[l]

\* compare_speakers
Before(layout, i, j) == layout[i].id < layout[j].id \/ (layout[i].id = layout[j].id /\ i < j)

\* The elements of a set by their rank in a strict order.
Ranked(S, Precedes(_, _)) ==
  [n \in 1 .. Cardinality(S) |->
     CHOOSE x \in S : Cardinality({y \in S : Precedes(y, x)}) = n - 1]

BySpeaker(layout, S) == Ranked(S, LAMBDA i, j : Before(layout, i, j))

\* Three of a set in the order of the loops over it.
Triples(S) == {c \in S \X S \X S : c[1] < c[2] /\ c[2] < c[3]}

Earlier(c, d) == \/ c[1] < d[1]
                 \/ c[1] = d[1] /\ c[2] < d[2]
                 \/ c[1] = d[1] /\ c[2] = d[2] /\ c[3] < d[3]

RawNormal(layout, l, c) == Cross(Minus(Dir(layout, l, c[2]), Dir(layout, l, c[1])),
                                 Minus(Dir(layout, l, c[3]), Dir(layout, l, c[1])))

\* supporting_plane of three speakers: none when speakers lie on both sides of it.
Sides(layout, l, c, normal) ==
  {Sign(Dot(normal, Minus(Dir(layout, l, i), Dir(layout, l, c[1])))) : i \in Spatial(layout) \ ToSet(c)}
    \ {0}

SupportingPlane(layout, l, c) ==
  LET raw == RawNormal(layout, l, c)
      sides == Sides(layout, l, c, raw)
      flip == 1 \in sides \/ (sides = {} /\ Dot(raw, Dir(layout, l, c[1])) < 0)
      normal == IF flip THEN Minus(Zero, raw) ELSE raw
  IN [exists |-> raw # Zero /\ Cardinality(sides) <= 1, normal |-> normal,
      offset |-> Dot(normal, Dir(layout, l, c[1])), strict |-> sides # {}]

\* collect_coplanar_face_vertices
FaceVertices(layout, l, plane) ==
  {i \in Spatial(layout) : Dot(plane.normal, Dir(layout, l, i)) = plane.offset}

\* canonical_face_trigger: of a face's triples the first by speaker that has an area.
FaceTrigger(layout, l, vertices) ==
  LET sorted == BySpeaker(layout, vertices)
      at(p) == [k \in 1 .. 3 |-> sorted[p[k]]]
      spanned == {p \in Triples(DOMAIN sorted) : RawNormal(layout, l, at(p)) # Zero}
  IN ToSet(at(CHOOSE p \in spanned : \A q \in spanned \ {p} : Earlier(p, q)))

\* rebuild_convex_hull_topology: each face once, at the candidate that is its trigger.
Faces(layout, l) ==
  LET planes == [c \in Triples(Spatial(layout)) |-> SupportingPlane(layout, l, c)]
      supported == [c \in {c \in DOMAIN planes : planes[c].exists} |->
                      [vertices |-> FaceVertices(layout, l, planes[c]), plane |-> planes[c]]]
      found == {c \in DOMAIN supported : FaceTrigger(layout, l, supported[c].vertices) = ToSet(c)}
      order == Ranked(found, Earlier)
  IN [n \in DOMAIN order |-> supported[order[n]]]

\* Vertices of a face around its normal, from the anchor on; coincident ones by speaker.
Around(layout, l, face, anchor) ==
  LET a == Dir(layout, l, anchor)
      turn(i, j) == Dot(face.plane.normal,
                        Cross(Minus(Dir(layout, l, i), a), Minus(Dir(layout, l, j), a)))
      atAnchor(i) == Dir(layout, l, i) = a
      before(i, j) == \/ atAnchor(i) /\ ~atAnchor(j)
                      \/ ~atAnchor(i) /\ ~atAnchor(j) /\ turn(i, j) > 0
                      \/ /\ Dir(layout, l, i) = Dir(layout, l, j) /\ Before(layout, i, j)
  IN Ranked(face.vertices \ {anchor}, before)

\* Mutant: the fan stops one triangle early.
FanShort(anchor, ring) == [k \in 1 .. Len(ring) - 2 |-> <<anchor, ring[k], ring[k + 1]>>]

Fan(anchor, ring) == [k \in 1 .. Len(ring) - 1 |-> <<anchor, ring[k], ring[k + 1]>>]

\* Mutant: every triple of the face becomes a triplet.
EveryTriple(layout, l, face) == Ranked(Triples(face.vertices), Earlier)

\* triangulate_current_face: a triangle as it is, otherwise a fan from the first speaker.
TriangulateFace(layout, l, face) ==
  LET first == BySpeaker(layout, face.vertices)
  IN IF Len(first) = 3 THEN <<first>> ELSE Fan(first[1], Around(layout, l, face, first[1]))

\* push_validated_triplet drops bases without volume.
ActiveTriplets(layout, l, faces) ==
  SelectSeq(FlattenSeq([n \in DOMAIN faces |-> TriangulateFace(layout, l, faces[n])]),
            LAMBDA t : Determinant(Dir(layout, l, t[1]), Dir(layout, l, t[2]),
                                   Dir(layout, l, t[3])) # 0)

\* listener_inside_hull: no face has the listener on its outer side.  A spatial speaker at
\* the listener leaves no triplets.
HullAround(l, faces, triplets) ==
  [prepared |-> l, triplets |-> triplets, valid |-> triplets # <<>>,
   inside |-> /\ triplets # <<>>
              /\ \A face \in ToSet(faces) : face.plane.strict /\ face.plane.offset >= 0]

Topology(layout, l) ==
  LET faces == Faces(layout, l)
  IN IF \E i \in Spatial(layout) : Dir(layout, l, i) = Zero THEN HullAround(l, <<>>, <<>>)
     ELSE HullAround(l, faces, ActiveTriplets(layout, l, faces))

\* The topologies a behaviour can need.
HullLayouts == {Enabled(call.layout) : call \in HullCalls}

Topologies == [layout \in HullLayouts |-> [l \in Listeners |-> Topology(layout, l)]]

-----------------------------------------------------------------------------
(* Vbap3dRenderer: gains                                                   *)

\* solve_triplet: the signs of the three gains.
SolveTriplet(layout, l, t, source) ==
  LET a == Dir(layout, l, t[1])
      b == Dir(layout, l, t[2])
      c == Dir(layout, l, t[3])
      base == Sign(Determinant(a, b, c))
  IN <<base * Sign(Determinant(source, b, c)), base * Sign(Determinant(a, source, c)),
       base * Sign(Determinant(a, b, source))>>

Holds(layout, l, t, source) == \A k \in 1 .. 3 : SolveTriplet(layout, l, t, source)[k] >= 0

\* nearest_direction: speakers at the listener have no direction; of equally near ones the
\* first by speaker.
Nearest(layout, l, source) ==
  LET placed == {i \in Spatial(layout) : Dir(layout, l, i) # Zero}
      d(i) == Dot(Dir(layout, l, i), source)
  IN IF placed = {} THEN Spatial(layout)
     ELSE {CHOOSE i \in placed :
             \A j \in placed \ {i} : d(i) > d(j) \/ (d(i) = d(j) /\ Before(layout, i, j))}

\* select_triplet takes the first base that holds the source; equal_power_spatial is for a
\* source at the listener.
Panned(layout, l, triplets, source) ==
  LET bases == SelectSeq(triplets, LAMBDA t : Holds(layout, l, t, source))
  IN CASE source = Zero -> Spatial(layout)
       [] source # Zero /\ bases # <<>> ->
            {bases[1][k] : k \in {k \in 1 .. 3 : SolveTriplet(layout, l, bases[1], source)[k] > 0}}
       [] OTHER -> Nearest(layout, l, source)

\* render_object: the speakers with a target gain.
FiniteInput(l, object) == l # Lost /\ object.finite

Targets(layout, l, triplets, object) ==
  IF FiniteInput(l, object) /\ object.gain > 0 THEN Panned(layout, l, triplets, object.at) ELSE {}

-----------------------------------------------------------------------------
(* Vbap3dRenderer: calls                                                   *)

None == "none"

NothingHeard == [listener |-> None, objects |-> <<>>, targets |-> <<>>, gains |-> <<>>]

NoTopology == [prepared |-> None, triplets |-> <<>>, inside |-> FALSE, valid |-> FALSE]

HullInit ==
  \E alpha \in Alphas :
    /\ hull = [configured |-> FALSE, layout |-> <<>>, objects |-> 0, history |-> <<>>,
               alpha |-> WithSmoothing(alpha), topology |-> NoTopology]
    /\ heard = NothingHeard

\* Mutant: the topology outlives the layout it was built for.
HullConfigureKeeps(call) ==
  /\ CallOk(Enabled(call.layout), call)
  /\ Cardinality(Spatial(Enabled(call.layout))) \in 3 .. MaxSpatial
  /\ hull' = [hull EXCEPT !.configured = TRUE, !.layout = Enabled(call.layout),
                 !.objects = call.objects, !.history = [o \in 1 .. call.objects |-> {}]]
  /\ heard' = NothingHeard

HullConfigure(call) ==
  /\ CallOk(Enabled(call.layout), call)
  /\ Cardinality(Spatial(Enabled(call.layout))) \in 3 .. MaxSpatial
  /\ hull' = [hull EXCEPT !.configured = TRUE, !.layout = Enabled(call.layout),
                 !.objects = call.objects, !.history = [o \in 1 .. call.objects |-> {}],
                 !.topology = NoTopology]
  /\ heard' = NothingHeard

\* Mutant: the cache is not compared with the position asked for.
PreparedOnce(l) ==
  CASE l = Lost -> NoTopology
    [] l # Lost /\ hull.topology.prepared # None -> hull.topology
    [] OTHER -> Topologies[hull.layout][l]

\* prepare_listener_internal: cached for the position it was called with last.
Prepared(l) ==
  CASE l = Lost -> NoTopology
    [] l # Lost /\ hull.topology.prepared = l -> hull.topology
    [] OTHER -> Topologies[hull.layout][l]

\* It answers whether the topology is valid, and keeps it in either case.
PrepareListener(l) == /\ hull.configured
                      /\ hull' = [hull EXCEPT !.topology = Prepared(l)]
                      /\ UNCHANGED heard

\* The smoothed gains of a block.
Rendered(l, objects, targets) ==
  [o \in DOMAIN objects |->
     IF FiniteInput(l, objects[o]) THEN Smooth(hull.alpha, hull.history[o], targets[o]) ELSE {}]

\* render_gains prepares first and renders whether that worked or not; the values are bound
\* so that TLC evaluates them once.
HullRender(l, objects, buffers) ==
  /\ BuffersFit(hull, Len(objects), buffers)
  /\ \E topology \in {Prepared(l)} :
     \E targets \in {[o \in DOMAIN objects |->
                        Targets(hull.layout, l, topology.triplets, objects[o])]} :
     \E smoothed \in {Rendered(l, objects, targets)} :
       /\ hull' = [hull EXCEPT !.topology = topology,
                      !.history = [o \in DOMAIN @ |->
                                     IF o \in DOMAIN objects THEN smoothed[o] ELSE @[o]]]
       /\ heard' = [listener |-> l, objects |-> objects, targets |-> targets, gains |-> smoothed]

\* The topology stays.
HullReset == /\ hull' = [hull EXCEPT !.history = [o \in DOMAIN @ |-> {}]]
             /\ UNCHANGED heard

HullNext ==
  \/ \E call \in HullCalls : HullConfigure(call)
  \/ \E l \in Listeners \cup {Lost} :
       \/ PrepareListener(l)
       \/ \E objects \in ObjectLists, buffers \in Buffers : HullRender(l, objects, buffers)
  \/ HullReset

-----------------------------------------------------------------------------
(* Properties                                                              *)

SourceDirections == {object.at : object \in UNION {ToSet(list) : list \in ObjectLists}}

GainOf(speakers, gains, id) ==
  gains[SelectInSeq(speakers, LAMBDA s : s.id = id)]

\* SpreadIgnoresOrder: with spread the gain of a loudspeaker depends on where it is and not
\* on its place in the layout, whichever of several equal bases is taken.
\* ("speaker-layout-permutation-equivalence"; pair_precedes, speaker_precedes)
SpreadIgnoresOrder ==
  \A o \in DOMAIN output :
    LET object == output[o].object
        other  == Reverse(inner.layout)
    IN object.spread > 0 =>
         \A i \in DOMAIN inner.layout :
           LET id == inner.layout[i].id
           IN GainOf(inner.layout, Gains(inner.layout, object.source, object.spread), id)
                = GainOf(other, Gains(other, object.source, object.spread), id)

\* SlotOfSpeaker: the gain panned to a loudspeaker is in that loudspeaker's slot of the
\* enabled layout given to the last configure, smoothed only from gains of that same
\* loudspeaker, and there is none in an LFE slot of the wrapper.  (ObjectVbapRenderer)
SlotOfSpeaker ==
  \A o \in DOMAIN output : \A slot \in DOMAIN output[o].targets :
    LET speaker == Enabled(given)[slot]
        object  == output[o].object
        panned  == Gains(inner.layout, object.source, object.spread)
    IN /\ output[o].targets[slot] = IF outer.wrapped /\ speaker.lfe THEN Silent
                                    ELSE GainOf(inner.layout, panned, speaker.id)
       /\ output[o].gains[slot] \subseteq {speaker}
       /\ inner.alpha > 0 /\ output[o].targets[slot] # Silent => speaker \in output[o].gains[slot]
       /\ outer.wrapped /\ speaker.lfe => output[o].gains[slot] = {}

\* HistoryOfLayout: smoothed gains never carry a part of gains computed for other
\* loudspeakers.  (configure, previous_gains)
HistoryOfLayout ==
  \A o \in DOMAIN inner.history : \A i \in DOMAIN inner.layout :
    inner.history[o][i] \subseteq {inner.layout[i]}

\* TopologyOfListener: what a render used is the hull of the layout configured now around
\* the listener of that call, however configurations, positions and lost positions came
\* and went before; an object that is not finite, or has no listener, is silent at once.
\* (prepared_listener_center)
TopologyOfListener ==
  heard.listener # None =>
    LET l == heard.listener
        triplets == IF l = Lost THEN <<>> ELSE Topologies[hull.layout][l].triplets
    IN \A o \in DOMAIN heard.objects :
         /\ heard.targets[o] = Targets(hull.layout, l, triplets, heard.objects[o])
         /\ ~FiniteInput(l, heard.objects[o]) => heard.gains[o] = {}
         /\ heard.gains[o] \subseteq Spatial(hull.layout)

Tiled(layout, topology) ==
  topology.inside =>
    \A source \in SourceDirections :
      Cardinality({t \in ToSet(topology.triplets) :
                     \A k \in 1 .. 3 :
                       SolveTriplet(layout, topology.prepared, t, source)[k] > 0}) <= 1

Covered(layout, topology) ==
  topology.inside /\ (\A face \in ToSet(Faces(layout, topology.prepared)) : face.plane.offset > 0) =>
    \A source \in SourceDirections \ {Zero} :
      \E t \in ToSet(topology.triplets) : Holds(layout, topology.prepared, t, source)

\* TripletsTile: around a listener inside the hull no direction lies strictly inside two
\* bases, also where four or more speakers are coplanar or two coincide, so that the base
\* found first is the only one.  (rebuild_convex_hull_topology, triangulate_current_face)
TripletsTile ==
  \A layout \in HullLayouts : \A l \in Listeners : Tiled(layout, Topologies[layout][l])

\* InteriorCovered: around a listener strictly inside the hull every direction has a base.
\* ("A closed hull guarantees that every source direction has a VBAP base")
InteriorCovered ==
  \A layout \in HullLayouts : \A l \in Listeners : Covered(layout, Topologies[layout][l])
=============================================================================
