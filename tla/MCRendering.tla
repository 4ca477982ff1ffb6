---------------------------- MODULE MCRendering ----------------------------
(***************************************************************************)
(* The renderers: three-dimensional and horizontal VBAP, the basic         *)
(* panners, the head-tracked HRTF scheduler and the libspatialaudio        *)
(* adapter.  They share no state, and each property is about one of them,  *)
(* so in every behaviour the renderer that `focus' names moves alone.      *)
(***************************************************************************)
EXTENDS Vbap

VARIABLES focus,
          basic, rendered, peak, blocks,
          mapper, poses, scheduler, renderer, frame,
          pc, plan, engine, adapter, shim, block, taken

basicVars == <<basic, rendered, peak, blocks>>
headVars == <<mapper, poses, scheduler, renderer, frame>>
adapterVars == <<pc, plan, engine, adapter, shim, block, taken>>

-----------------------------------------------------------------------------
(* Three-dimensional layouts, directions relative to two listeners: a      *)
(* seven-channel bed with heights, a box with a doubled corner, one whose  *)
(* hull depends on the listener, a dome open below, three speakers in one  *)
(* face, a tetrahedron, and calls that configure refuses.                  *)

Speaker3d(id, a, b) ==
  [id |-> id, lfe |-> FALSE, enabled |-> TRUE, finite |-> TRUE, dir |-> [A |-> a, B |-> b]]
Fixed(vs) == [i \in DOMAIN vs |-> Speaker3d(Len(vs) - i, vs[i], vs[i])]

FiveOneTwo == <<<<-2, 2, -1>>, <<2, 2, -1>>, <<0, 3, 0>>, <<-2, -2, -1>>, <<2, -2, -1>>,
                <<-2, 1, 2>>, <<2, 1, 2>>>>
DoubledBox == <<<<2, 2, 1>>, <<-2, 2, 1>>, <<2, -2, 1>>, <<-2, -2, 1>>, <<2, 2, -1>>,
                <<-2, 2, -1>>, <<2, -2, -1>>, <<-2, -2, -1>>, <<2, 2, 1>>>>
Octahedron == <<<<3, 0, 0>>, <<-3, 0, 0>>, <<0, 3, 0>>, <<0, -3, 0>>, <<0, 0, 3>>, <<0, 0, -3>>>>
Moved == <<Speaker3d(1, <<3, 0, 0>>, <<0, 3, 0>>), Speaker3d(2, <<-3, 0, 0>>, <<0, -3, 0>>),
           Speaker3d(3, <<0, 0, 3>>, <<0, 0, 3>>), Speaker3d(4, <<0, 2, -1>>, <<3, 0, 0>>),
           [Speaker3d(5, <<0, 0, 3>>, <<0, 0, 3>>) EXCEPT !.lfe = TRUE],
           Speaker3d(6, <<1, 2, 2>>, <<0, 0, 0>>)>>

Tetrahedron == <<<<1, 2, 2>>, <<-2, -1, 2>>, <<2, -2, 1>>, <<-1, 2, -2>>>>

Call(layout, objects) == [layout |-> layout, rate |-> 48, block |-> 64, objects |-> objects]

MCHullCalls ==
  {Call(layout, 2) : layout \in
     {Fixed(FiveOneTwo), Fixed(DoubledBox), Moved, Fixed(SubSeq(Octahedron, 1, 5)),
      Fixed(Reverse(SubSeq(FiveOneTwo, 1, 3))), SubSeq(Moved, 1, 2), <<>>,
      [Fixed(Octahedron) EXCEPT ![1].finite = FALSE],
      [Fixed(Octahedron) EXCEPT ![1].enabled = FALSE]}}
    \union {Call(Fixed(Tetrahedron), 1), Call(Fixed(Octahedron), 0),
            [Call(Fixed(Octahedron), 1) EXCEPT !.rate = 0],
            [Call(Fixed(Octahedron), 1) EXCEPT !.block = 0]}

ObjectAt(at) == [at |-> at, gain |-> 1, finite |-> TRUE]

MCObjectLists ==
  {<<ObjectAt(at)>> : at \in ({0} \X {0} \X {-1, 0, 1}) \cup ({-2, 1} \X {1} \X {-1, 1})}
    \union {<<ObjectAt(<<3, 2, 1>>), ObjectAt(<<-2, -1, 1>>)>>, <<>>,
            <<ObjectAt(<<1, -1, -1>>), [ObjectAt(<<-2, -1, -1>>) EXCEPT !.finite = FALSE]>>,
            <<[ObjectAt(<<1, -1, 1>>) EXCEPT !.gain = 0]>>, [o \in 1 .. 3 |-> ObjectAt(Zero)]}

\* Room for any number of objects and speakers; scratch for every layout or a small one.
MCBuffers == [output : 0 .. 18, scratch : {4, 9}]

\* Below the range, frozen, half, beyond the range and not a number.
MCAlphas == {-1, 1, 3, NotFinite}

-----------------------------------------------------------------------------
(* Horizontal layouts: well spread, doubled, with an LFE, opposite, with a *)
(* disabled speaker, and two without a usable direction.                   *)

Speaker2d(id, angle) ==
  [id |-> id, angle |-> angle, lfe |-> FALSE, enabled |-> TRUE, finite |-> TRUE]
Lfe2d(id, angle) == [Speaker2d(id, angle) EXCEPT !.lfe = TRUE]

MCLayouts2d ==
  {<<Speaker2d(1, 0), Speaker2d(2, 2), Speaker2d(3, 6)>>,
   <<Speaker2d(2, 0), Speaker2d(1, 0), Speaker2d(3, 2), Speaker2d(4, 5)>>,
   <<Speaker2d(3, 7), Lfe2d(9, 0), Speaker2d(1, 1), Speaker2d(2, 1)>>,
   <<Speaker2d(1, 0), Speaker2d(2, 4)>>, <<Speaker2d(1, 6), Speaker2d(2, 2)>>,
   <<Speaker2d(5, -1), [Speaker2d(6, 3) EXCEPT !.enabled = FALSE]>>,
   <<Lfe2d(1, 6)>>, <<[Speaker2d(1, 6) EXCEPT !.finite = FALSE]>>}

MCCalls == {Call(layout, objects) : layout \in MCLayouts2d, objects \in 0 .. 2}
             \union {[Call(<<Speaker2d(1, 0)>>, 1) EXCEPT !.rate = 0]}

Object2d(source, spread) == [source |-> source, spread |-> spread]

MCObjects ==
  {<<Object2d(source, spread)>> : source \in {-2, -1, 0, 1, 4, 6}, spread \in {0, 2, 4}}
    \union {<<Object2d(6, 0), Object2d(source, spread)>> : source \in {-2, 1}, spread \in {0, 2}}
    \union {<<>>, [o \in 1 .. 3 |-> Object2d(0, 0)]}

-----------------------------------------------------------------------------
(* Basic panners: stereo in both orders, quad with a centre before and     *)
(* after it, and layouts with a disabled LFE.                              *)

At(role, x, y) == [role |-> role, at |-> <<1000 * x, 1000 * y, 0>>, enabled |-> TRUE,
                   gain |-> 100, delay |-> 0]
DisabledLfe == [At("Lfe", 0, 3) EXCEPT !.enabled = FALSE]
Stereo == <<At("FrontLeft", -1, 1), [At("FrontRight", 1, 1) EXCEPT !.gain = 50, !.delay = 12]>>
Quad == Stereo \o <<At("RearLeft", -1, -1), At("RearRight", 1, -1)>>

MCBasicCalls ==
  {Call(layout, 2) : layout \in
     {Append(Stereo, DisabledLfe), <<DisabledLfe>>, Append(Quad, At("FrontCenter", 0, 1)),
      <<At("FrontCenter", 0, 1)>> \o Quad}}
    \union {Call(Reverse(Stereo), 1), Call(Stereo, 0), [Call(Stereo, 1) EXCEPT !.rate = 0],
            [Call(Stereo, 1) EXCEPT !.block = 0]}

Sounding(x, y, z) == [at |-> <<x, y, z>>, gain |-> 100]

MCBasicObjects ==
  {<<Sounding(1000, 1000, 0)>>, <<Sounding(30000, 20000, 0)>>,
   <<Sounding(-900, 1100, 500), Sounding(1000, -1000, 0)>>,
   <<Sounding(-1000, -1000, 0), [Sounding(88, 0, 1200) EXCEPT !.gain = 200]>>,
   <<>>, [o \in 1 .. 3 |-> Sounding(0, 0, 0)]}

Facing(x, y, forward) == [at |-> <<x, y, 0>>, forward |-> forward, ear |-> 1200]

MCBasicListeners ==
  {Facing(0, 0, <<0, 0, 100>>), Facing(1000, 1000, <<-71, 71, 0>>), Facing(-1000, 0, <<80, 0, -60>>)}

Basic == INSTANCE BasicPanning WITH BasicCalls <- MCBasicCalls, BasicObjects <- MCBasicObjects,
           BasicListeners <- MCBasicListeners, BasicAlphas <- {-1, 1, 3}, MaxBasicBlocks <- 2,
           BasicBuffers <- [output : {2, 4, 5, 10}, scratch : {5}] \union [output : {0}, scratch : {1, 5}]

-----------------------------------------------------------------------------
(* The tracker: three samples at times that lag, lead or leave a gap; a    *)
(* bank that misses some directions; crossfades of one and two frames.     *)

Tracked == INSTANCE HeadPoseHrtf WITH
          Samples <- {[sequence |-> s, timestamp |-> t, orientation |-> (3 * s) % 4] :
                        s \in 0 .. 2, t \in {0, 3, 4, 6}},
          Anchors <- {0, 4}, MaxFrame <- 3, Scale <- 2, MaxSourceGap <- 4, MaxLag <- 1,
          MaxLead <- 1, MaxInterpolationGap <- 2, MaxStale <- 1, Circle <- 4, Coverage <- 1,
          MaxGeneration <- 3, Directions <- {<<0, 1>>, <<1, 2>>}, Measured <- <<0, 2>>,
          Objects <- <<"a", "b">>, Transitions <- {1, 2}

-----------------------------------------------------------------------------
(* The adapter: a plan with all speakers, one inactive, one unproven, and  *)
(* scenes that are valid, invalid, ambiguous or in another order.          *)

Planned(role, dir) == [role |-> role, dir |-> dir, active |-> TRUE]
Placed(role, dir, radius) == [role |-> role, dir |-> dir, enabled |-> TRUE, radius |-> radius]
PlannedBed == <<Planned("fl", 1), Planned("fr", 2), Planned("lfe", 3)>>
PlacedBed == <<Placed("fr", 7, 2), Placed("fl", 8, 1), Placed("lfe", 9, 3)>>
Scene(valid, speakers) == [standard |-> TRUE, valid |-> valid, speakers |-> speakers]

ConfigurationOf(missing, speakers) ==
  [proven |-> {"layout", "media", "component", "kind", "contract", "pin", "payload"} \ missing,
   speakers |-> speakers]
AllIntents == {"enabled", "schema", "component", "version", "contract", "path", "media"}

Adapter == INSTANCE SpatialAdapter WITH
             Canonical <- <<"fl", "fr", "lfe">>,
             Configurations <- {ConfigurationOf({}, PlannedBed), ConfigurationOf({"pin"}, PlannedBed),
                                ConfigurationOf({}, [PlannedBed EXCEPT ![2].active = FALSE])},
             Scenes <- {Scene(TRUE, PlacedBed), Scene(FALSE, PlacedBed),
                        Scene(TRUE, Append(PlacedBed, PlacedBed[1])),
                        Scene(TRUE, [PlacedBed EXCEPT ![1].radius = 0]),
                        Scene(TRUE, [PlacedBed EXCEPT ![1].enabled = FALSE])},
             Intents <- {AllIntents, AllIntents \ {"enabled"}},
             ObjectLimits <- {1, 2}, MaxBlocks <- 3, heard <- taken

-----------------------------------------------------------------------------
MCInit ==
  /\ focus \in {"space", "plane", "basic", "head", "adapter"}
  /\ HullInit /\ (focus = "space" \/ hull.alpha = Whole)
  /\ PlaneInit /\ (focus = "plane" \/ (inner.alpha = Whole /\ outer.wrapped))
  /\ Tracked!Init /\ Adapter!Init
  /\ Basic!Init /\ (focus = "basic" \/ (basic.mode = "NearestSpeaker" /\ basic.alpha = 1))

SpaceMoves ==
  focus = "space" /\ HullNext /\ UNCHANGED <<focus, vbVars, basicVars, headVars, adapterVars>>
PlaneMoves ==
  focus = "plane" /\ PlaneNext /\ UNCHANGED <<focus, v3Vars, basicVars, headVars, adapterVars>>
BasicMoves ==
  focus = "basic" /\ Basic!Next /\ UNCHANGED <<focus, v3Vars, vbVars, headVars, adapterVars>>
HeadMoves ==
  focus = "head" /\ Tracked!Next /\ UNCHANGED <<focus, v3Vars, vbVars, basicVars, adapterVars>>
AdapterMoves ==
  focus = "adapter" /\ Adapter!Next /\ UNCHANGED <<focus, v3Vars, vbVars, basicVars, headVars>>

MCNext == SpaceMoves \/ PlaneMoves \/ BasicMoves \/ HeadMoves \/ AdapterMoves

MCSpec == MCInit /\ [][MCNext]_<<focus, v3Vars, vbVars, basicVars, headVars, adapterVars>>

-----------------------------------------------------------------------------
\* Vbap3dRenderer: the triplets a listener is rendered with are of that listener's hull, tile
\* it, and cover every direction of a hull around the listener.
HullSound == TopologyOfListener /\ TripletsTile /\ InteriorCovered

\* VbapRenderer: the order of the speakers does not change a spread source, each speaker keeps
\* its slot beside disabled and LFE speakers, and no gain of an earlier layout is smoothed from.
PlaneSound == SpreadIgnoresOrder /\ SlotOfSpeaker /\ HistoryOfLayout

\* BasicRenderer: the adjacent speakers are the nearest, only the far ear is shadowed, a gain is
\* smoothed from its own history, and aligned speakers are heard at once.
PannersSound == /\ Basic!AdjacentAreNearest /\ Basic!FarEarShadowed
                /\ Basic!SmoothedFromItself /\ Basic!ArrivalsAligned

\* HrtfScheduler: what is committed at a boundary was resolved for that boundary from poses
\* that were fresh there.
BoundaryPoseFresh == Tracked!BoundaryPoseFresh

\* LibspatialaudioRenderer: each scene speaker has the plan's role, the adapter and the native
\* renderer agree on their limit, a block takes no sample of an earlier block, and no native
\* call is made on a closed library.
AdapterSound ==
  Adapter!SceneFollowsPlan /\ Adapter!LimitsAgree /\ Adapter!InputsOfThisBlock /\ Adapter!NativeAlive
=============================================================================
