---------------------------- MODULE HeadPoseHrtf ----------------------------
(***************************************************************************)
(* Head tracking, from the tracker's clock to the filters that are heard:  *)
(* HeadPoseClockMapper and HeadPoseState of aurora-renderer-api, the       *)
(* DirectionalHrtf bank, HeadPoseHrtfScheduler and PreparedBinaural of     *)
(* aurora-renderer-basic.                                                  *)
(*                                                                         *)
(* The tracker delivers any sample at any time: late, twice, out of order  *)
(* or after a restart of its clock.  Abstraction: a head turns in the      *)
(* horizontal plane, so an orientation and a direction are one of Circle   *)
(* angles; a filter bank is the list of measurements it was taken from.    *)
(***************************************************************************)
EXTENDS Integers, FiniteSets, SequencesExt, FiniteSetsExt

CONSTANTS Samples,                    \* what the tracker may deliver
          Anchors,                    \* timestamps at which its clock may be re-anchored
          MaxFrame,                   \* media frames of the model
          Scale,                      \* timestamp units of one media frame
          MaxSourceGap, MaxLag, MaxLead,     \* HeadPoseClockPolicy
          MaxInterpolationGap, MaxStale,     \* HeadPosePolicy
          Circle, Measured, Coverage, \* directions of the bank, its angular tolerance
          Objects,                    \* configured object identifiers, a sequence
          Directions,                 \* world directions of the objects, sequences
          Transitions,                \* crossfade lengths the caller asks for
          MaxGeneration

VARIABLES mapper, poses, scheduler, renderer, frame

hpVars == <<mapper, poses, scheduler, renderer, frame>>

None == [sequence |-> -1]
NoCandidate == [generation |-> 0]

Init ==
  /\ mapper = [anchor |-> [timestamp |-> 0, frame |-> 0], previous |-> None]
  /\ poses = [previous |-> None, current |-> None]
  /\ scheduler = [generation |-> 1, last |-> -1, pending |-> NoCandidate]
  /\ renderer = [generation |-> 1, active |-> <<>>, next |-> <<>>, left |-> 0,
                 target |-> 0, resolved |-> {}]
  /\ frame = 0

-----------------------------------------------------------------------------
(* The tracker's clock                                                     *)

\* The nearest media frame, half-way values rounded forward.
MappedFrame(timestamp) ==
  mapper.anchor.frame + (2 * (timestamp - mapper.anchor.timestamp) + Scale) \div (2 * Scale)

SourceAdvances(sample) ==
  mapper.previous # None =>
    /\ sample.sequence > mapper.previous.sequence
    /\ sample.timestamp > mapper.previous.timestamp
    /\ sample.timestamp - mapper.previous.timestamp <= MaxSourceGap

DeliveryInTime(mapped) == mapped - frame \in -MaxLag .. MaxLead

\* HeadPoseClockMapper::map
Maps(sample) ==
  /\ SourceAdvances(sample)
  /\ sample.timestamp >= mapper.anchor.timestamp
  /\ mapper.previous # None => MappedFrame(sample.timestamp) > mapper.previous.frame
  /\ DeliveryInTime(MappedFrame(sample.timestamp))

\* HeadPoseState::commit
PoseAdvances(pose) ==
  poses.current # None => /\ pose.sequence > poses.current.sequence
                          /\ pose.frame > poses.current.frame

\* A sample the mapper takes and the pose window does not still moves the mapper.
DeliverPose(sample) ==
  LET pose == [sequence |-> sample.sequence, frame |-> MappedFrame(sample.timestamp),
               orientation |-> sample.orientation]
  IN  /\ Maps(sample)
      /\ mapper' = [mapper EXCEPT !.previous =
                      [sequence |-> sample.sequence, timestamp |-> sample.timestamp,
                       frame |-> pose.frame]]
      /\ poses' = IF PoseAdvances(pose)
                  THEN [previous |-> poses.current, current |-> pose] ELSE poses
      /\ UNCHANGED <<scheduler, renderer, frame>>

\* HeadPoseClockMapper::reset after a reconnect; the pose window is not told.
ResetClock(timestamp) ==
  /\ mapper' = [anchor |-> [timestamp |-> timestamp, frame |-> frame], previous |-> None]
  /\ UNCHANGED <<poses, scheduler, renderer, frame>>

-----------------------------------------------------------------------------
(* Resolving a pose and selecting filters                                  *)

\* slerp: along the shorter arc.
Slerp(from, to, offset, gap) ==
  LET arc == (to - from) % Circle
      turn == IF 2 * arc > Circle THEN arc - Circle ELSE arc
  IN  (from + (turn * offset) \div gap) % Circle

\* HeadPoseState::resolve, the orientations of a target frame: none or one.  A pose
\* names the sample frames it was taken from.
Resolve(target) ==
  LET now == poses.current
      old == poses.previous
      at(pose) == {[orientation |-> pose.orientation, from |-> {pose.frame}]}
  IN  CASE now = None -> {}
        [] now # None /\ target >= now.frame ->
             IF target - now.frame <= MaxStale THEN at(now) ELSE {}
        [] now # None /\ target < now.frame ->
             IF old = None \/ target < old.frame THEN {}
             ELSE IF target = old.frame THEN at(old)
             ELSE IF now.frame - old.frame > MaxInterpolationGap THEN {}
             ELSE {[orientation |-> Slerp(old.orientation, now.orientation,
                                          target - old.frame, now.frame - old.frame),
                    from |-> {old.frame, now.frame}]}

Angle(a, b) == Min({(a - b) % Circle, (b - a) % Circle})

WorldToHead(orientation, world) == (world - orientation) % Circle

\* The nearest measurement; the first of equally near ones.
Nearest(head) ==
  Min({m \in DOMAIN Measured : \A n \in DOMAIN Measured :
         Angle(head, Measured[m]) <= Angle(head, Measured[n])})

Covered(head) == Angle(head, Measured[Nearest(head)]) <= Coverage

\* DirectionalHrtf::prepare_objects
PrepareObjects(pose, directions) ==
  [o \in DOMAIN directions |-> Nearest(WorldToHead(pose.orientation, directions[o]))]

-----------------------------------------------------------------------------
(* The scheduler and the renderer                                          *)

\* prepare_at: one candidate at a time, for a boundary later than the last one, with
\* the configured objects in their order.
PrepareAt(target, ids, directions) ==
  /\ scheduler.pending = NoCandidate
  /\ target > scheduler.last
  /\ ids = Objects
  /\ scheduler.generation < MaxGeneration
  /\ \E pose \in Resolve(target) :
       /\ \A o \in DOMAIN directions : Covered(WorldToHead(pose.orientation, directions[o]))
       /\ scheduler' = [scheduler EXCEPT
            !.generation = @ + 1,
            !.pending = [generation |-> scheduler.generation + 1, target |-> target,
                         committed |-> FALSE, resolved |-> pose.from,
                         filters |-> PrepareObjects(pose, directions)]]
  /\ UNCHANGED <<mapper, poses, renderer, frame>>

\* PreparedBinaural::commit
RendererAccepts(candidate) ==
  candidate.generation > renderer.generation /\ renderer.left = 0

\* Mutant: a boundary that was missed is made up for at the next one.
DueBoundary(candidate) == candidate.target <= frame

ExactBoundary(candidate) == candidate.target = frame

\* commit_at_boundary: the renderer copies the candidate, the scheduler keeps it.
CommitAtBoundary(transition) ==
  /\ scheduler.pending # NoCandidate
  /\ ~scheduler.pending.committed
  /\ ExactBoundary(scheduler.pending)
  /\ RendererAccepts(scheduler.pending)
  /\ renderer' = [renderer EXCEPT !.generation = scheduler.pending.generation,
                                  !.next = scheduler.pending.filters, !.left = transition,
                                  !.target = frame, !.resolved = scheduler.pending.resolved]
  /\ scheduler' = [scheduler EXCEPT !.pending.committed = TRUE, !.last = frame]
  /\ UNCHANGED <<mapper, poses, frame>>

ReleaseCommitted ==
  /\ scheduler.pending # NoCandidate
  /\ scheduler.pending.committed
  /\ scheduler' = [scheduler EXCEPT !.pending = NoCandidate]
  /\ UNCHANGED <<mapper, poses, renderer, frame>>

CancelPending ==
  /\ scheduler.pending # NoCandidate
  /\ ~scheduler.pending.committed
  /\ scheduler' = [scheduler EXCEPT !.pending = NoCandidate]
  /\ UNCHANGED <<mapper, poses, renderer, frame>>

Settled(r) == [r EXCEPT !.active = r.next, !.left = 0]

\* process: one frame is heard, and the last frame of a crossfade swaps the banks.
Process ==
  /\ frame < MaxFrame
  /\ frame' = frame + 1
  /\ renderer' = IF renderer.left = 1 THEN Settled(renderer)
                 ELSE [renderer EXCEPT !.left = IF @ > 0 THEN @ - 1 ELSE 0]
  /\ UNCHANGED <<mapper, poses, scheduler>>

\* discontinuity: an accepted transition is completed at once.
Discontinuity ==
  /\ renderer.left > 0
  /\ renderer' = Settled(renderer)
  /\ UNCHANGED <<mapper, poses, scheduler, frame>>

Next ==
  \/ \E s \in Samples : DeliverPose(s)
  \/ \E t \in Anchors : ResetClock(t)
  \/ \E target \in 0 .. MaxFrame, ids \in {Objects, Reverse(Objects)},
        d \in Directions : PrepareAt(target, ids, d)
  \/ \E n \in Transitions : CommitAtBoundary(n)
  \/ ReleaseCommitted \/ CancelPending \/ Process \/ Discontinuity

Spec == Init /\ [][Next]_hpVars

-----------------------------------------------------------------------------
(* Properties                                                              *)

\* BoundaryPoseFresh: the pose behind the filters the renderer last took belongs to the
\* media frame at which they were taken: the tracker samples it was resolved from lie on
\* both sides of that frame and close together, or before it and within the hold budget,
\* however late samples arrived, the tracker's clock was reset, or a boundary was missed.
\* (HeadPoseState::resolve, prepare_at and commit_at_boundary)
BoundaryPoseFresh ==
  \A f \in renderer.resolved :
    \/ f = renderer.target
    \/ f < renderer.target /\ renderer.target - f <= MaxStale
    \/ \E g \in renderer.resolved :
         /\ renderer.target \in Min({f, g}) .. Max({f, g})
         /\ Max({f, g}) - Min({f, g}) <= MaxInterpolationGap
=============================================================================
