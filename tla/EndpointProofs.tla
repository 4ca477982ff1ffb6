--------------------------- MODULE EndpointProofs ---------------------------
(***************************************************************************)
(* Proofs about the detachable endpoint, for every capability set, policy, *)
(* plan, telemetry and number of handovers: it is type correct and fails   *)
(* closed.                                                                 *)
(***************************************************************************)
EXTENDS Endpoint, TLAPS

\* The parts of the type invariant about the world, the plans and the clock.
DeviceOK ==
  /\ attachment \in Docks \cup {"detached"} /\ online \in BOOLEAN
  /\ power \in PowerStatus /\ sync \in SyncStatus

Plan == [route : Routes \cup {"muted"}, clock : Clocks, roles : Nat, start : Nat]

EnvOK == issued \in Seq(Plan) /\ frame \in Nat

\* The amplifier is open exactly while a route plays.
OpenIffPlaying == muted = (phase # "playing")

\* The inductive invariant: every phase's obligations, together with the
\* facts about the world that admission established and telemetry maintains.
IInv == /\ TypeOK /\ RouteOfPhase /\ OpenIffPlaying
        /\ InSyncOnceArmed /\ RouteFitsWorld

\* Start-up satisfies the invariant.
LEMMA InitIInv == Init => IInv
<1> SUFFICES ASSUME Init PROVE IInv
  OBVIOUS
<1>1. TypeOK
  BY EndpointAssumption DEF Init, TypeOK, PowerStatus, SyncStatus, Phases, NoRoute,
     RouteRecord, Routes, Clocks
<1>2. RouteOfPhase /\ OpenIffPlaying /\ InSyncOnceArmed
  BY DEF Init, RouteOfPhase, OpenIffPlaying, InSyncOnceArmed
<1>3. RouteFitsWorld
  BY DEF Init, RouteFitsWorld, NoRoute
<1> QED BY <1>1, <1>2, <1>3 DEF IInv

\* The route fields after a step that leaves no route: nothing to keep in
\* sync, nothing to fit.
LEMMA SilentStep ==
  ASSUME IInv, DeviceOK', EnvOK', epoch' \in Nat, fault' \in Faults \cup {NoFault},
         pending' = NoRoute, active' = NoRoute, phase' \in {"muted", "fault"}, muted' = TRUE,
         (fault' # NoFault) <=> (phase' = "fault")
  PROVE  IInv'
<1>1. TypeOK'
  BY DEF TypeOK, DeviceOK, EnvOK, Plan, Phases, NoRoute, RouteRecord, Routes, Clocks
<1>2. RouteOfPhase' /\ OpenIffPlaying' /\ InSyncOnceArmed'
  BY DEF RouteOfPhase, OpenIffPlaying, InSyncOnceArmed
<1>3. RouteFitsWorld'
  BY DEF RouteFitsWorld, NoRoute
<1> QED BY <1>1, <1>2, <1>3 DEF IInv

\* fail_closed establishes the invariant whatever the telemetry was.
LEMMA FailClosedStep ==
  ASSUME IInv, NEW reason \in Faults, FailClosed(reason), DeviceOK', EnvOK'
  PROVE  IInv'
BY SilentStep DEF FailClosed, IInv, TypeOK, Faults, NoFault

\* A step that leaves the control state alone keeps the invariant as long as
\* the telemetry it changed still supports the phase and the routes.
LEMMA UntouchedStep ==
  ASSUME IInv, Untouched, DeviceOK', EnvOK', InSyncOnceArmed', RouteFitsWorld'
  PROVE  IInv'
<1>1. TypeOK'
  BY DEF IInv, TypeOK, Untouched, DeviceOK, EnvOK, Plan
<1>2. RouteOfPhase' /\ OpenIffPlaying'
  BY DEF IInv, Untouched, RouteOfPhase, OpenIffPlaying
<1> QED BY <1>1, <1>2 DEF IInv

\* What the invariant says about the parts that telemetry does not touch.
LEMMA Parts == ASSUME IInv PROVE DeviceOK /\ EnvOK
BY DEF IInv, TypeOK, DeviceOK, EnvOK, Plan

-----------------------------------------------------------------------------
\* Mute and Stop silence the endpoint.
LEMMA MuteStep == ASSUME IInv, NEW e \in 1 .. MaxEpoch, Mute(e) \/ Stop(e) PROVE IInv'
<1>1. DeviceOK' /\ EnvOK'
  BY Parts DEF Mute, Stop, Silence, device, env, DeviceOK, EnvOK
<1>2. epoch' \in Nat
  BY EndpointAssumption DEF Mute, Stop, IInv, TypeOK
<1>3. (fault' # NoFault) <=> (phase' = "fault")
  BY DEF Mute, Stop, Silence, Command, IInv, TypeOK
<1> QED BY <1>1, <1>2, <1>3, SilentStep DEF Mute, Stop, Silence, IInv, TypeOK

\* Prepare admits only a route the attachment and the power support.
LEMMA PrepareStep == ASSUME IInv, NEW e \in 1 .. MaxEpoch, Prepare(e) PROVE IInv'
<1>1. issued[e] \in Plan /\ e \in Nat /\ e # 0
  BY Parts DEF Prepare, Command, EnvOK
<1>2. /\ pending' = [epoch |-> e, route |-> issued[e].route,
                     clock |-> issued[e].clock, start |-> 0]
      /\ phase' = "prepared" /\ RouteAdmitted(issued[e]) /\ epoch = e /\ phase = "muted"
      /\ UNCHANGED <<epoch, active, muted, fault, attachment, power, sync, online, issued, frame>>
  BY DEF Prepare, device, env
<1>3. TypeOK'
  BY <1>1, <1>2 DEF IInv, TypeOK, Plan, RouteRecord, Phases
<1>4. pending' # NoRoute /\ pending'.epoch = e
  BY <1>1, <1>2 DEF NoRoute
<1>5. RouteOfPhase' /\ OpenIffPlaying' /\ InSyncOnceArmed'
  BY <1>2, <1>4 DEF IInv, RouteOfPhase, OpenIffPlaying, InSyncOnceArmed
<1>6. RouteFitsWorld'
  BY <1>1, <1>2 DEF IInv, RouteFitsWorld, RouteAdmitted, PowerSufficient
<1> QED BY <1>3, <1>5, <1>6 DEF IInv

\* Arm requires synchronization for the staged route.
LEMMA ArmStep == ASSUME IInv, NEW e \in 1 .. MaxEpoch, Arm(e) PROVE IInv'
<1>1. issued[e] \in Plan
  BY Parts DEF Arm, Command, EnvOK
<1>2. /\ pending' = [pending EXCEPT !.start = issued[e].start]
      /\ phase' = "armed" /\ phase = "prepared" /\ issued[e].start # 0
      /\ SyncSufficient(sync, online, Current)
      /\ UNCHANGED <<epoch, active, muted, fault, attachment, power, sync, online, issued, frame>>
  BY DEF Arm, device, env
<1>3. pending \in RouteRecord /\ pending # NoRoute /\ active = NoRoute /\ pending.epoch = epoch
  BY <1>2 DEF IInv, TypeOK, RouteOfPhase
<1>4. /\ pending' \in RouteRecord /\ pending'.epoch = pending.epoch
      /\ pending'.route = pending.route /\ pending'.clock = pending.clock
      /\ pending'.start = issued[e].start
  BY <1>1, <1>2, <1>3 DEF RouteRecord, Plan
<1>5. pending' # NoRoute
  BY <1>2, <1>4 DEF NoRoute
<1>6. TypeOK'
  BY <1>2, <1>4 DEF IInv, TypeOK, Phases
<1>7. RouteOfPhase' /\ OpenIffPlaying'
  BY <1>2, <1>3, <1>4, <1>5 DEF IInv, RouteOfPhase, OpenIffPlaying
<1>8. InSyncOnceArmed'
  BY <1>2, <1>3, <1>4, <1>5 DEF InSyncOnceArmed, SyncSufficient, Current
<1>9. RouteFitsWorld'
  BY <1>2, <1>4 DEF IInv, RouteFitsWorld, PowerSufficient
<1> QED BY <1>6, <1>7, <1>8, <1>9 DEF IInv

\* Commit needs the synchronization Arm needed.
LEMMA CommitStep == ASSUME IInv, NEW e \in 1 .. MaxEpoch, Commit(e) PROVE IInv'
<1>1. /\ phase' = "committed" /\ phase = "armed" /\ muted' = TRUE
      /\ UNCHANGED <<epoch, pending, active, fault, attachment, power, sync, online, issued, frame>>
  BY DEF Commit, device, env
<1>2. TypeOK'
  BY <1>1 DEF IInv, TypeOK, Phases
<1>3. RouteOfPhase' /\ OpenIffPlaying'
  BY <1>1 DEF IInv, RouteOfPhase, OpenIffPlaying
<1>4. InSyncOnceArmed'
  BY <1>1 DEF IInv, InSyncOnceArmed, SyncSufficient, Current
<1>5. RouteFitsWorld'
  BY <1>1 DEF IInv, RouteFitsWorld, PowerSufficient
<1> QED BY <1>2, <1>3, <1>4, <1>5 DEF IInv

-----------------------------------------------------------------------------
\* Power telemetry either still supports a detached route or fails it.
LEMMA PowerStep == ASSUME IInv, UpdatePower PROVE IInv'
<1>1. /\ power' \in PowerReports
      /\ UNCHANGED <<attachment, sync, online, issued, frame>>
  BY DEF UpdatePower, env
<1>2. DeviceOK' /\ EnvOK'
  BY <1>1, Parts, EndpointAssumption DEF DeviceOK, EnvOK
<1>3. CASE RequiresBattery(power') /\ ~PowerSufficient(power')
  <2>1. FailClosed("power")
    BY <1>3 DEF UpdatePower
  <2> QED BY <1>2, <2>1, FailClosedStep DEF Faults
<1>4. CASE ~(RequiresBattery(power') /\ ~PowerSufficient(power'))
  <2>1. Untouched
    BY <1>4 DEF UpdatePower
  <2>2. InSyncOnceArmed'
    BY <1>1, <2>1 DEF IInv, InSyncOnceArmed, SyncSufficient, Current, Untouched
  <2>3. RouteFitsWorld'
    <3>1. SUFFICES ASSUME NEW r \in {pending, active}, r.route = "wireless"
                   PROVE  attachment = "detached" /\ PowerSufficient(power')
      BY <1>1, <2>1 DEF IInv, RouteFitsWorld, Untouched, PowerSufficient
    <3>2. attachment = "detached"
      BY <3>1 DEF IInv, RouteFitsWorld
    <3> QED BY <1>4, <3>1, <3>2 DEF RequiresBattery, PowerSufficient
  <2> QED BY <1>2, <2>1, <2>2, <2>3, UntouchedStep
<1> QED BY <1>3, <1>4

\* A new attachment is only accepted while no route is staged or active.
LEMMA AttachmentStep == ASSUME IInv, UpdateAttachment PROVE IInv'
<1>1. /\ attachment' \in Docks \cup {"detached"}
      /\ UNCHANGED <<power, sync, online, issued, frame>>
  BY DEF UpdateAttachment, env
<1>2. DeviceOK' /\ EnvOK'
  BY <1>1, Parts DEF DeviceOK, EnvOK
<1>3. CASE phase \in {"bootMuted", "muted"}
  <2>1. Untouched
    BY <1>3 DEF UpdateAttachment
  <2>2. pending' = NoRoute /\ active' = NoRoute
    BY <1>3, <2>1 DEF IInv, RouteOfPhase, Untouched
  <2>3. InSyncOnceArmed' /\ RouteFitsWorld'
    BY <1>3, <2>1, <2>2 DEF InSyncOnceArmed, RouteFitsWorld, Untouched, NoRoute
  <2> QED BY <1>2, <2>1, <2>3, UntouchedStep
<1>4. CASE phase \notin {"bootMuted", "muted"}
  <2>1. FailClosed("attachment")
    BY <1>4 DEF UpdateAttachment
  <2> QED BY <1>2, <2>1, FailClosedStep DEF Faults
<1> QED BY <1>3, <1>4

\* Synchronization telemetry either still supports the route or fails it.
LEMMA SyncStep == ASSUME IInv, UpdateSync PROVE IInv'
<1> DEFINE bad == /\ phase \in {"armed", "committed", "playing"}
                  /\ ~SyncSufficient(sync', online, Current)
<1>1. /\ sync' \in SyncReports
      /\ UNCHANGED <<attachment, power, online, issued, frame>>
  BY DEF UpdateSync, env
<1>2. DeviceOK' /\ EnvOK'
  BY <1>1, Parts, EndpointAssumption DEF DeviceOK, EnvOK
<1>3. CASE bad
  <2>1. FailClosed("skew") \/ FailClosed("syncLost")
    BY <1>3 DEF UpdateSync
  <2> QED BY <1>2, <2>1, FailClosedStep DEF Faults
<1>4. CASE ~bad
  <2>1. Untouched
    BY <1>4 DEF UpdateSync
  <2>2. InSyncOnceArmed'
    BY <1>1, <1>4, <2>1 DEF InSyncOnceArmed, Current, Untouched, SyncSufficient
  <2>3. RouteFitsWorld'
    BY <1>1, <2>1 DEF IInv, RouteFitsWorld, Untouched, PowerSufficient
  <2> QED BY <1>2, <2>1, <2>2, <2>3, UntouchedStep
<1> QED BY <1>3, <1>4

\* Losing the transport fails closed; its return changes nothing.
LEMMA OnlineStep == ASSUME IInv, SetOnline PROVE IInv'
<1>1. online' \in BOOLEAN /\ UNCHANGED <<attachment, power, sync, issued, frame>>
  BY DEF SetOnline, env
<1>2. DeviceOK' /\ EnvOK'
  BY <1>1, Parts DEF DeviceOK, EnvOK
<1>3. CASE ~online'
  <2>1. FailClosed("transport")
    BY <1>3 DEF SetOnline
  <2> QED BY <1>2, <2>1, FailClosedStep DEF Faults
<1>4. CASE online'
  <2>1. Untouched
    BY <1>4 DEF SetOnline
  <2>2. InSyncOnceArmed'
    BY <1>1, <1>4, <2>1 DEF IInv, InSyncOnceArmed, Current, Untouched, SyncSufficient
  <2>3. RouteFitsWorld'
    BY <1>1, <2>1 DEF IInv, RouteFitsWorld, Untouched, PowerSufficient
  <2> QED BY <1>2, <2>1, <2>2, <2>3, UntouchedStep
<1> QED BY <1>3, <1>4

\* An underflow fails closed and a recovery ends muted.
LEMMA UnderflowRecoverStep == ASSUME IInv, ReportStreamUnderflow \/ RecoverToMuted PROVE IInv'
<1>1. DeviceOK' /\ EnvOK'
  BY Parts DEF ReportStreamUnderflow, RecoverToMuted, device, env, DeviceOK, EnvOK
<1>2. CASE ReportStreamUnderflow
  BY <1>1, <1>2, FailClosedStep DEF ReportStreamUnderflow, Faults
<1>3. CASE RecoverToMuted
  BY <1>1, <1>3, SilentStep DEF RecoverToMuted
<1> QED BY <1>2, <1>3

-----------------------------------------------------------------------------
\* The media clock opens the amplifier only for a synchronized route.
LEMMA MediaStep == ASSUME IInv, MediaFrame PROVE IInv'
<1>1. frame' \in Nat /\ UNCHANGED <<attachment, power, sync, online, issued>>
  BY EndpointAssumption DEF MediaFrame, device, IInv, TypeOK
<1>2. DeviceOK' /\ EnvOK'
  BY <1>1, Parts DEF DeviceOK, EnvOK
<1>3. CASE Untouched
  <2>1. InSyncOnceArmed' /\ RouteFitsWorld'
    BY <1>1, <1>3 DEF IInv, InSyncOnceArmed, Current, Untouched, SyncSufficient,
       RouteFitsWorld, PowerSufficient
  <2> QED BY <1>2, <1>3, <2>1, UntouchedStep
<1>4. CASE FailClosed("missedStart")
  BY <1>2, <1>4, FailClosedStep DEF Faults
<1>5. CASE phase = "committed" /\ Start
  <2>1. /\ pending' = NoRoute /\ active' = pending /\ phase' = "playing" /\ muted' = FALSE
        /\ UNCHANGED <<epoch, fault>>
    BY <1>5 DEF Start
  <2>2. pending # NoRoute /\ pending.epoch = epoch /\ SyncSufficient(sync, online, pending)
    BY <1>5 DEF IInv, RouteOfPhase, InSyncOnceArmed, Current
  <2>3. TypeOK'
    BY <1>2, <1>5, <2>1 DEF IInv, TypeOK, DeviceOK, EnvOK, Plan, Phases, NoRoute, RouteRecord, Routes, Clocks
  <2>4. RouteOfPhase' /\ OpenIffPlaying'
    BY <2>1, <2>2 DEF RouteOfPhase, OpenIffPlaying
  <2>5. InSyncOnceArmed'
    BY <1>1, <2>1, <2>2 DEF InSyncOnceArmed, Current, SyncSufficient
  <2>6. RouteFitsWorld'
    BY <1>1, <2>1 DEF IInv, RouteFitsWorld, PowerSufficient, NoRoute
  <2> QED BY <2>3, <2>4, <2>5, <2>6 DEF IInv
<1> QED BY <1>3, <1>4, <1>5 DEF MediaFrame, OnMediaFrame

\* Issuing a handover does not touch the endpoint.
LEMMA IssueStep == ASSUME IInv, Issue PROVE IInv'
<1>1. UNCHANGED <<attachment, power, sync, online, frame>> /\ Untouched
  BY DEF Issue, device, Untouched
<1>2. issued' \in Seq(Plan)
  <2>1. PICK a \in Assignments, s \in 0 .. MaxFrame - 1 :
          issued' = Append(issued, [route |-> a.route, clock |-> a.clock,
                                    roles |-> a.roles, start |-> s])
    BY DEF Issue
  <2>2. [route |-> a.route, clock |-> a.clock, roles |-> a.roles, start |-> s] \in Plan
    BY EndpointAssumption DEF Plan
  <2> QED BY <2>1, <2>2, Parts DEF EnvOK
<1>3. DeviceOK' /\ EnvOK'
  BY <1>1, <1>2, Parts DEF DeviceOK, EnvOK
<1>4. InSyncOnceArmed' /\ RouteFitsWorld'
  BY <1>1 DEF IInv, InSyncOnceArmed, Current, Untouched, SyncSufficient,
     RouteFitsWorld, PowerSufficient
<1> QED BY <1>1, <1>3, <1>4, UntouchedStep

\* Stuttering keeps the invariant.
LEMMA StutterStep == ASSUME IInv, UNCHANGED vars PROVE IInv'
<1>1. Untouched /\ UNCHANGED <<attachment, power, sync, online, issued, frame>>
  BY DEF vars, Untouched
<1>2. DeviceOK' /\ EnvOK'
  BY <1>1, Parts DEF DeviceOK, EnvOK
<1>3. InSyncOnceArmed' /\ RouteFitsWorld'
  BY <1>1 DEF IInv, InSyncOnceArmed, Current, Untouched, SyncSufficient,
     RouteFitsWorld, PowerSufficient
<1> QED BY <1>1, <1>2, <1>3, UntouchedStep

\* Every step of the endpoint, the controller or the clock keeps the invariant.
LEMMA NextIInv == IInv /\ [Next]_vars => IInv'
BY MuteStep, PrepareStep, ArmStep, CommitStep, PowerStep, AttachmentStep, SyncStep,
   OnlineStep, UnderflowRecoverStep, MediaStep, IssueStep, StutterStep
   DEF Next, Apply, Telemetry

\* The invariant holds in every reachable state.
LEMMA Inductive == Spec => []IInv
BY InitIInv, NextIInv, PTL DEF Spec

\* Type correctness of the endpoint for every policy, plan and telemetry.
THEOREM EndpointTyped == Spec => []TypeOK
<1>1. IInv => TypeOK
  BY DEF IInv
<1> QED BY <1>1, Inductive, PTL

\* AudibleOnlyInSync: the amplifier is open only while a route plays that the
\* latest telemetry shows synchronized, whatever the order of commands,
\* telemetry, faults, recoveries and media frames.
THEOREM EndpointFailsClosed == Spec => []AudibleOnlyInSync
<1>1. IInv => AudibleOnlyInSync
  BY DEF IInv, OpenIffPlaying, InSyncOnceArmed, RouteOfPhase, AudibleOnlyInSync, Current
<1> QED BY <1>1, Inductive, PTL

\* RouteFitsWorld: no dock route survives undocking, no wireless route docking
\* or the loss of its power.
THEOREM EndpointRouteFitsWorld == Spec => []RouteFitsWorld
<1>1. IInv => RouteFitsWorld
  BY DEF IInv
<1> QED BY <1>1, Inductive, PTL

\* EndpointSafe: in every reachable state of the endpoint the pending and the
\* active route fit the phase, the latest telemetry and the attachment, and the
\* amplifier is open for a playing route in sync only.
THEOREM EndpointSafety == Spec => []EndpointSafe
<1>1. IInv /\ AudibleOnlyInSync => EndpointSafe
  BY DEF IInv, EndpointSafe
<1> QED BY <1>1, Inductive, EndpointFailsClosed, PTL

-----------------------------------------------------------------------------
\* An armed route carries the start frame its handover was issued with.
ArmedAsIssued ==
  phase \in {"armed", "committed"} =>
    /\ pending.epoch \in 1 .. Len(issued)
    /\ pending.start = issued[pending.epoch].start

\* What a step does to an armed route: Arm makes one, the others keep it or
\* drop it, and a further handover leaves the issued ones alone.
LEMMA ArmedStep == ASSUME IInv, ArmedAsIssued, [Next]_vars PROVE ArmedAsIssued'
<1>0. issued \in Seq(Plan) /\ pending \in RouteRecord
  BY DEF IInv, TypeOK, Plan
<1>1. ASSUME NEW e \in 1 .. MaxEpoch, Arm(e) PROVE ArmedAsIssued'
  <2>1. /\ e \in 1 .. Len(issued) /\ epoch = e /\ phase = "prepared" /\ UNCHANGED issued
        /\ pending' = [pending EXCEPT !.start = issued[e].start]
    BY <1>1 DEF Arm, Command, env
  <2>2. pending.epoch = e
    BY <2>1 DEF IInv, RouteOfPhase
  <2>3. pending'.epoch = e /\ pending'.start = issued[e].start
    BY <1>0, <2>1, <2>2 DEF RouteRecord
  <2> QED BY <2>1, <2>3 DEF ArmedAsIssued
<1>2. ASSUME NEW e \in 1 .. MaxEpoch, Commit(e) PROVE ArmedAsIssued'
  BY <1>2 DEF Commit, ArmedAsIssued, env
<1>3. ASSUME NEW e \in 1 .. MaxEpoch, Mute(e) \/ Stop(e) \/ Prepare(e) PROVE ArmedAsIssued'
  BY <1>3 DEF Mute, Stop, Silence, Prepare, ArmedAsIssued
<1>4. CASE Telemetry
  <2>1. \/ UNCHANGED <<phase, pending, issued>>
        \/ phase' \in {"fault", "muted"}
    BY <1>4 DEF Telemetry, UpdatePower, UpdateAttachment, UpdateSync, SetOnline,
                ReportStreamUnderflow, RecoverToMuted, FailClosed, Untouched, env
  <2> QED BY <2>1 DEF ArmedAsIssued
<1>5. CASE MediaFrame
  <2>1. \/ UNCHANGED <<phase, pending, issued>>
        \/ phase' \in {"fault", "playing"}
    BY <1>5 DEF MediaFrame, OnMediaFrame, FailClosed, Start, Untouched
  <2> QED BY <2>1 DEF ArmedAsIssued
<1>6. CASE Issue
  <2>1. PICK p \in Plan : issued' = Append(issued, p) /\ UNCHANGED <<phase, pending>>
    BY <1>6, EndpointAssumption DEF Issue, Plan
  <2>2. Len(issued') = Len(issued) + 1 /\ \A i \in 1 .. Len(issued) : issued'[i] = issued[i]
    BY <1>0, <2>1
  <2> QED BY <1>0, <2>1, <2>2 DEF ArmedAsIssued
<1>7. CASE UNCHANGED vars
  BY <1>7 DEF vars, ArmedAsIssued
<1> QED BY <1>1, <1>2, <1>3, <1>4, <1>5, <1>6, <1>7 DEF Next, Apply

\* OpensAtStartFrame for every value of the constants: on_media_frame is the
\* only step that opens the amplifier, and it does so on the very frame the
\* handover of the starting route was issued with.
THEOREM EndpointOpensOnTime == Spec => OpensAtStartFrame
<1> DEFINE OnTime == muted /\ ~muted' => /\ frame' = active'.start
                                        /\ issued[active'.epoch].start = frame'
<1>1. Init => ArmedAsIssued
  BY DEF Init, ArmedAsIssued
<1>2. IInv /\ ArmedAsIssued /\ [Next]_vars => ArmedAsIssued'
  BY ArmedStep
<1>3. ASSUME IInv, ArmedAsIssued, [Next]_vars PROVE [OnTime]_vars
  <2> SUFFICES ASSUME Next, muted, ~muted' PROVE OnTime
    BY <1>3
  <2>1. MediaFrame
    BY DEF Next, Apply, Mute, Stop, Silence, Prepare, Arm, Commit, Telemetry, UpdatePower,
           UpdateAttachment, UpdateSync, SetOnline, ReportStreamUnderflow, RecoverToMuted,
           FailClosed, Untouched, Issue
  <2>2. /\ phase = "committed" /\ active' = pending
        /\ ~(frame' < pending.start) /\ ~(frame' > pending.start)
    BY <2>1 DEF MediaFrame, OnMediaFrame, FailClosed, Start, Untouched
  <2>3. frame' \in Nat /\ pending.start \in Nat
    BY <1>3, <2>1, EndpointAssumption DEF IInv, TypeOK, RouteRecord, MediaFrame
  <2>4. frame' = pending.start
    BY <2>2, <2>3
  <2>5. pending.start = issued[pending.epoch].start
    BY <1>3, <2>2 DEF ArmedAsIssued
  <2> QED BY <2>2, <2>4, <2>5
<1> QED BY <1>1, <1>2, <1>3, Inductive, PTL DEF Spec, OpensAtStartFrame

\* NoReplay for every number of handovers: outside a recovery apply never
\* takes the endpoint back to an older epoch.
THEOREM EndpointNoReplay == Spec => NoReplay
<1> DEFINE Forward == phase # "fault" => epoch' >= epoch
<1>1. ASSUME IInv, [Next]_vars PROVE [Forward]_vars
  <2> SUFFICES ASSUME Next, phase # "fault" PROVE epoch' >= epoch
    BY <1>1
  <2>1. epoch \in Nat
    BY <1>1 DEF IInv, TypeOK
  <2>2. CASE \E e \in 1 .. MaxEpoch : Mute(e)
    BY <2>1, <2>2, EndpointAssumption DEF Mute, MuteIsNew
  <2>3. CASE ~\E e \in 1 .. MaxEpoch : Mute(e)
    <3>1. epoch' = epoch
      BY <2>3 DEF Next, Apply, Stop, Prepare, Arm, Commit, Telemetry, UpdatePower,
           UpdateAttachment, UpdateSync, SetOnline, ReportStreamUnderflow, RecoverToMuted,
           FailClosed, Untouched, MediaFrame, OnMediaFrame, Start, Issue
    <3> QED BY <2>1, <3>1
  <2> QED BY <2>2, <2>3
<1> QED BY <1>1, Inductive, PTL DEF Spec, NoReplay

\* StepsSafe: in every behaviour of the endpoint the amplifier opens at the frame its
\* handover was issued with, and epochs only grow between two recoveries.
THEOREM EndpointSteps == Spec => StepsSafe
  BY EndpointOpensOnTime, EndpointNoReplay, PTL DEF StepsSafe
=============================================================================
