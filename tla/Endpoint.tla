------------------------------ MODULE Endpoint ------------------------------
(***************************************************************************)
(* DetachableEndpoint of the modular speaker fabric (endpoint.rs): the     *)
(* fail-closed control state of one detachable speaker module, driven by   *)
(* the handovers the controller has issued, by telemetry and by the media  *)
(* clock.                                                                  *)
(*                                                                         *)
(* The control channel is unreliable: once a handover is issued each of    *)
(* its commands may arrive late, twice, out of order or never.  A rejected *)
(* command (an Err of apply) changes nothing and is a stuttering step.     *)
(***************************************************************************)
EXTENDS Naturals, Sequences

CONSTANTS Capabilities,  \* [dock, wired, wireless, battery : BOOLEAN, lanes : Nat]
          MaxSkew,       \* policy.maximum_skew_micros
          MinBattery,    \* policy.minimum_battery_percent
          Assignments,   \* routes a controller may plan: [route, clock, roles]
          SyncReports,   \* synchronization telemetry that may arrive
          PowerReports,  \* power telemetry that may arrive
          Absent,        \* a skew or battery reading that is missing (None)
          Docks,         \* dock positions
          MaxEpoch,      \* bound: number of handovers issued
          MaxFrame       \* bound: the frame that stands for all later ones

Routes == {"dock", "wired", "wireless"}
Clocks == {"dockRecovered", "ptp", "adaptivePeer", "unlocked"}

SyncStatus  == [locked : BOOLEAN, scheduled : BOOLEAN,
                skew : Nat \cup {Absent}, clock : Clocks]
PowerStatus == [external : BOOLEAN, battery : (0..100) \cup {Absent}]

ASSUME EndpointAssumption ==
  /\ Capabilities \in [dock : BOOLEAN, wired : BOOLEAN, wireless : BOOLEAN,
                       battery : BOOLEAN, lanes : Nat]
  /\ MaxSkew \in Nat /\ MinBattery \in Nat
  /\ Assignments \subseteq [route : Routes \cup {"muted"}, clock : Clocks, roles : Nat]
  /\ SyncReports \subseteq SyncStatus /\ PowerReports \subseteq PowerStatus
  /\ "detached" \notin Docks /\ Absent \notin Nat
  /\ MaxEpoch \in Nat /\ MaxFrame \in Nat

VARIABLES
  attachment, power, sync, online,   \* the endpoint's view of the world
  phase,                             \* EndpointPhase
  epoch,                             \* current_epoch; 0 is None
  pending, active,                   \* the staged and the audible route
  muted,                             \* amplifier_muted
  fault,                             \* last_fault
  issued,                            \* the controller: handover e is issued[e]
  frame                              \* the absolute media timeline

device == <<attachment, power, sync, online>>
env    == <<issued, frame>>
vars   == <<attachment, power, sync, online, phase, epoch, pending, active,
            muted, fault, issued, frame>>

Phases == {"bootMuted", "muted", "prepared", "armed", "committed", "playing", "fault"}
NoFault == "none"
Faults == {"syncLost", "skew", "power", "underflow", "transport", "attachment", "missedStart"}

\* EndpointRoute; start 0 stands for None (a start frame of 0 is refused).
NoRoute == [epoch |-> 0, route |-> "muted", clock |-> "unlocked", start |-> 0]
RouteRecord == [epoch : Nat, route : Routes \cup {"muted"}, clock : Clocks, start : Nat]

Init ==
  /\ attachment = "detached"
  /\ power = [external |-> FALSE, battery |-> Absent]
  /\ sync = [locked |-> FALSE, scheduled |-> FALSE, skew |-> Absent, clock |-> "unlocked"]
  /\ online = TRUE
  /\ phase = "bootMuted" /\ epoch = 0
  /\ pending = NoRoute /\ active = NoRoute
  /\ muted = TRUE /\ fault = NoFault
  /\ issued = <<>> /\ frame = 0

-----------------------------------------------------------------------------
(* Admission checks.                                                       *)

\* pending.or(active): the route the synchronization evidence is judged for
Current == IF pending # NoRoute THEN pending ELSE active

\* sync_is_sufficient, for status s, reachability up and route r
SyncSufficient(s, up, r) ==
  /\ r # NoRoute
  /\ up /\ s.locked /\ s.scheduled
  /\ s.clock = r.clock
  /\ s.skew # Absent /\ s.skew <= MaxSkew

\* detached_power_is_sufficient
PowerSufficient(p) ==
  \/ p.external
  \/ Capabilities.battery /\ p.battery # Absent /\ p.battery >= MinBattery

\* requires_battery, with power status p
RequiresBattery(p) ==
  /\ attachment = "detached" /\ ~p.external
  /\ {pending.route, active.route} \cap {"wired", "wireless"} # {}

\* validate_route
RouteAdmitted(a) ==
  /\ a.roles \in 1 .. Capabilities.lanes
  /\ \/ /\ a.route = "dock" /\ Capabilities.dock
        /\ attachment \in Docks /\ a.clock = "dockRecovered"
     \/ /\ a.route = "wired" /\ Capabilities.wired /\ a.clock = "ptp"
     \/ /\ a.route = "wireless" /\ Capabilities.wireless
        /\ attachment = "detached" /\ a.clock \in {"ptp", "adaptivePeer"}
        /\ PowerSufficient(power)

\* Mutant: a fault records itself and leaves the amplifier as it is.
FailOpen(reason) ==
  /\ pending' = NoRoute /\ active' = NoRoute
  /\ phase' = "fault" /\ fault' = reason
  /\ UNCHANGED <<epoch, muted>>

\* fail_closed
FailClosed(reason) ==
  /\ pending' = NoRoute /\ active' = NoRoute
  /\ phase' = "fault" /\ muted' = TRUE
  /\ fault' = reason
  /\ UNCHANGED epoch

Untouched == UNCHANGED <<phase, epoch, pending, active, muted, fault>>

-----------------------------------------------------------------------------
(* Commands: apply, for a command of an issued handover e.                 *)

Command(e) == e \in 1 .. Len(issued) /\ phase # "fault"

\* Mutant: a Mute of any other epoch is accepted.
MuteAnother(e) == e # epoch
MuteIsNew(e) == e > epoch

\* Mutant: only the staged route is dropped.
SilenceKeepsActive ==
  /\ pending' = NoRoute
  /\ phase' = "muted" /\ muted' = TRUE
  /\ UNCHANGED <<active, fault, device, env>>

Silence ==
  /\ pending' = NoRoute /\ active' = NoRoute
  /\ phase' = "muted" /\ muted' = TRUE
  /\ UNCHANGED <<fault, device, env>>

Mute(e) == /\ Command(e) /\ MuteIsNew(e)
           /\ epoch' = e
           /\ Silence

Stop(e) == /\ Command(e) /\ epoch = e
           /\ Silence
           /\ UNCHANGED epoch

Prepare(e) ==
  /\ Command(e) /\ epoch = e /\ phase = "muted"
  /\ RouteAdmitted(issued[e])
  /\ pending' = [epoch |-> e, route |-> issued[e].route,
                 clock |-> issued[e].clock, start |-> 0]
  /\ phase' = "prepared"
  /\ UNCHANGED <<epoch, active, muted, fault, device, env>>

Arm(e) ==
  /\ Command(e) /\ epoch = e /\ phase = "prepared"
  /\ issued[e].start # 0
  /\ SyncSufficient(sync, online, Current)
  /\ pending' = [pending EXCEPT !.start = issued[e].start]
  /\ phase' = "armed"
  /\ UNCHANGED <<epoch, active, muted, fault, device, env>>

Commit(e) ==
  /\ Command(e) /\ epoch = e /\ phase = "armed"
  /\ SyncSufficient(sync, online, Current)
  /\ phase' = "committed" /\ muted' = TRUE
  /\ UNCHANGED <<epoch, pending, active, fault, device, env>>

-----------------------------------------------------------------------------
(* Telemetry and local faults.                                             *)

UpdatePower ==
  /\ power' \in PowerReports
  /\ IF RequiresBattery(power') /\ ~PowerSufficient(power')
       THEN FailClosed("power") ELSE Untouched
  /\ UNCHANGED <<attachment, sync, online, env>>

\* Mutant: a change of attachment is only recorded.
AttachmentOnlyRecorded ==
  /\ attachment' \in (Docks \cup {"detached"}) \ {attachment}
  /\ Untouched
  /\ UNCHANGED <<power, sync, online, env>>

UpdateAttachment ==
  /\ attachment' \in (Docks \cup {"detached"}) \ {attachment}
  /\ IF phase \in {"bootMuted", "muted"} THEN Untouched ELSE FailClosed("attachment")
  /\ UNCHANGED <<power, sync, online, env>>

\* Mutant: synchronization is only judged while the route is playing.
SyncJudgedWhilePlaying ==
  /\ sync' \in SyncReports
  /\ IF phase = "playing" /\ ~SyncSufficient(sync', online, Current)
       THEN FailClosed("syncLost") ELSE Untouched
  /\ UNCHANGED <<attachment, power, online, env>>

UpdateSync ==
  /\ sync' \in SyncReports
  /\ IF phase \in {"armed", "committed", "playing"} /\ ~SyncSufficient(sync', online, Current)
       THEN FailClosed(IF sync'.skew # Absent /\ sync'.skew > MaxSkew
                         THEN "skew" ELSE "syncLost")
       ELSE Untouched
  /\ UNCHANGED <<attachment, power, online, env>>

SetOnline ==
  /\ online' \in BOOLEAN
  /\ IF ~online' THEN FailClosed("transport") ELSE Untouched
  /\ UNCHANGED <<attachment, power, sync, env>>

ReportStreamUnderflow == FailClosed("underflow") /\ UNCHANGED <<device, env>>

\* Mutant: the recovered endpoint still shows its last fault.
RecoverKeepsFault ==
  /\ phase = "fault"
  /\ pending' = NoRoute /\ active' = NoRoute
  /\ epoch' = 0 /\ UNCHANGED fault
  /\ phase' = "muted" /\ muted' = TRUE
  /\ UNCHANGED <<device, env>>

RecoverToMuted ==
  /\ phase = "fault"
  /\ pending' = NoRoute /\ active' = NoRoute
  /\ epoch' = 0 /\ fault' = NoFault
  /\ phase' = "muted" /\ muted' = TRUE
  /\ UNCHANGED <<device, env>>

-----------------------------------------------------------------------------
(* The media clock: on_media_frame.                                        *)

Start == /\ pending' = NoRoute /\ active' = pending
         /\ phase' = "playing" /\ muted' = FALSE
         /\ UNCHANGED <<epoch, fault>>

\* Mutant: a passed start frame starts the route late.
StartsLate(f) ==
  IF phase # "committed" \/ ~SyncSufficient(sync, online, Current) \/ pending.start = 0 \/ f < pending.start
    THEN Untouched ELSE Start

\* Mutant: a missed start frame goes unnoticed.
MissedUnnoticed(f) ==
  IF phase # "committed" \/ ~SyncSufficient(sync, online, Current) \/ pending.start = 0 \/ f # pending.start
    THEN Untouched ELSE Start

\* What the endpoint does with media frame f: nothing unless a synchronized
\* route is committed, then wait, start on the very frame, or fault when it
\* was missed.
OnMediaFrame(f) ==
  IF phase # "committed" \/ ~SyncSufficient(sync, online, Current) \/ pending.start = 0 \/ f < pending.start
    THEN Untouched
    ELSE IF f > pending.start THEN FailClosed("missedStart") ELSE Start

\* The timeline advances, possibly past a frame the endpoint never saw.
\* MaxFrame stands for every frame beyond the last start frame.
MediaFrame ==
  /\ frame' \in (frame + 1 .. MaxFrame) \cup {MaxFrame}
  /\ OnMediaFrame(frame')
  /\ UNCHANGED <<issued, device>>

\* The controller issues the next handover, armed for a frame that is still
\* in the future.
Issue ==
  /\ Len(issued) < MaxEpoch
  /\ \E a \in Assignments, s \in 0 .. MaxFrame - 1 :
       /\ s = 0 \/ s > frame
       /\ issued' = Append(issued, [route |-> a.route, clock |-> a.clock,
                                    roles |-> a.roles, start |-> s])
  /\ UNCHANGED <<device, phase, epoch, pending, active, muted, fault, frame>>

Apply == \E e \in 1 .. MaxEpoch :
           Mute(e) \/ Prepare(e) \/ Arm(e) \/ Commit(e) \/ Stop(e)
Telemetry == UpdatePower \/ UpdateAttachment \/ UpdateSync \/ SetOnline
               \/ ReportStreamUnderflow \/ RecoverToMuted

Next == Apply \/ Telemetry \/ MediaFrame \/ Issue

Spec == Init /\ [][Next]_vars

\* The media clock runs on whatever the control plane does.
FairSpec == Spec /\ WF_vars(MediaFrame)

-----------------------------------------------------------------------------
\* Type correctness of the endpoint's control state; last_fault is set exactly
\* in the fault phase.
TypeOK ==
  /\ attachment \in Docks \cup {"detached"} /\ online \in BOOLEAN
  /\ power \in PowerStatus /\ sync \in SyncStatus
  /\ phase \in Phases /\ epoch \in Nat
  /\ pending \in RouteRecord /\ active \in RouteRecord
  /\ muted \in BOOLEAN /\ fault \in Faults \cup {NoFault}
  /\ (fault # NoFault) <=> (phase = "fault")
  /\ issued \in Seq([route : Routes \cup {"muted"}, clock : Clocks, roles : Nat, start : Nat])
  /\ frame \in Nat

\* Which of the two routes exist in a phase, and that they belong to the
\* current epoch: nothing of an earlier handover survives a Mute, a Stop or a
\* fault.
RouteOfPhase ==
  /\ (pending # NoRoute) <=> (phase \in {"prepared", "armed", "committed"})
  /\ (active # NoRoute) <=> (phase = "playing")
  /\ pending # NoRoute => pending.epoch = epoch
  /\ active # NoRoute => active.epoch = epoch

\* "Synchronization telemetry is continuously enforced while a route is
\* armed/committed/playing": whatever order commands and telemetry arrive in,
\* an armed, committed or playing route is in sync at every moment.
InSyncOnceArmed ==
  phase \in {"armed", "committed", "playing"} => SyncSufficient(sync, online, Current)

\* The amplifier is open only while a route plays in sync: "Rejected commands
\* never unmute the endpoint", every fault path mutes it.
AudibleOnlyInSync ==
  ~muted => phase = "playing" /\ SyncSufficient(sync, online, active)

\* "Attachment changes invalidate all prepared/active routing": a dock route
\* exists only in a dock, a wireless one only detached and with power.
RouteFitsWorld ==
  \A r \in {pending, active} :
    /\ r.route = "dock" => attachment \in Docks
    /\ r.route = "wireless" => attachment = "detached" /\ PowerSufficient(power)

\* EndpointSafe: what is pending or active fits the phase, the telemetry and the
\* world, and only such a route is heard.
EndpointSafe ==
  TypeOK /\ RouteOfPhase /\ InSyncOnceArmed /\ AudibleOnlyInSync /\ RouteFitsWorld

\* "A committed route does not unmute early; it starts only once the scheduled
\* frame is reached": the amplifier opens in the step that reaches exactly the
\* armed frame of a handover that was issued with that frame.
OpensAtStartFrame ==
  [][muted /\ ~muted' => frame' = active'.start /\ issued[active'.epoch].start = frame']_vars

\* Between two recoveries epochs only grow: no delayed or replayed command
\* takes the endpoint back to an older handover.
NoReplay == [][phase # "fault" => epoch' >= epoch]_vars

\* StepsSafe: no command, report or media frame opens the amplifier off its frame
\* or takes a healthy endpoint back to an older handover.
StepsSafe == OpensAtStartFrame /\ NoReplay

\* A committed route does not stay committed: it is heard at its frame or the
\* endpoint mutes.
CommittedResolves == (phase = "committed") ~> (phase # "committed")
-----------------------------------------------------------------------------
(* A small instance for TLC.                                              *)

MCCapabilities == [dock |-> TRUE, wired |-> TRUE, wireless |-> TRUE,
                   battery |-> TRUE, lanes |-> 2]

\* Each route with a clock it admits.
MCAssignments ==
  {[route |-> "dock", clock |-> "dockRecovered", roles |-> 1],
   [route |-> "wired", clock |-> "ptp", roles |-> 2],
   [route |-> "wireless", clock |-> "adaptivePeer", roles |-> 1]}

Report(l, s, k, c) == [locked |-> l, scheduled |-> s, skew |-> k, clock |-> c]
MCSyncReports ==
  {Report(TRUE, TRUE, 1, c) : c \in {"dockRecovered", "ptp", "adaptivePeer"}}
    \cup {Report(TRUE, TRUE, 2, "ptp"), Report(FALSE, FALSE, Absent, "unlocked")}

MCPowerReports ==
  {[external |-> FALSE, battery |-> b] : b \in {0, 1}}
    \cup {[external |-> TRUE, battery |-> Absent]}
=============================================================================
