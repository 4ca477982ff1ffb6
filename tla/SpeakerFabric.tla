---------------------------- MODULE SpeakerFabric ----------------------------
(***************************************************************************)
(* FabricSession and FabricPlanner of the modular speaker fabric (lib.rs): *)
(* what the control plane knows of each speaker module, the deployment the *)
(* user asked for, and the plan admitted for the two.  A module can be     *)
(* docked, undocked, lose its lock or disappear at any time; the plan must *)
(* never outlive the facts it was admitted on.                             *)
(*                                                                         *)
(* A plan is a sequence of assignments in intent order; None stands for    *)
(* "no plan" and for every FabricError, which all leave no plan.           *)
(***************************************************************************)
EXTENDS Naturals, Sequences, SequencesExt

CONSTANTS Modules,    \* module identities; one of them may be EmptyId
          EmptyId,    \* the empty module id, which is refused
          Observed,   \* the module states that discovery can report
          OtherIntents,  \* deployments asked for besides the presets
          MaxSkew,    \* FabricPolicy: the largest skew admitted in each mode
          None

VARIABLES inventory,  \* BTreeMap of the last observed state of each module
          intent,     \* the requested deployment
          plan        \* current_plan

vars == <<inventory, intent, plan>>

Modes       == {"cinema", "stereo", "standalone", "multiroom"}
Attachments == {"docked", "detached"}
Clocks      == {"dock", "ptp", "adaptive", "unlocked"}
Routes      == {"dock_bus", "wired", "wireless"}

\* ChannelRole: the roles of a 7.1.4 layout, or a custom one.
CanonicalRoles == {"FL", "FR", "FC", "LFE", "SL", "SR", "SBL", "SBR",
                   "TFL", "TFR", "TRL", "TRR"}
ChannelRoles   == CanonicalRoles \cup STRING

SyncStatus   == [locked : BOOLEAN, scheduled : BOOLEAN,
                 skew : Nat \cup {None}, clock : Clocks]
Capabilities == [lanes : Nat, dockPcm : BOOLEAN, wired : BOOLEAN,
                 wireless : BOOLEAN, battery : BOOLEAN]
ModuleStates == [online : BOOLEAN, attachment : Attachments,
                 caps : Capabilities, sync : SyncStatus]

-----------------------------------------------------------------------------
(* The planner.                                                            *)

\* validate_detached_sync: locked, scheduled, and a skew within the mode's limit
DetachedSync(s, mode) ==
  /\ s.sync.locked /\ s.sync.scheduled /\ s.sync.clock # "unlocked"
  /\ s.sync.skew # None
  /\ mode # "standalone" => s.sync.skew <= MaxSkew[mode]

\* select_route: a docked module plays over the dock, a detached one over its
\* network, and neither falls back to the other.
SelectRoute(s, mode) ==
  CASE s.attachment = "docked" ->
         IF s.caps.dockPcm /\ s.sync.locked /\ s.sync.clock = "dock"
         THEN "dock_bus" ELSE None
    [] s.attachment = "detached" ->
         IF ~s.caps.battery /\ mode # "multiroom" THEN None
         ELSE IF ~(s.caps.wired \/ s.caps.wireless) THEN None
         ELSE IF ~DetachedSync(s, mode) THEN None
         ELSE IF s.caps.wired THEN "wired" ELSE "wireless"

\* The presets; a pod that is moved behind the listener takes the rear roles.
Pair(mode, l, left, r, right) ==
  [mode |-> mode, targets |-> << [module |-> l, roles |-> left],
                                 [module |-> r, roles |-> right] >>]
DetachedRearIntent(l, r)        == Pair("cinema", l, <<"SL">>, r, <<"SR">>)
StereoPairIntent(l, r)          == Pair("stereo", l, <<"FL">>, r, <<"FR">>)
DockedAtmosWingIntent(l, r)     == Pair("cinema", l, <<"FL", "TFL">>, r, <<"FR", "TFR">>)
DetachableAtmosRearIntent(l, r) == Pair("cinema", l, <<"SL", "TRL">>, r, <<"SR", "TRR">>)

Intents ==
  OtherIntents \cup
    UNION {{DetachedRearIntent(l, r), StereoPairIntent(l, r), DockedAtmosWingIntent(l, r),
            DetachableAtmosRearIntent(l, r)} : l \in Modules, r \in Modules}

RolesOf(targets) == FlattenSeq([k \in DOMAIN targets |-> targets[k].roles])

\* Mutant: two modules may be given the same role.
AdmitsSharedRole(inv, targets, mode) ==
  \A k \in DOMAIN targets :
       LET s == inv[targets[k].module]
       IN /\ s # None /\ s.online
          /\ Len(targets[k].roles) \in 1 .. s.caps.lanes
          /\ SelectRoute(s, mode) # None

\* plan's checks on the targets: known, online, enough lanes, no role twice
Admits(inv, targets, mode) ==
  /\ \A k \in DOMAIN targets :
       LET s == inv[targets[k].module]
       IN /\ s # None /\ s.online
          /\ Len(targets[k].roles) \in 1 .. s.caps.lanes
          /\ SelectRoute(s, mode) # None
  /\ IsInjective(RolesOf(targets))

Plan(inv, i) ==
  IF (i.mode = "standalone" => Len(i.targets) = 1) /\ Admits(inv, i.targets, i.mode)
  THEN [k \in DOMAIN i.targets |->
          [module |-> i.targets[k].module,
           route  |-> SelectRoute(inv[i.targets[k].module], i.mode),
           clock  |-> inv[i.targets[k].module].sync.clock,
           roles  |-> i.targets[k].roles]]
  ELSE None

\* What discovery reports and what is asked for is well formed.
FabricAssumption ==
  /\ Observed \subseteq ModuleStates
  /\ \A i \in OtherIntents :
       /\ i.mode \in Modes
       /\ i.targets \in Seq([module : Modules, roles : Seq(ChannelRoles)])

-----------------------------------------------------------------------------
(* The session.  reconcile installs the new plan or clears the old one.    *)

Reconciled(inv, i) == IF i = None THEN None ELSE Plan(inv, i)

Init == inventory = [m \in Modules |-> None] /\ intent = None /\ plan = None

SetIntent ==
  /\ \E i \in Intents : intent' = i /\ plan' = Reconciled(inventory, i)
  /\ UNCHANGED inventory

\* Mutant: an observation that makes the plan invalid leaves the old one.
UpsertKeepsPlan ==
  \E m \in Modules \ {EmptyId}, s \in Observed :
    /\ inventory' = [inventory EXCEPT ![m] = s]
    /\ plan' = IF Reconciled(inventory', intent) = None THEN plan
                                                        ELSE Reconciled(inventory', intent)
    /\ UNCHANGED intent

UpsertModule ==
  \E m \in Modules \ {EmptyId}, s \in Observed :
    /\ inventory' = [inventory EXCEPT ![m] = s]
    /\ plan' = Reconciled(inventory', intent)
    /\ UNCHANGED intent

\* An observation without an identity clears the plan and is not recorded.
UpsertRefused ==
  /\ EmptyId \in Modules /\ plan' = None
  /\ UNCHANGED <<inventory, intent>>

RemoveModule ==
  \E m \in Modules :
    /\ inventory' = [inventory EXCEPT ![m] = None]
    /\ plan' = Reconciled(inventory', intent)
    /\ UNCHANGED intent

Next == SetIntent \/ UpsertModule \/ UpsertRefused \/ RemoveModule

Spec == Init /\ [][Next]_vars

-----------------------------------------------------------------------------
(* From the plan to the network streams and the fan-out in front of them.  *)

\* The k-th smallest member of a set of positions.
Nth(S, k) == CHOOSE i \in S : Cardinality({x \in S : x <= i}) = k

Networked(p) ==
  LET there == {k \in DOMAIN p : p[k].route \in {"wired", "wireless"}}
  IN [k \in 1 .. Cardinality(there) |-> p[Nth(there, k)]]

\* materialize_network_routes: None when a clock cannot discipline a stream or
\* the bus has no channel for a role
NetworkRoutes(p) ==
  LET n == Networked(p)
  IN IF \A k \in DOMAIN n : /\ n[k].clock \in {"ptp", "adaptive"}
                            /\ \A l \in DOMAIN n[k].roles : n[k].roles[l] \in CanonicalRoles
     THEN [k \in DOMAIN n |-> [module |-> n[k].module, sources |-> n[k].roles]]
     ELSE None

\* PreparedModuleNetworkFanout::prepare
FanoutAccepts(routes) ==
  /\ routes # <<>>
  /\ IsInjective([k \in DOMAIN routes |-> routes[k].module])
  /\ \A k \in DOMAIN routes : routes[k].sources # <<>>
  /\ IsInjective(FlattenSeq([k \in DOMAIN routes |-> routes[k].sources]))

-----------------------------------------------------------------------------
TypeOK ==
  /\ inventory \in [Modules -> ModuleStates \union {None}]
  /\ intent # None => intent.mode \in Modes
  /\ plan # None =>
       \A k \in DOMAIN plan :
         plan[k].module \in Modules /\ plan[k].route \in Routes /\ plan[k].clock \in Clocks

\* "The session never keeps a stale active plan after inventory or
\* synchronization changes": whatever was docked, moved or lost since, every
\* assignment of the current plan is on a route that its module still has.
PlanFitsInventory ==
  plan # None =>
    \A k \in DOMAIN plan :
      LET s == inventory[plan[k].module]
      IN /\ s # None /\ s.online
         /\ plan[k].route = "dock_bus" <=> s.attachment = "docked"
         /\ s.sync.locked /\ plan[k].clock = s.sync.clock

\* An admitted plan whose modules are each named once can be brought up: its
\* network routes are accepted by the fan-out, which refuses to send one
\* channel of the bus to two speakers.
PlanDeployable ==
  LET routes == NetworkRoutes(plan)
  IN /\ plan # None
     /\ IsInjective([k \in DOMAIN plan |-> plan[k].module])
     /\ routes \notin {None, <<>>}
     => FanoutAccepts(routes)

(***************************************************************************)
(* EndpointHandoverState (lib.rs): the contract an endpoint keeps when it  *)
(* is handed the commands of handovers.  The commands of all handovers     *)
(* issued so far may arrive late, repeated, out of order or never; the     *)
(* endpoint alone has to keep them apart.                                  *)
(***************************************************************************)
CONSTANTS Epochs,       \* epochs of the handovers, 0 being the invalid one
          Assignments   \* what a handover can assign

VARIABLES issued,     \* the assignment of each handover issued so far, or None
          lastEpoch, phase, pending, active, armed, muted,
          seen        \* history: the epochs of the commands accepted since the last Mute

contractVars == <<issued, lastEpoch, phase, pending, active, armed, muted, seen>>

ContractInit ==
  /\ issued = [e \in Epochs |-> None]
  /\ lastEpoch = 0 /\ phase = "idle" /\ pending = None /\ active = None
  /\ armed = None /\ muted = TRUE /\ seen = <<>>

Issue ==
  /\ \E e \in Epochs, a \in Assignments :
       issued[e] = None /\ issued' = [issued EXCEPT ![e] = a]
  /\ UNCHANGED <<lastEpoch, phase, pending, active, armed, muted, seen>>

\* Mutant: any epoch that is not older will do.
NotOlder(e) == e # 0 /\ e >= lastEpoch

RequireEpoch(e) == e # 0 /\ e = lastEpoch

Mute(e) ==
  /\ e # 0 /\ e > lastEpoch
  /\ lastEpoch' = e /\ phase' = "muted" /\ pending' = None /\ armed' = None
  /\ muted' = TRUE /\ seen' = <<e>>
  /\ UNCHANGED active

Prepare(e) ==
  /\ RequireEpoch(e) /\ phase = "muted"
  /\ pending' = issued[e] /\ phase' = "prepared" /\ seen' = Append(seen, e)
  /\ UNCHANGED <<lastEpoch, active, armed, muted>>

Arm(e) ==
  /\ RequireEpoch(e) /\ phase = "prepared"
  /\ armed' = e /\ phase' = "armed" /\ seen' = Append(seen, e)
  /\ UNCHANGED <<lastEpoch, pending, active, muted>>

Commit(e) ==
  /\ RequireEpoch(e) /\ phase = "armed"
  /\ active' = pending /\ pending' = None /\ phase' = "idle" /\ muted' = FALSE
  /\ seen' = Append(seen, e)
  /\ UNCHANGED <<lastEpoch, armed>>

\* apply; a command of an issued handover may arrive at any time
Apply ==
  /\ \E e \in Epochs : /\ issued[e] # None
                       /\ Mute(e) \/ Prepare(e) \/ Arm(e) \/ Commit(e)
  /\ UNCHANGED issued

ContractNext == Issue \/ Apply

ContractSpec == ContractInit /\ [][ContractNext]_contractVars

-------------------------------------------------------------------------------
\* "A stale epoch or out-of-order Prepare/Arm/Commit is rejected and cannot
\* unmute the speaker": an unmuted speaker has gone through the four commands of
\* one handover, the newest it was muted for, and plays that one's assignment.
UnmutedByOneHandover ==
  ~muted => /\ seen = <<lastEpoch, lastEpoch, lastEpoch, lastEpoch>>
            /\ active = issued[lastEpoch]
=============================================================================
