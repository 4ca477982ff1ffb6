------------------------------ MODULE MCFabric ------------------------------
(***************************************************************************)
(* The speaker fabric from the plan to the speaker: the session that       *)
(* admits plans, the handover of a plan to ESP-AVB endpoints, and the      *)
(* contract of an endpoint.  The plans that are handed over are those the  *)
(* planner admits.  Each property is about one of the three, so in every   *)
(* behaviour the one that `focus' names moves alone.                       *)
(***************************************************************************)
EXTENDS EspHandover

CONSTANTS EmptyId, Observed, OtherIntents, MaxSkew, Epochs, Assignments

VARIABLES focus, inventory, intent, plan,
          issued, lastEpoch, phase, pending, active, armed, muted, seen

sessionVars  == <<inventory, intent, plan>>
contractVars == <<issued, lastEpoch, phase, pending, active, armed, muted, seen>>

Sync(locked, skew, clock) ==
  [locked |-> locked, scheduled |-> TRUE, skew |-> skew, clock |-> clock]
Pod(wired, battery) ==
  [lanes |-> 2, dockPcm |-> TRUE, wired |-> wired, wireless |-> TRUE, battery |-> battery]
Seen(attachment, caps, sync) ==
  [online |-> TRUE, attachment |-> attachment, caps |-> caps, sync |-> sync]

Detached == Seen("detached", Pod(FALSE, TRUE), Sync(TRUE, 1, "ptp"))
Adaptive == Seen("detached", Pod(FALSE, TRUE), Sync(TRUE, 1, "adaptive"))

MCObserved ==
  { Detached, Adaptive, [Detached EXCEPT !.online = FALSE],
    Seen("docked", Pod(FALSE, TRUE), Sync(TRUE, 0, "dock")),
    Seen("docked", Pod(FALSE, TRUE), Sync(FALSE, 0, "dock")),
    Seen("detached", Pod(TRUE, FALSE), Sync(TRUE, 2, "ptp")),
    Seen("detached", Pod(FALSE, TRUE), Sync(FALSE, 1, "ptp")),
    Seen("detached", Pod(FALSE, TRUE), Sync(TRUE, None, "ptp")) }

Target(m, roles) == [module |-> m, roles |-> roles]
Asked(mode, targets) == [mode |-> mode, targets |-> targets]

MCOtherIntents ==
  { Asked("standalone", << Target(1, <<"FC">>) >>),
    Asked("standalone", << Target(1, <<"FC">>), Target(2, <<"FL">>) >>),
    Asked("multiroom", << Target(1, <<"SR">>), Target(2, <<"SL">>) >>),
    Asked("cinema", << Target(1, <<"SR">>), Target(2, <<"SR">>) >>),
    Asked("cinema", << Target(1, <<"SL", "TRL", "FC">>) >>),
    Asked("cinema", << Target(1, <<"SR">>) >>) }

MCMaxSkew == [cinema |-> 1, stereo |-> 1, multiroom |-> 2]

Fabric == INSTANCE SpeakerFabric WITH Modules <- Modules \cup {EmptyId}

ASSUME FabricAssumption == Fabric!FabricAssumption

\* Admitted plans: both pods behind the listener, the right pod alone on the left, the
\* two exchanged, and one on a clock the bridge refuses.
Both(clock) == [m \in Modules \cup {EmptyId} |-> IF m = 2 THEN clock ELSE Detached]
MCPlans ==
  { [m \in Modules |-> Lookup(Fabric!Plan(Both(s), i), m)] :
      s \in {Detached, Adaptive},
      i \in {Asked("cinema", << Target(1, <<"SL", "TRL">>), Target(2, <<"SR">>) >>),
             Asked("cinema", << Target(1, <<"SR">>) >>),
             Asked("multiroom", << Target(1, <<"SR">>), Target(2, <<"SL">>) >>)} }

MCMedium == <<"c6", "c6">>
MCAnchor == [frame |-> 1, ptp |-> 1]

MCInit ==
  /\ focus \in {"session", "handover", "contract"}
  /\ Fabric!Init /\ Init /\ Fabric!ContractInit

SessionMoves ==
  focus = "session" /\ Fabric!Next /\ UNCHANGED <<focus, vars, contractVars>>

HandoverMoves ==
  focus = "handover" /\ Next /\ UNCHANGED <<focus, sessionVars, contractVars>>

ContractMoves ==
  focus = "contract" /\ Fabric!ContractNext /\ UNCHANGED <<focus, vars, sessionVars>>

MCNext == SessionMoves \/ HandoverMoves \/ ContractMoves

MCSpec == MCInit /\ [][MCNext]_<<focus, vars, sessionVars, contractVars>>

-----------------------------------------------------------------------------
\* Nothing outlives the facts it was admitted on: FabricSession keeps no plan that a module no
\* longer fits, an endpoint is heard only after a COMMIT that nothing has revoked, and the
\* contract unmutes only after the four commands of one handover.
FabricFailsClosed ==
  Fabric!TypeOK /\ Fabric!PlanFitsInventory /\ OpenOnlyCommitted /\ Fabric!UnmutedByOneHandover

\* What the planner admits the fan-out can bring up, and what is heard of the endpoints is
\* always one topology.
PlansCoherent == Fabric!PlanDeployable /\ OneTopology
=============================================================================
