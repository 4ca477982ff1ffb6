----------------------------- MODULE MCBridges -----------------------------
(***************************************************************************)
(* What lies between two audio callbacks: the lock-free ring, the adaptive *)
(* bridge that resamples across it and the slip bridge that repeats or     *)
(* drops frames.  The ring is checked sample by sample; the bridges count  *)
(* its frames.  In every behaviour the one that `focus' names moves alone. *)
(***************************************************************************)
EXTENDS SpscRing, TLC

CONSTANTS Absent,
          \* the adaptive bridge
          Frames, FillTarget, FillExcursion, Underflows, Overflows, Block, Needs, Observations,
          TrustedWindows, Pushes, Reads, LastFrame, LastRead, LastMark,
          \* the slip bridge
          SlipFrames, SlipTarget, Threshold, Transition, SlipWindow, SlipUnderflows,
          SlipOverflows, SlipExcursion, WarningInterval, DegradedInterval,
          SlipPushes, SlipReads, LastSlipFrame

VARIABLES focus,
          fill, received, rejected, consumed, epoch, trusted, overflows, underflows, health,
          shape, fault, filling, reading, ctrl, cache, clock, est, latched, reads, marks,
          slipFill, status, pushing, call, hasLast, history

adaptiveVars == <<fill, received, rejected, consumed, epoch, trusted, overflows, underflows, health,
                  shape, fault, filling, reading, ctrl, cache, clock, est, latched, reads, marks>>
slipVars == <<slipFill, status, pushing, call, hasLast, history>>

Adaptive == INSTANCE AdaptiveDuplex WITH
  Cap <- Frames, Target <- FillTarget, MaxExcursion <- FillExcursion, MaxUnderflows <- Underflows,
  MaxOverflows <- Overflows, Window <- Observations, MaxFrames <- LastFrame,
  MaxReads <- LastRead, MaxMarks <- LastMark, prod <- filling, cons <- reading

Slip == INSTANCE SlipDuplex WITH
  Capacity <- SlipFrames, Target <- SlipTarget, Window <- SlipWindow,
  MaxUnderflows <- SlipUnderflows, MaxOverflows <- SlipOverflows,
  MaxExcursion <- SlipExcursion, Pushes <- SlipPushes, Reads <- SlipReads,
  MaxFrames <- LastSlipFrame, fill <- slipFill

ASSUME BridgesAssumption == Adaptive!AdaptiveAssumption /\ Slip!SlipAssumption

MCInit == focus \in {"ring", "adaptive", "slip"} /\ Init /\ Adaptive!Init /\ Slip!Init

RingMoves == focus = "ring" /\ Next /\ UNCHANGED <<focus, adaptiveVars, slipVars>>
AdaptiveMoves == focus = "adaptive" /\ Adaptive!Next /\ UNCHANGED <<focus, vars, slipVars>>
SlipMoves == focus = "slip" /\ Slip!Next /\ UNCHANGED <<focus, vars, adaptiveVars>>

\* The bridges stop at their bounds; the ring goes on for ever.
BoundReached == focus # "ring" /\ UNCHANGED <<focus, vars, adaptiveVars, slipVars>>

MCNext == RingMoves \/ AdaptiveMoves \/ SlipMoves \/ BoundReached

MCSpec == MCInit /\ [][MCNext]_<<focus, vars, adaptiveVars, slipVars>>

-----------------------------------------------------------------------------
\* AdaptiveDuplexBridge: every captured frame is in the ring, played or counted as rejected, a
\* refill uses only a feed-forward of the epoch it saw, and a latched fault is published.
AdaptiveSound ==
  /\ Adaptive!TypeOK /\ Adaptive!FramesAccounted
  /\ Adaptive!FeedforwardOfEpoch /\ Adaptive!LatchPublished

\* AdaptiveDuplexBridge: nothing is consumed or played after a latched fault.
LatchIsFinal == Adaptive!LatchIsFinal

\* DuplexBridge: frames are lost by counted slips only, and a push fits the room it found.
SlipsAccounted == Slip!SlipsAccounted
=============================================================================
