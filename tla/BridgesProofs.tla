--------------------------- MODULE BridgesProofs ---------------------------
(***************************************************************************)
(* Proofs about the two duplex bridges: the adaptive one accounts for      *)
(* every frame, uses a feed-forward of the epoch it saw only and stays     *)
(* silent once a fault is latched; the slip bridge loses frames by counted *)
(* slips only.                                                             *)
(***************************************************************************)
EXTENDS MCBridges, SequenceTheorems, TLAPS

-----------------------------------------------------------------------------
(* The adaptive bridge.                                                    *)

Steps == {"idle", "drain", "count", "observe", "trust", "distrust", "update", "pop",
          "underflow", "latch", "publish", "finish"}

\* The private state of the three threads.
ThreadsTyped ==
  /\ filling \in [op : {"idle", "push", "account", "observe"}, frames : Nat, accepted : Nat]
  /\ reading \in [op : Steps, left : Nat, epoch : Nat, input : Nat, output : Nat,
                  fault : Adaptive!Faults \cup {"none"}]
  /\ ctrl \in {"idle", "bump"}
  /\ clock \in [known : BOOLEAN, epoch : Nat, input : Nat, output : Nat]

\* What a push has found free stays free: only the other thread moves, and it
\* only makes room.
PushFits ==
  /\ filling.accepted <= filling.frames
  /\ filling.op = "push" => fill + filling.accepted <= Frames

\* From the observation of the clock on, the estimate is of the epoch the
\* refill has loaded; before the first baseline there is none.
EstimateOfEpoch ==
  /\ reading.op \in {"trust", "distrust", "update"} => est.ff \in {Absent, reading.epoch}
  /\ reading.op = "trust" => est.ff = reading.epoch
  /\ est.ff # Absent => clock.known /\ est.clean = TrustedWindows /\ est.ff = clock.epoch

\* Where a latched fault is on its way to the control thread.
LatchOnItsWay ==
  /\ reading.op \in {"latch", "publish"} => reading.fault # "none"
  /\ reading.op = "publish" => latched
  /\ latched => /\ reading.op \in {"idle", "publish", "finish"}
                /\ ~trusted
                /\ reading.op # "publish" => fault # "none" /\ health = "fatal"

AdaptiveInv ==
  /\ Adaptive!TypeOK /\ ThreadsTyped /\ PushFits
  /\ Adaptive!FramesAccounted /\ EstimateOfEpoch /\ LatchOnItsWay

LEMMA AdaptiveInit == MCInit => AdaptiveInv
<1> SUFFICES ASSUME MCInit PROVE AdaptiveInv
  OBVIOUS
<1> USE DEF MCInit, Adaptive!Init, Adaptive!NoPush, Adaptive!NoRead, Adaptive!NoEstimate,
            Adaptive!Idle
<1>0. Adaptive!AdaptiveAssumption
  BY BridgesAssumption
<1>1. Adaptive!TypeOK
  <2>1. fill \in 0..Frames /\ cache \in 0..Block
    BY <1>0 DEF Adaptive!AdaptiveAssumption
  <2>2. est \in [win : 0 .. Observations - 1, clean : 0 .. TrustedWindows, ff : Nat \cup {Absent}]
    BY <1>0 DEF Adaptive!AdaptiveAssumption
  <2>3. trusted \in BOOLEAN /\ latched \in BOOLEAN
    OBVIOUS
  <2> QED BY <2>1, <2>2, <2>3 DEF Adaptive!TypeOK, Adaptive!Faults
<1>2. ThreadsTyped
  BY DEF ThreadsTyped, Steps, Adaptive!Faults
<1>3. PushFits /\ EstimateOfEpoch /\ LatchOnItsWay
  BY DEF PushFits, EstimateOfEpoch, LatchOnItsWay
<1>4. Adaptive!FramesAccounted
  BY DEF Adaptive!FramesAccounted
<1> QED BY <1>1, <1>2, <1>3, <1>4 DEF AdaptiveInv

\* What no step of another component moves stays as it is.
LEMMA AdaptiveKept == AdaptiveInv /\ UNCHANGED adaptiveVars => AdaptiveInv'
BY DEF AdaptiveInv, adaptiveVars, Adaptive!TypeOK, ThreadsTyped, PushFits, Adaptive!FramesAccounted,
       EstimateOfEpoch, LatchOnItsWay

\* A refill that fails only moves to the latch with its fault.
LEMMA Failing ==
  ASSUME ThreadsTyped, NEW f \in Adaptive!Faults, Adaptive!Fail(f)
  PROVE  /\ reading' \in [op : Steps, left : Nat, epoch : Nat, input : Nat, output : Nat,
                           fault : Adaptive!Faults \cup {"none"}]
         /\ reading'.op = "latch" /\ reading'.fault # "none"
BY DEF ThreadsTyped, Adaptive!Fail, Steps, Adaptive!Faults

LEMMA AdaptiveStep == AdaptiveInv /\ Adaptive!Next => AdaptiveInv'
<1> SUFFICES ASSUME AdaptiveInv, Adaptive!Next PROVE AdaptiveInv'
  OBVIOUS
<1>0. Adaptive!AdaptiveAssumption
  BY BridgesAssumption
<1> USE <1>0 DEF Adaptive!AdaptiveAssumption, AdaptiveInv, Adaptive!TypeOK, ThreadsTyped, PushFits, Adaptive!FramesAccounted,
       EstimateOfEpoch, LatchOnItsWay, Steps, Adaptive!Faults,
       Adaptive!NoPush, Adaptive!NoRead, Adaptive!NoEstimate, Adaptive!Idle,
       Adaptive!ring, Adaptive!status, Adaptive!private, Adaptive!At, Adaptive!Goto, Adaptive!Fail, Adaptive!RaisedIf
<1>1. CASE Adaptive!PushFormat
  BY <1>1 DEF Adaptive!PushFormat
<1>2. CASE Adaptive!PushBegin
  <2> USE <1>2 DEF Adaptive!PushBegin, Adaptive!Accepted
  <2>1. Adaptive!TypeOK'
    OBVIOUS
  <2>2. ThreadsTyped'
    OBVIOUS
  <2>3. (PushFits /\ Adaptive!FramesAccounted)'
    OBVIOUS
  <2>4. EstimateOfEpoch'
    OBVIOUS
  <2>5. LatchOnItsWay'
    OBVIOUS
  <2> QED BY <2>1, <2>2, <2>3, <2>4, <2>5
<1>3. CASE Adaptive!Push
  BY <1>3 DEF Adaptive!Push
<1>4. CASE Adaptive!PushAccount
  BY <1>4 DEF Adaptive!PushAccount
<1>5. CASE Adaptive!PushObserve
  BY <1>5 DEF Adaptive!PushObserve
<1>6. CASE Adaptive!ReadFormat
  BY <1>6 DEF Adaptive!ReadFormat
<1>7. CASE Adaptive!ReadBegin
  <2> USE <1>7 DEF Adaptive!ReadBegin
  <2>1. Adaptive!TypeOK'
    OBVIOUS
  <2>2. ThreadsTyped'
    <3>1. \E n \in Nat : reading' = [op |-> "drain", left |-> n, epoch |-> 0, input |-> 0,
                                    output |-> 0, fault |-> "none"]
      BY ONLY <1>0, <1>7 DEF Adaptive!AdaptiveAssumption, Adaptive!ReadBegin, Adaptive!NoRead,
         Adaptive!Idle
    <3>2. reading' \in [op : Steps, left : Nat, epoch : Nat, input : Nat, output : Nat,
                        fault : Adaptive!Faults \cup {"none"}]
      BY <3>1
    <3> QED BY <3>2
  <2>3. (PushFits /\ Adaptive!FramesAccounted)'
    OBVIOUS
  <2>4. EstimateOfEpoch'
    OBVIOUS
  <2>5. LatchOnItsWay'
    OBVIOUS
  <2> QED BY <2>1, <2>2, <2>3, <2>4, <2>5
<1>8. CASE Adaptive!Drain
  BY <1>8 DEF Adaptive!Drain
<1>9. CASE Adaptive!Drained
  BY <1>9 DEF Adaptive!Drained
<1>10. CASE Adaptive!LoadEpoch
  <2> USE <1>10 DEF Adaptive!LoadEpoch
  <2>1. Adaptive!TypeOK'
    OBVIOUS
  <2>2. ThreadsTyped'
    OBVIOUS
  <2>3. (PushFits /\ Adaptive!FramesAccounted)'
    OBVIOUS
  <2>4. EstimateOfEpoch'
    OBVIOUS
  <2>5. LatchOnItsWay'
    OBVIOUS
  <2> QED BY <2>1, <2>2, <2>3, <2>4, <2>5
<1>11. CASE Adaptive!LoadCounts
  <2> USE <1>11 DEF Adaptive!LoadCounts
  <2>1. Adaptive!TypeOK'
    OBVIOUS
  <2>2. ThreadsTyped'
    OBVIOUS
  <2>3. (PushFits /\ Adaptive!FramesAccounted)'
    OBVIOUS
  <2>4. EstimateOfEpoch'
    OBVIOUS
  <2>5. LatchOnItsWay'
    OBVIOUS
  <2> QED BY <2>1, <2>2, <2>3, <2>4, <2>5
<1>12. CASE Adaptive!ObserveClock
  <2> USE <1>12 DEF Adaptive!ObserveClock
  <2>0. /\ reading \in [op : Steps, left : Nat, epoch : Nat, input : Nat, output : Nat,
                          fault : Adaptive!Faults \cup {"none"}]
        /\ reading.op = "observe"
        /\ reading'.op \in {"update", "distrust", "trust", "latch"}
        /\ reading' = [reading EXCEPT !.op = reading'.op, !.fault = reading'.fault]
        /\ reading'.fault \in Adaptive!Faults \cup {"none"}
        /\ reading'.op = "latch" => reading'.fault # "none"
    <3>1. /\ reading \in [op : Steps, left : Nat, epoch : Nat, input : Nat, output : Nat,
                            fault : Adaptive!Faults \cup {"none"}]
          /\ reading.op = "observe"
      OBVIOUS
    <3>2. \/ \E q \in {"update", "distrust", "trust"} : reading' = [reading EXCEPT !.op = q]
          \/ reading' = [reading EXCEPT !.op = "latch", !.fault = "controller"]
      BY DEF Adaptive!NewEpoch, Adaptive!Measure
    <3>3. CASE reading' = [reading EXCEPT !.op = "latch", !.fault = "controller"]
      BY ONLY <3>1, <3>3 DEF Adaptive!Faults
    <3>4. ASSUME NEW q \in {"update", "distrust", "trust"}, reading' = [reading EXCEPT !.op = q]
          PROVE  /\ reading'.op \in {"update", "distrust", "trust", "latch"}
                 /\ reading' = [reading EXCEPT !.op = reading'.op, !.fault = reading'.fault]
                 /\ reading'.fault \in Adaptive!Faults \cup {"none"}
                 /\ reading'.op = "latch" => reading'.fault # "none"
      BY ONLY <3>1, <3>4
    <3> QED BY ONLY <3>1, <3>2, <3>3, <3>4
  <2>1. /\ reading' \in [op : Steps, left : Nat, epoch : Nat, input : Nat, output : Nat,
                          fault : Adaptive!Faults \cup {"none"}]
        /\ reading'.epoch = reading.epoch /\ reading'.left = reading.left
    BY <2>0
  <2>2. /\ clock' \in [known : BOOLEAN, epoch : Nat, input : Nat, output : Nat]
        /\ est' \in [win : 0 .. Observations - 1, clean : 0 .. TrustedWindows, ff : Nat \cup {Absent}]
        /\ EstimateOfEpoch'
    <3>1. CASE ~clock.known /\ Adaptive!Baseline /\ reading'.op = "update" /\ UNCHANGED est
      BY <2>1, <3>1 DEF Adaptive!Baseline
    <3>2. CASE Adaptive!NewEpoch
      BY <2>1, <3>2 DEF Adaptive!Baseline, Adaptive!NewEpoch
    <3>3. CASE Adaptive!Measure
      <4> USE <3>3, <2>1 DEF Adaptive!Measure, Adaptive!WindowGoesOn, Adaptive!CleanWindows
      <4>0. /\ clock.known /\ reading.epoch = clock.epoch
            /\ clock' = [clock EXCEPT !.input = reading.input, !.output = reading.output]
            /\ clock' \in [known : BOOLEAN, epoch : Nat, input : Nat, output : Nat]
            /\ clock'.known = clock.known /\ clock'.epoch = clock.epoch
        OBVIOUS
      <4>1. CASE Adaptive!WindowGoesOn /\ est' = [est EXCEPT !.win = @ + 1] /\ Adaptive!Goto("update")
        BY <4>0, <4>1
      <4>2. CASE est' = Adaptive!NoEstimate /\ Adaptive!Fail("controller")
        BY <4>0, <4>2
      <4>3. CASE /\ Adaptive!CleanWindows < TrustedWindows
                 /\ est' = [est EXCEPT !.win = 0, !.clean = Adaptive!CleanWindows]
                 /\ Adaptive!Goto("update")
        <5>1. est.ff = Absent /\ est.clean + 1 \in 0 .. TrustedWindows
          BY <4>3
        <5>2. Adaptive!CleanWindows = est.clean + 1
          BY <4>3
        <5>3. est' = [est EXCEPT !.win = 0, !.clean = est.clean + 1]
          BY <4>3, <5>2
        <5> HIDE <3>3 DEF Adaptive!Measure, Adaptive!WindowGoesOn, Adaptive!CleanWindows
        <5>4. est' \in [win : 0 .. Observations - 1, clean : 0 .. TrustedWindows, ff : Nat \cup {Absent}]
          <6>1. /\ est \in [win : 0 .. Observations - 1, clean : 0 .. TrustedWindows,
                              ff : Nat \cup {Absent}]
                /\ 0 \in 0 .. Observations - 1
            OBVIOUS
          <6> QED BY ONLY <5>1, <5>3, <6>1
        <5>5. est'.ff = Absent
          BY <5>1, <5>3
        <5> QED BY <4>0, <4>3, <5>4, <5>5
      <4>4. CASE /\ Adaptive!CleanWindows = TrustedWindows
                 /\ est' = [win |-> 0, clean |-> Adaptive!CleanWindows, ff |-> clock.epoch]
                 /\ Adaptive!Goto("trust")
        BY <4>0, <4>4
      <4> QED BY <4>1, <4>2, <4>3, <4>4
    <3>4. CASE Adaptive!Goto("update") /\ UNCHANGED <<clock, est>> /\ reading.epoch = clock.epoch
      BY <2>1, <3>4
    <3> QED BY <2>0, <3>1, <3>2, <3>3, <3>4
  <2>3. Adaptive!TypeOK'
    BY <2>2
  <2>4. ThreadsTyped'
    BY <2>1, <2>2
  <2>5. (PushFits /\ Adaptive!FramesAccounted)'
    OBVIOUS
  <2>6. LatchOnItsWay'
    BY <2>0
  <2> QED BY <2>2, <2>3, <2>4, <2>5, <2>6
<1>13. CASE Adaptive!PublishTrust
  <2> USE <1>13 DEF Adaptive!PublishTrust
  <2>1. Adaptive!TypeOK'
    OBVIOUS
  <2>2. ThreadsTyped'
    OBVIOUS
  <2>3. (PushFits /\ Adaptive!FramesAccounted)'
    OBVIOUS
  <2>4. EstimateOfEpoch'
    OBVIOUS
  <2>5. LatchOnItsWay'
    OBVIOUS
  <2> QED BY <2>1, <2>2, <2>3, <2>4, <2>5
<1>14. CASE Adaptive!UpdateRatio
  <2>1. UNCHANGED <<fill, received, rejected, consumed, epoch, trusted, overflows, underflows,
                    health, shape, fault, filling, ctrl, cache, clock, est, latched, reads, marks>>
    BY <1>14 DEF Adaptive!UpdateRatio
  <2>2. CASE Adaptive!Goto("pop")
    BY <1>14, <2>1, <2>2 DEF Adaptive!UpdateRatio
  <2>3. ASSUME NEW f \in Adaptive!Faults, Adaptive!Fail(f) PROVE AdaptiveInv'
    <3>1. /\ reading' \in [op : Steps, left : Nat, epoch : Nat, input : Nat, output : Nat,
                            fault : Adaptive!Faults \cup {"none"}]
          /\ reading'.op = "latch" /\ reading'.fault # "none"
      BY <2>3, Failing
    <3>2. reading.op = "update"
      BY <1>14 DEF Adaptive!UpdateRatio
    <3> HIDE DEF Adaptive!Fail
    <3> QED BY <2>1, <3>1, <3>2
  <2> QED BY <1>14, <2>2, <2>3
          DEF Adaptive!UpdateRatio, Adaptive!ControllerUpdate, Adaptive!SetRatio
<1>15. CASE Adaptive!Pop
  <2> PICK need \in Needs :
         IF fill < need
           THEN Adaptive!Goto("underflow") /\ UNCHANGED <<fill, consumed, cache>>
           ELSE fill' = fill - need /\ consumed' = consumed + need /\ Adaptive!Process
    BY <1>15 DEF Adaptive!Pop
  <2>1. /\ need \in Nat /\ reading.op = "pop"
        /\ UNCHANGED <<received, rejected, epoch, trusted, overflows, underflows, health, shape,
                       fault, filling, ctrl, clock, est, latched, reads, marks>>
    BY <1>15 DEF Adaptive!Pop
  <2>2. CASE fill < need
    BY <2>1, <2>2
  <2>3. CASE ~(fill < need)
    <3>1. fill' \in 0..Frames /\ consumed' \in Nat /\ fill' + consumed' = fill + consumed /\ fill' <= fill
      BY <2>1, <2>3
    <3>2. CASE cache' = Block /\ Adaptive!Goto("drain")
      BY <2>1, <2>3, <3>1, <3>2
    <3>3. CASE UNCHANGED cache /\ Adaptive!Fail("resampler")
      <4>1. /\ reading' \in [op : Steps, left : Nat, epoch : Nat, input : Nat, output : Nat,
                              fault : Adaptive!Faults \cup {"none"}]
            /\ reading'.op = "latch" /\ reading'.fault # "none"
        BY <3>3, Failing
      <4> HIDE DEF Adaptive!Fail
      <4> QED BY <2>1, <3>1, <3>3, <4>1
    <3> QED BY <2>3, <3>2, <3>3 DEF Adaptive!Process
  <2> QED BY <2>2, <2>3
<1>16. CASE Adaptive!Latch
  <2> USE <1>16 DEF Adaptive!Latch
  <2>1. Adaptive!TypeOK'
    OBVIOUS
  <2>2. ThreadsTyped'
    OBVIOUS
  <2>3. (PushFits /\ Adaptive!FramesAccounted)'
    OBVIOUS
  <2>4. EstimateOfEpoch'
    OBVIOUS
  <2>5. LatchOnItsWay'
    OBVIOUS
  <2> QED BY <2>1, <2>2, <2>3, <2>4, <2>5
<1>17. CASE Adaptive!PublishFault
  BY <1>17 DEF Adaptive!PublishFault
<1>18. CASE Adaptive!FinishShort
  BY <1>18 DEF Adaptive!FinishShort
<1>19. CASE Adaptive!Finish
  BY <1>19 DEF Adaptive!Finish
<1>20. CASE Adaptive!MarkDistrust
  <2>1. trusted' \in BOOLEAN /\ ~trusted'
    BY <1>20 DEF Adaptive!MarkDistrust
  <2>2. /\ marks' = marks + 1 /\ ctrl' = "bump"
        /\ UNCHANGED <<fill, received, rejected, consumed, epoch, overflows, underflows, health,
                       shape, fault, filling, reading, cache, clock, est, latched, reads>>
    BY <1>20 DEF Adaptive!MarkDistrust
  <2> QED BY <2>1, <2>2
<1>21. CASE Adaptive!MarkBump
  BY <1>21 DEF Adaptive!MarkBump
<1> QED BY <1>1, <1>2, <1>3, <1>4, <1>5, <1>6, <1>7, <1>8, <1>9, <1>10, <1>11, <1>12, <1>13, <1>14, <1>15, <1>16, <1>17, <1>18, <1>19, <1>20, <1>21
        DEF Adaptive!Next, Adaptive!Producer, Adaptive!Consumer, Adaptive!Control

\* The inductive invariant of the adaptive bridge.
THEOREM AdaptiveInvariant == MCSpec => []AdaptiveInv
<1>1. AdaptiveInv /\ [MCNext]_<<focus, vars, adaptiveVars, slipVars>> => AdaptiveInv'
  BY AdaptiveStep, AdaptiveKept
     DEF MCNext, RingMoves, AdaptiveMoves, SlipMoves, BoundReached, adaptiveVars
<1> QED BY <1>1, AdaptiveInit, PTL DEF MCSpec

\* AdaptiveDuplexBridge: every captured frame is in the ring, played or counted
\* as rejected; a refill uses a feed-forward of the epoch it saw only; a latched
\* fault is published before the callback returns.
THEOREM AdaptiveSafety == MCSpec => []AdaptiveSound
<1>1. AdaptiveInv => AdaptiveSound
  BY DEF AdaptiveInv, AdaptiveSound, ThreadsTyped, EstimateOfEpoch, LatchOnItsWay,
         Adaptive!FeedforwardOfEpoch, Adaptive!LatchPublished, Adaptive!At, Adaptive!NoRead,
         Adaptive!Idle
<1> QED BY <1>1, AdaptiveInvariant, PTL

\* AdaptiveDuplexBridge: once a fault is latched, no refill takes a frame and
\* no cached frame is played ("Hard adaptive faults remain muted").
THEOREM AdaptiveLatchFinal == MCSpec => LatchIsFinal
<1> DEFINE Muted == latched => latched' /\ consumed' = consumed /\ cache' = cache
<1>1. ASSUME AdaptiveInv, [MCNext]_<<focus, vars, adaptiveVars, slipVars>>
      PROVE  [Muted]_(Adaptive!vars)
  <2>1. CASE UNCHANGED adaptiveVars
    BY <2>1 DEF adaptiveVars
  <2>2. CASE Adaptive!Next
    <3> SUFFICES ASSUME latched PROVE latched' /\ consumed' = consumed /\ cache' = cache
      OBVIOUS
    <3>1. reading.op \in {"idle", "publish", "finish"}
      BY <1>1 DEF AdaptiveInv, LatchOnItsWay
    <3>2. CASE Adaptive!Producer
      BY <3>2 DEF Adaptive!Producer, Adaptive!PushFormat, Adaptive!PushBegin, Adaptive!Push,
                  Adaptive!PushAccount, Adaptive!PushObserve, Adaptive!ring, Adaptive!private
    <3>3. CASE Adaptive!Control
      BY <3>3 DEF Adaptive!Control, Adaptive!MarkDistrust, Adaptive!MarkBump, Adaptive!ring,
                  Adaptive!private
    <3>4. CASE Adaptive!Consumer
      BY <3>1, <3>4
         DEF Adaptive!Consumer, Adaptive!ReadFormat, Adaptive!ReadBegin, Adaptive!Drain,
             Adaptive!Drained, Adaptive!LoadEpoch, Adaptive!LoadCounts, Adaptive!ObserveClock,
             Adaptive!PublishTrust, Adaptive!UpdateRatio, Adaptive!Pop, Adaptive!Latch,
             Adaptive!PublishFault, Adaptive!FinishShort, Adaptive!Finish, Adaptive!At,
             Adaptive!ring, Adaptive!private
    <3> QED BY <2>2, <3>2, <3>3, <3>4 DEF Adaptive!Next
  <2> QED BY <1>1, <2>1, <2>2
          DEF MCNext, RingMoves, AdaptiveMoves, SlipMoves, BoundReached, adaptiveVars, Adaptive!vars,
              Adaptive!ring, Adaptive!status, Adaptive!private
<1> QED BY <1>1, AdaptiveInvariant, PTL DEF MCSpec, LatchIsFinal, Adaptive!LatchIsFinal

-----------------------------------------------------------------------------
(* The slip bridge.                                                        *)

Statuses ==
  [input : Nat, output : Nat, overflow : Nat, underflows : Nat, consecutive_underflows : Nat,
   consecutive_overflows : Nat, inserted : Nat, removed : Nat, last_correction : Nat,
   health : 0 .. 3, fault : {"None", "InputFormat", "OutputFormat"}, epoch : Nat]

Corrections == {"None", "Insert", "Remove"}

\* What the accounts of a bridge are made of.
SameBooks(s, t) ==
  /\ t.input = s.input /\ t.overflow = s.overflow
  /\ t.inserted = s.inserted /\ t.removed = s.removed

SlipTyped ==
  /\ slipFill \in 0 .. SlipFrames /\ status \in Statuses
  /\ pushing \in [phase : {"none", "room", "pushed"}, frames : Nat, accepted : Nat]
  /\ pushing.accepted <= pushing.frames
  /\ call \in [phase : {"none", "chosen", "rendered"}, frames : Nat, correction : Corrections]
  /\ call.phase # "none" => call.frames \in SlipReads
  /\ history \in [rendered : Nat, lost : Nat]

SlipInv == SlipTyped /\ Slip!SlipsAccounted

\* The larger and the smaller of two numbers.
LEMMA MaxMin ==
  ASSUME NEW a \in Int, NEW b \in Int
  PROVE  /\ Slip!Max({a, b}) = IF a >= b THEN a ELSE b
         /\ Slip!Min({a, b}) = IF a <= b THEN a ELSE b
<1>1. \E x \in {a, b} : \A y \in {a, b} : x >= y
  OBVIOUS
<1>2. \E x \in {a, b} : \A y \in {a, b} : x <= y
  OBVIOUS
<1> QED BY <1>1, <1>2 DEF Slip!Max, Slip!Min

\* Raising the health touches nothing else.
LEMMA RaiseKeeps ==
  ASSUME NEW s \in Statuses, NEW h \in 0 .. 3
  PROVE  Slip!Raise(s, h) \in Statuses /\ SameBooks(s, Slip!Raise(s, h))
<1>1. Slip!Max({s.health, h}) \in 0 .. 3
  BY MaxMin DEF Statuses
<1> QED BY <1>1 DEF Slip!Raise, Statuses, SameBooks

\* What the three observers record leaves the accounts alone.
LEMMA ObserversKeep ==
  ASSUME NEW s \in Statuses, NEW now
  PROVE  /\ Slip!ObserveFill(s, now) \in Statuses /\ SameBooks(s, Slip!ObserveFill(s, now))
         /\ Slip!ObserveCorrection(s) \in Statuses /\ SameBooks(s, Slip!ObserveCorrection(s))
         /\ Slip!ObserveUnderflow(s) \in Statuses /\ SameBooks(s, Slip!ObserveUnderflow(s))
<1> USE DEF Slip!Fatal, Slip!Degraded, Slip!Warning
<1>1. Slip!ObserveFill(s, now) \in Statuses /\ SameBooks(s, Slip!ObserveFill(s, now))
  BY RaiseKeeps DEF Slip!ObserveFill, SameBooks
<1>2. Slip!ObserveCorrection(s) \in Statuses /\ SameBooks(s, Slip!ObserveCorrection(s))
  <2> DEFINE marked == [s EXCEPT !.last_correction = s.output]
  <2>1. marked \in Statuses /\ SameBooks(s, marked)
    BY DEF Statuses, SameBooks
  <2> HIDE DEF marked
  <2>2. /\ Slip!Raise(marked, 2) \in Statuses /\ SameBooks(marked, Slip!Raise(marked, 2))
        /\ Slip!Raise(marked, 1) \in Statuses /\ SameBooks(marked, Slip!Raise(marked, 1))
    BY <2>1, RaiseKeeps
  <2>3. Slip!ObserveCorrection(s) \in {marked, Slip!Raise(marked, 2), Slip!Raise(marked, 1)}
    BY DEF Slip!ObserveCorrection, marked
  <2> QED BY <2>1, <2>2, <2>3 DEF SameBooks
<1>3. Slip!ObserveUnderflow(s) \in Statuses /\ SameBooks(s, Slip!ObserveUnderflow(s))
  <2> DEFINE n == s.consecutive_underflows + 1
             t == [s EXCEPT !.underflows = @ + 1, !.consecutive_underflows = n, !.epoch = @ + 1]
  <2>1. t \in Statuses /\ SameBooks(s, t)
    <3> DEFINE t1 == [s EXCEPT !.underflows = @ + 1]
               t2 == [t1 EXCEPT !.consecutive_underflows = n]
    <3>1. n \in Nat /\ t1 \in Statuses /\ SameBooks(s, t1) /\ t1.epoch = s.epoch
      BY DEF Statuses, SameBooks
    <3> HIDE DEF n, t1
    <3>2. t2 \in Statuses /\ SameBooks(s, t2) /\ t2.epoch = s.epoch
      BY <3>1 DEF Statuses, SameBooks
    <3>3. t = [t2 EXCEPT !.epoch = s.epoch + 1]
      BY DEF n, t1
    <3> HIDE DEF t2, t
    <3> QED BY <3>2, <3>3 DEF Statuses, SameBooks
  <2>2. Slip!ObserveUnderflow(s) \in {t, Slip!Raise(t, 3)}
    BY DEF Slip!ObserveUnderflow
  <2> HIDE DEF t
  <2> QED BY <2>1, <2>2, RaiseKeeps DEF SameBooks
<1> QED BY <1>1, <1>2, <1>3

\* A counted slip is one more inserted or removed frame.
LEMMA SlipsCount ==
  ASSUME NEW s \in Statuses
  PROVE  /\ Slip!InsertSlip(s) \in Statuses /\ Slip!RemoveSlip(s) \in Statuses
         /\ SameBooks([s EXCEPT !.inserted = @ + 1], Slip!InsertSlip(s))
         /\ SameBooks([s EXCEPT !.removed = @ + 1], Slip!RemoveSlip(s))
<1>1. [s EXCEPT !.inserted = @ + 1] \in Statuses /\ [s EXCEPT !.removed = @ + 1] \in Statuses
  BY DEF Statuses
<1> QED BY <1>1, ObserversKeep DEF Slip!InsertSlip, Slip!RemoveSlip

\* The smoothed insertion is never wider than a callback of two frames or more.
LEMMA SmoothBounds ==
  ASSUME NEW n \in Nat \ {0}
  PROVE  /\ Slip!SmoothWindow(n) \in Nat /\ Slip!SmoothWindow(n) >= 2
         /\ n >= 2 => Slip!SmoothWindow(n) <= n
<1> DEFINE requested == IF Transition = "Crossfade" THEN SlipWindow ELSE 2
           inner == Slip!Min({requested, n})
<1>1. requested \in Nat
  BY BridgesAssumption DEF Slip!SlipAssumption
<1>2. inner \in Nat /\ inner <= n
  <2>1. requested \in Int /\ n \in Int
    BY <1>1
  <2> HIDE DEF requested
  <2>2. Slip!Min({requested, n}) = IF requested <= n THEN requested ELSE n
    BY <2>1, MaxMin
  <2> QED BY <1>1, <2>2
<1>3. Slip!Max({inner, 2}) = IF inner >= 2 THEN inner ELSE 2
  BY <1>2, MaxMin
<1>4. Slip!SmoothWindow(n) = Slip!Max({inner, 2})
  BY DEF Slip!SmoothWindow
<1> HIDE DEF inner
<1> QED BY <1>2, <1>3, <1>4

\* What an overflow records counts the rejected frames and moves no other account.
LEMMA OverflowCounts ==
  ASSUME NEW s \in Statuses, NEW r \in Nat
  PROVE  /\ Slip!ObserveOverflow(s, r) \in Statuses
         /\ SameBooks([s EXCEPT !.overflow = @ + r], Slip!ObserveOverflow(s, r))
<1> DEFINE n  == s.consecutive_overflows + 1
           t1 == [s EXCEPT !.overflow = @ + r]
           t2 == [t1 EXCEPT !.consecutive_overflows = n]
           t3 == [t2 EXCEPT !.epoch = @ + 1]
<1>1. n \in Nat /\ t1 \in Statuses
  BY DEF Statuses
<1>2. Slip!ObserveOverflow(s, r) \in {t3, Slip!Raise(t3, 3)}
  BY DEF Slip!ObserveOverflow, Slip!Fatal, Statuses
<1> HIDE DEF n, t1
<1>3. t2 \in Statuses /\ SameBooks(t1, t2)
  BY <1>1 DEF Statuses, SameBooks
<1> HIDE DEF t2
<1>4. t3 \in Statuses /\ SameBooks(t2, t3)
  BY <1>3 DEF Statuses, SameBooks
<1> HIDE DEF t3
<1>5. Slip!Raise(t3, 3) \in Statuses /\ SameBooks(t3, Slip!Raise(t3, 3))
  BY <1>4, RaiseKeeps
<1>6. SameBooks(t1, t3) /\ SameBooks(t1, Slip!Raise(t3, 3))
  BY <1>3, <1>4, <1>5 DEF SameBooks
<1> QED BY <1>2, <1>4, <1>5, <1>6 DEF t1

LEMMA SlipPushBegin ==
  ASSUME SlipInv, NEW frames \in SlipPushes, Slip!PushBegin(frames) PROVE SlipInv'
<1> DEFINE room == SlipFrames - slipFill
           n    == Slip!Accepted(frames)
<1>0. frames \in Nat /\ room \in Nat /\ slipFill \in Nat
  BY BridgesAssumption DEF Slip!SlipAssumption, SlipInv, SlipTyped
<1>1. n \in Nat /\ n <= frames /\ n <= room
  <2>1. n = Slip!Min({frames, room})
    BY DEF Slip!Accepted
  <2>3. frames \in Int /\ room \in Int
    BY <1>0
  <2> HIDE DEF n, room
  <2>2. Slip!Min({frames, room}) = IF frames <= room THEN frames ELSE room
    BY <2>3, MaxMin
  <2> QED BY <1>0, <2>1, <2>2
<1>2. /\ pushing.phase = "none" /\ status' = [status EXCEPT !.input = @ + frames]
      /\ pushing' = [phase |-> "room", frames |-> frames, accepted |-> n]
      /\ UNCHANGED <<slipFill, call, hasLast, history>>
  BY DEF Slip!PushBegin
<1> HIDE DEF n
<1>3. /\ status' \in Statuses /\ status'.input = status.input + frames
      /\ status'.overflow = status.overflow /\ status'.inserted = status.inserted
      /\ status'.removed = status.removed
  BY <1>0, <1>2 DEF SlipInv, SlipTyped, Statuses
<1>4. SlipTyped'
  BY <1>0, <1>1, <1>2, <1>3 DEF SlipInv, SlipTyped
<1>5. Slip!InHand = 0 /\ Slip!InHand' = frames
  BY <1>2 DEF Slip!InHand
<1>6. Slip!SlipsAccounted'
  <2>1. /\ status.input \in Nat /\ status.overflow \in Nat /\ status.inserted \in Nat
        /\ status.removed \in Nat /\ history.rendered \in Nat /\ history.lost \in Nat
    BY DEF SlipInv, SlipTyped, Statuses
  <2>2. slipFill' = slipFill /\ history' = history /\ pushing'.accepted = n
    BY <1>2
  <2>3. slipFill + n <= SlipFrames
    BY <1>0, <1>1, BridgesAssumption DEF Slip!SlipAssumption
  <2>4. /\ status.input = Slip!InHand + status.overflow + slipFill + history.rendered
                            - status.inserted + status.removed + history.lost
        /\ history.lost > 0 => \E k \in SlipReads : k <= Slip!SmoothWindow(k)
    BY DEF SlipInv, Slip!SlipsAccounted
  <2>5. status'.input = Slip!InHand' + status'.overflow + slipFill' + history'.rendered
                          - status'.inserted + status'.removed + history'.lost
    BY ONLY <1>0, <1>3, <1>5, <2>1, <2>2, <2>4
  <2> QED BY <2>2, <2>3, <2>4, <2>5 DEF Slip!SlipsAccounted
<1> QED BY <1>4, <1>6 DEF SlipInv

LEMMA SlipPushRing == ASSUME SlipInv, Slip!PushRing PROVE SlipInv'
<1>1. /\ pushing.phase = "room" /\ slipFill' = slipFill + pushing.accepted
      /\ pushing' = [pushing EXCEPT !.phase = "pushed"]
      /\ UNCHANGED <<status, call, hasLast, history>>
  BY DEF Slip!PushRing
<1>2. SlipTyped'
  BY <1>1, BridgesAssumption
     DEF SlipInv, SlipTyped, Slip!SlipsAccounted, Slip!SlipAssumption
<1>3. Slip!InHand = pushing.frames /\ Slip!InHand' = pushing.frames - pushing.accepted
      /\ pushing'.phase = "pushed"
  BY <1>1 DEF SlipInv, SlipTyped, Slip!InHand
<1>4. Slip!SlipsAccounted'
  BY <1>1, <1>3 DEF SlipInv, SlipTyped, Slip!SlipsAccounted, Statuses
<1> QED BY <1>2, <1>4 DEF SlipInv

LEMMA SlipPushCount == ASSUME SlipInv, Slip!PushCount PROVE SlipInv'
<1> DEFINE surplus == pushing.frames - pushing.accepted
           counted  == IF surplus > 0 THEN Slip!ObserveOverflow(status, surplus)
                       ELSE [status EXCEPT !.consecutive_overflows = 0]
<1>1. /\ pushing.phase = "pushed" /\ pushing' = Slip!NoPush
      /\ status' = Slip!ObserveFill(counted, slipFill)
      /\ UNCHANGED <<slipFill, call, hasLast, history>>
  BY DEF Slip!PushCount
<1>2. surplus \in Nat
  BY DEF SlipInv, SlipTyped
<1>3. /\ counted \in Statuses /\ counted.input = status.input
      /\ counted.overflow = status.overflow + surplus
      /\ counted.inserted = status.inserted /\ counted.removed = status.removed
  <2>0. status \in Statuses
    BY DEF SlipInv, SlipTyped
  <2>1. CASE surplus > 0
    <3> HIDE DEF surplus
    <3> DEFINE added == [status EXCEPT !.overflow = @ + surplus]
    <3>1. added.input = status.input /\ added.overflow = status.overflow + surplus
          /\ added.inserted = status.inserted /\ added.removed = status.removed
      BY <2>0 DEF Statuses
    <3>2. counted \in Statuses /\ SameBooks(added, counted)
      BY <1>2, <2>0, <2>1, OverflowCounts
    <3> QED BY <3>1, <3>2 DEF SameBooks
  <2>2. CASE ~(surplus > 0)
    <3> HIDE DEF surplus
    <3>1. surplus = 0 /\ counted = [status EXCEPT !.consecutive_overflows = 0]
      BY <1>2, <2>2
    <3> QED BY <2>0, <3>1 DEF Statuses
  <2> QED BY <2>1, <2>2
<1> HIDE DEF counted
<1>4. status' \in Statuses /\ SameBooks(counted, status')
  BY <1>1, <1>3, ObserversKeep
<1>5. Slip!InHand = surplus /\ Slip!InHand' = 0 /\ pushing'.phase = "none"
  BY <1>1 DEF Slip!InHand, Slip!NoPush
<1>6. SlipTyped'
  BY <1>1, <1>4 DEF SlipInv, SlipTyped, Slip!NoPush
<1> HIDE DEF surplus
<1>7. Slip!SlipsAccounted'
  BY <1>1, <1>2, <1>3, <1>4, <1>5 DEF SlipInv, SlipTyped, Slip!SlipsAccounted, SameBooks, Statuses
<1> QED BY <1>6, <1>7 DEF SlipInv

LEMMA SlipReadBegin ==
  ASSUME SlipInv, NEW frames \in SlipReads, NEW crossing \in BOOLEAN, Slip!ReadBegin(frames, crossing)
  PROVE  SlipInv'
<1> DEFINE chosen == Slip!SelectCorrection(frames)
<1>0. frames \in Nat
  BY BridgesAssumption DEF Slip!SlipAssumption
<1>1. chosen \in Corrections
  BY DEF Slip!SelectCorrection, Corrections
<1>2. /\ status' = [status EXCEPT !.output = @ + frames]
      /\ call' = [phase |-> "chosen", frames |-> frames,
                  correction |-> IF Slip!Suppressed(chosen, crossing) THEN "None" ELSE chosen]
      /\ UNCHANGED <<slipFill, pushing, hasLast, history>>
  BY DEF Slip!ReadBegin
<1> HIDE DEF chosen
<1>3. status' \in Statuses /\ SameBooks(status, status')
  BY <1>0, <1>2 DEF SlipInv, SlipTyped, Statuses, SameBooks
<1>4. /\ call' \in [phase : {"none", "chosen", "rendered"}, frames : Nat, correction : Corrections]
      /\ call'.frames = frames
  BY <1>0, <1>1, <1>2 DEF Corrections
<1> QED BY <1>2, <1>3, <1>4 DEF SlipInv, SlipTyped, Slip!SlipsAccounted, SameBooks, Slip!InHand

\* A callback of the wrong shape changes no account.
LEMMA SlipWrongShape ==
  ASSUME SlipInv, Slip!PushWrongShape \/ Slip!ReadWrongShape PROVE SlipInv'
<1>1. PICK f \in {"InputFormat", "OutputFormat"} : status' = [status EXCEPT !.fault = f, !.epoch = @ + 1]
  BY DEF Slip!PushWrongShape, Slip!ReadWrongShape, Slip!WrongShape
<1>2. UNCHANGED <<slipFill, pushing, call, hasLast, history>>
  BY DEF Slip!PushWrongShape, Slip!ReadWrongShape
<1> DEFINE marked == [status EXCEPT !.fault = f]
<1>3. marked \in Statuses /\ SameBooks(status, marked)
  BY DEF SlipInv, SlipTyped, Statuses, SameBooks
<1>4. status' = [marked EXCEPT !.epoch = @ + 1]
  BY <1>1 DEF SlipInv, SlipTyped, Statuses
<1> HIDE DEF marked
<1>5. status' \in Statuses /\ SameBooks(marked, status')
  BY <1>3, <1>4 DEF Statuses, SameBooks
<1> QED BY <1>2, <1>3, <1>5 DEF SlipInv, SlipTyped, Slip!SlipsAccounted, SameBooks, Slip!InHand

\* The fill that a read observes last only raises the health.
LEMMA SlipReadObserve == ASSUME SlipInv, Slip!ReadObserve PROVE SlipInv'
<1>1. /\ status' = Slip!ObserveFill(status, slipFill) /\ call' = Slip!NoCall
      /\ UNCHANGED <<slipFill, pushing, hasLast, history>>
  BY DEF Slip!ReadObserve
<1>2. status' \in Statuses /\ SameBooks(status, status')
  BY <1>1, ObserversKeep DEF SlipInv, SlipTyped
<1>3. /\ call' \in [phase : {"none", "chosen", "rendered"}, frames : Nat, correction : Corrections]
      /\ call'.phase = "none"
  BY <1>1 DEF Slip!NoCall, Corrections
<1> QED BY <1>1, <1>2, <1>3 DEF SlipInv, SlipTyped, Slip!SlipsAccounted, SameBooks, Slip!InHand

LEMMA SlipReadEnd == ASSUME SlipInv, Slip!ReadEnd PROVE SlipInv'
<1> DEFINE used   == Slip!Consumed(call.frames, call.correction)
           settled == [status EXCEPT !.consecutive_underflows = 0]
           slipped == CASE call.correction = "None" -> settled
                        [] call.correction = "Insert" -> Slip!InsertSlip(settled)
                        [] call.correction = "Remove" -> Slip!RemoveSlip(settled)
           width   == Slip!SmoothWindow(call.frames)
<1>0. /\ call.phase = "chosen" /\ call' = [call EXCEPT !.phase = "rendered"]
      /\ call.frames \in SlipReads /\ UNCHANGED pushing
      /\ call.frames \in Nat \ {0} /\ call.correction \in Corrections
      /\ call' \in [phase : {"none", "chosen", "rendered"}, frames : Nat, correction : Corrections]
      /\ call'.frames = call.frames
  BY BridgesAssumption DEF Slip!ReadEnd, SlipInv, SlipTyped, Slip!SlipAssumption, Corrections
<1>1. /\ used \in Nat
      /\ call.correction = "None" => used = call.frames
      /\ call.correction = "Insert" => used = call.frames - 1
      /\ call.correction = "Remove" => used = call.frames + 1
  BY <1>0 DEF Slip!Consumed, Corrections
<1>2. settled \in Statuses /\ SameBooks(status, settled)
  BY DEF SlipInv, SlipTyped, Statuses, SameBooks
<1>3. width \in Nat /\ width >= 2 /\ (call.frames >= 2 => width <= call.frames)
  BY <1>0, SmoothBounds
<1>9. Slip!InHand' = Slip!InHand /\ Slip!InHand \in Nat
  BY <1>0 DEF Slip!InHand, SlipInv, SlipTyped
<1> HIDE DEF used, width
<1>4. CASE slipFill < used /\ slipFill' = slipFill /\ UNCHANGED <<hasLast, history>>
           /\ status' = Slip!ObserveUnderflow(status)
  <2>1. status' \in Statuses /\ SameBooks(status, status')
    BY <1>4, ObserversKeep DEF SlipInv, SlipTyped
  <2> QED BY <1>0, <1>4, <2>1
          DEF SlipInv, SlipTyped, Slip!SlipsAccounted, SameBooks, Slip!InHand
<1>5. CASE /\ slipFill >= used /\ call.correction = "Insert" /\ Slip!InsertionFails(call.frames)
           /\ slipFill' = slipFill - (width - 2)
           /\ history' = [history EXCEPT !.lost = @ + width - 2]
           /\ status' = Slip!ObserveUnderflow(status)
  <2>1. status' \in Statuses /\ SameBooks(status, status')
    BY <1>5, ObserversKeep DEF SlipInv, SlipTyped
  <2>2. call.frames >= 2 /\ width > slipFill /\ width >= call.frames /\ width <= call.frames
    BY <1>0, <1>1, <1>3, <1>5 DEF Slip!InsertionFails, SlipInv, SlipTyped, width
  <2>3. \E n \in SlipReads : n <= Slip!SmoothWindow(n)
    BY <1>0, <2>2 DEF width
  <2>4. slipFill' \in 0 .. SlipFrames
    BY <1>0, <1>1, <1>3, <1>5, <2>2, BridgesAssumption DEF SlipInv, SlipTyped, Slip!SlipAssumption
  <2>5. /\ history' \in [rendered : Nat, lost : Nat] /\ history'.rendered = history.rendered
        /\ history'.lost = history.lost + width - 2
    BY <1>3, <1>5 DEF SlipInv, SlipTyped
  <2>6. SlipTyped'
    BY <1>0, <2>1, <2>4, <2>5 DEF SlipInv, SlipTyped
  <2>7. Slip!SlipsAccounted'
    <3>1. /\ status'.input = status.input /\ status'.overflow = status.overflow
          /\ status'.inserted = status.inserted /\ status'.removed = status.removed
      BY <2>1 DEF SameBooks
    <3>2. /\ status.input \in Nat /\ status.overflow \in Nat /\ status.inserted \in Nat
          /\ status.removed \in Nat /\ slipFill \in Nat /\ pushing.accepted \in Nat
          /\ history.rendered \in Nat /\ history.lost \in Nat
      BY BridgesAssumption DEF SlipInv, SlipTyped, Statuses, Slip!SlipAssumption
    <3>3. slipFill' = slipFill - (width - 2)
      BY <1>5
    <3>4. /\ status.input = Slip!InHand + status.overflow + slipFill + history.rendered
                              - status.inserted + status.removed + history.lost
          /\ pushing.phase = "room" => slipFill + pushing.accepted <= SlipFrames
      BY DEF SlipInv, Slip!SlipsAccounted
    <3>5. status'.input = Slip!InHand' + status'.overflow + slipFill' + history'.rendered
                            - status'.inserted + status'.removed + history'.lost
      BY ONLY <1>3, <1>9, <2>5, <3>1, <3>2, <3>3, <3>4
    <3>6. (pushing.phase = "room" => slipFill + pushing.accepted <= SlipFrames)'
      <4>1. pushing' = pushing /\ SlipFrames \in Nat
        BY <1>0, BridgesAssumption DEF Slip!SlipAssumption
      <4> QED BY ONLY <1>3, <3>2, <3>3, <3>4, <4>1
    <3> QED BY <2>3, <3>5, <3>6 DEF Slip!SlipsAccounted
  <2> QED BY <2>6, <2>7 DEF SlipInv
<1>6. CASE slipFill >= used /\ Slip!Rendered(used) /\ status' = slipped
  <2>1. /\ slipped \in Statuses
        /\ slipped.input = status.input /\ slipped.overflow = status.overflow
        /\ call.correction = "None" => slipped.inserted = status.inserted /\ slipped.removed = status.removed
        /\ call.correction = "Insert" => slipped.inserted = status.inserted + 1 /\ slipped.removed = status.removed
        /\ call.correction = "Remove" => slipped.inserted = status.inserted /\ slipped.removed = status.removed + 1
    <3> HIDE DEF settled
    <3>1. /\ Slip!InsertSlip(settled) \in Statuses /\ Slip!RemoveSlip(settled) \in Statuses
          /\ SameBooks([settled EXCEPT !.inserted = @ + 1], Slip!InsertSlip(settled))
          /\ SameBooks([settled EXCEPT !.removed = @ + 1], Slip!RemoveSlip(settled))
      BY <1>2, SlipsCount
    <3>2. CASE call.correction = "None"
      BY <1>2, <3>2 DEF SameBooks
    <3>3. CASE call.correction = "Insert"
      BY <1>2, <3>1, <3>3 DEF SameBooks, Statuses
    <3>4. CASE call.correction = "Remove"
      BY <1>2, <3>1, <3>4 DEF SameBooks, Statuses
    <3> QED BY <1>0, <3>2, <3>3, <3>4 DEF Corrections
  <2> HIDE DEF slipped
  <2>2. status' \in Statuses /\ SameBooks(slipped, status')
    BY <1>6, <2>1 DEF SameBooks
  <2>3. /\ slipFill' = slipFill - used
        /\ history' \in [rendered : Nat, lost : Nat] /\ history'.lost = history.lost
        /\ history'.rendered = history.rendered + call.frames
    BY <1>0, <1>6 DEF Slip!Rendered, SlipInv, SlipTyped
  <2>4. slipFill' \in 0 .. SlipFrames
    BY <1>1, <1>6, <2>3, BridgesAssumption DEF SlipInv, SlipTyped, Slip!SlipAssumption
  <2>5. SlipTyped'
    BY <1>0, <2>2, <2>3, <2>4 DEF SlipInv, SlipTyped
  <2>6. Slip!SlipsAccounted'
    <3>1. /\ status'.input = status.input /\ status'.overflow = status.overflow
          /\ status'.inserted = slipped.inserted /\ status'.removed = slipped.removed
      BY <2>1, <2>2 DEF SameBooks
    <3>2. /\ status.input \in Nat /\ status.overflow \in Nat /\ status.inserted \in Nat
          /\ status.removed \in Nat /\ slipFill \in Nat
          /\ history.rendered \in Nat /\ history.lost \in Nat
      BY BridgesAssumption DEF SlipInv, SlipTyped, Statuses, Slip!SlipAssumption
    <3>3. used + slipped.inserted - slipped.removed
            = call.frames + status.inserted - status.removed /\ slipped.inserted \in Nat
              /\ slipped.removed \in Nat
      BY <1>0, <1>1, <2>1, <3>2 DEF Corrections
    <3>4. status.input = Slip!InHand + status.overflow + slipFill + history.rendered - status.inserted
                           + status.removed + history.lost
      BY DEF SlipInv, Slip!SlipsAccounted
    <3>5. status'.input = Slip!InHand' + status'.overflow + slipFill' + history'.rendered - status'.inserted
                            + status'.removed + history'.lost
      <4>1. /\ slipFill' = slipFill - used /\ history'.lost = history.lost
            /\ history'.rendered = history.rendered + call.frames
            /\ used \in Nat /\ call.frames \in Nat
        BY <1>0, <1>1, <2>3
      <4>2. slipFill' + history'.rendered - status'.inserted + status'.removed
              = slipFill + history.rendered - status.inserted + status.removed
        BY ONLY <3>1, <3>2, <3>3, <4>1
      <4> QED BY ONLY <1>9, <3>1, <3>2, <3>3, <3>4, <4>1, <4>2
    <3>6. history'.lost > 0 => \E n \in SlipReads : n <= Slip!SmoothWindow(n)
      BY <2>3 DEF SlipInv, Slip!SlipsAccounted
    <3>7. (pushing.phase = "room" => slipFill + pushing.accepted <= SlipFrames)'
      <4>1. pushing' = pushing /\ pushing.accepted \in Nat /\ SlipFrames \in Nat /\ used \in Nat
            /\ slipFill' = slipFill - used
        BY <1>0, <1>1, <2>3, BridgesAssumption DEF SlipInv, SlipTyped, Slip!SlipAssumption
      <4>2. pushing.phase = "room" => slipFill + pushing.accepted <= SlipFrames
        BY DEF SlipInv, Slip!SlipsAccounted
      <4> QED BY ONLY <3>2, <4>1, <4>2
    <3> QED BY <3>5, <3>6, <3>7 DEF Slip!SlipsAccounted
  <2> QED BY <2>5, <2>6 DEF SlipInv
<1> QED BY <1>4, <1>5, <1>6 DEF Slip!ReadEnd, used, width

\* DuplexBridge: for any capacity, target, policy, window and callback sizes,
\* every received frame is in the ring, in the hand of the input callback, rejected
\* or rendered, up to the counted slips, what a push found room for fits, and frames
\* are lost otherwise only by a transition as wide as a callback.
THEOREM SlipSafety == MCSpec => []SlipsAccounted
<1>1. MCInit => SlipInv
  BY BridgesAssumption
     DEF MCInit, Slip!Init, SlipInv, SlipTyped, Slip!SlipsAccounted, Slip!SlipAssumption, Statuses,
         Corrections, Slip!NoCall, Slip!NoPush, Slip!InHand, Slip!Normal
<1>2. SlipInv /\ UNCHANGED slipVars => SlipInv'
  BY DEF SlipInv, SlipTyped, Slip!SlipsAccounted, Slip!InHand, slipVars
<1>3. SlipInv /\ Slip!Next => SlipInv'
  BY SlipPushBegin, SlipPushRing, SlipPushCount, SlipReadBegin, SlipReadEnd, SlipReadObserve,
     SlipWrongShape DEF Slip!Next
<1>4. SlipInv /\ [MCNext]_<<focus, vars, adaptiveVars, slipVars>> => SlipInv'
  BY <1>2, <1>3 DEF MCNext, RingMoves, AdaptiveMoves, SlipMoves, BoundReached
<1>5. SlipInv => SlipsAccounted
  BY DEF SlipInv, SlipsAccounted
<1> QED BY <1>1, <1>4, <1>5, PTL DEF MCSpec
-----------------------------------------------------------------------------
(* The sample ring below both: type correctness, the inductive bound on    *)
(* the two calls in progress, the disjointness of their slot accesses, and *)
(* the refinement of the atomic bounded FIFO, step by step.                *)

\* A nonzero multiple of m is at least m away from zero.
LEMMA Multiples ==
  ASSUME NEW m \in Nat \ {0}, NEW z \in Int, 0 < m * z, m * z < m
  PROVE  FALSE
<1>1. CASE z <= 0
  BY <1>1
<1>2. CASE z >= 1
  <2>1. m * z = m + m * (z - 1)
    BY <1>2
  <2>2. m * (z - 1) >= 0
    BY <1>2
  <2> QED BY <2>1, <2>2
<1> QED BY <1>1, <1>2

\* Quotient and remainder by a positive m.
LEMMA DivMod ==
  ASSUME NEW m \in Nat \ {0}, NEW a \in Int
  PROVE  /\ a \div m \in Int /\ a % m \in 0 .. m - 1
         /\ a = m * (a \div m) + (a % m)
OBVIOUS

\* Two numbers that differ by a multiple of m less d, 0 < d < m, have
\* different remainders.
LEMMA ModDistinct ==
  ASSUME NEW m \in Nat \ {0}, NEW a \in Int, NEW b \in Int, NEW k \in Int,
         NEW d \in 1 .. m - 1, a - b = m * k - d
  PROVE  a % m # b % m
<1> SUFFICES ASSUME a % m = b % m PROVE FALSE
  OBVIOUS
<1> DEFINE qa == a \div m
           qb == b \div m
<1>1. qa \in Int /\ qb \in Int
  BY DivMod
<1>2. a = m * qa + (a % m) /\ b = m * qb + (b % m)
  BY DivMod
<1>3. a % m \in Int
  BY DivMod
<1> HIDE DEF qa, qb
<1>4. m * k - d = m * qa - m * qb
  BY <1>1, <1>2, <1>3
<1>5. d = m * (k - qa + qb)
  <2>1. m * (k - qa + qb) = m * k - m * qa + m * qb
    BY <1>1
  <2>2. m * k \in Int /\ m * qa \in Int /\ m * qb \in Int
    BY <1>1
  <2> QED BY <1>1, <1>4, <2>1, <2>2
<1>6. k - qa + qb \in Int
  BY <1>1
<1> QED BY <1>5, <1>6, Multiples

\* What a wrapping word addition or subtraction returns when it wraps at
\* most once (usize::wrapping_add, usize::wrapping_sub).
LEMMA WrapOf ==
  ASSUME NEW x \in Int
  PROVE  /\ Wrap(x) \in Word
         /\ 0 <= x /\ x < Modulus => Wrap(x) = x
         /\ Modulus <= x /\ x < 2 * Modulus => Wrap(x) = x - Modulus
         /\ -Modulus <= x /\ x < 0 => Wrap(x) = x + Modulus
<1> Modulus \in Nat \ {0}
  BY RingAssumption
<1> DEFINE q == x \div Modulus
           r == x % Modulus
<1>1. q \in Int /\ r \in 0 .. Modulus - 1 /\ x = Modulus * q + r
  BY DivMod
<1> QED BY <1>1 DEF Wrap, Word

-----------------------------------------------------------------------------
\* A thread without a call in progress holds no block.
IdleCalls ==
  /\ prod.op = Idle => prod = NoCall
  /\ cons.op = Idle => cons = NoTake

\* The inductive invariant.
IInv == TypeOK /\ IdleCalls /\ CallsFit

\* How the published length moves when one index advances by n.
LEMMA Advance ==
  ASSUME NEW h \in Word, NEW t \in Word, NEW n \in Nat, n < Modulus
  PROVE  /\ Wrap(h - t) + n < Modulus => Wrap(Wrap(h + n) - t) = Wrap(h - t) + n
         /\ n <= Wrap(h - t) => Wrap(h - Wrap(t + n)) = Wrap(h - t) - n
<1> USE RingAssumption DEF Word
<1>1. h \in Int /\ t \in Int /\ 0 <= h /\ h < Modulus /\ 0 <= t /\ t < Modulus /\ Modulus \in Nat
  OBVIOUS
<1>2. Wrap(h - t) = IF h >= t THEN h - t ELSE h - t + Modulus
  BY <1>1, WrapOf
<1>3. Wrap(h + n) = IF h + n < Modulus THEN h + n ELSE h + n - Modulus
  BY <1>1, WrapOf
<1>4. Wrap(t + n) = IF t + n < Modulus THEN t + n ELSE t + n - Modulus
  BY <1>1, WrapOf
<1>5. ASSUME NEW x \in Word, NEW y \in Word
      PROVE  Wrap(x - y) = IF x >= y THEN x - y ELSE x - y + Modulus
  BY <1>5, WrapOf
<1>6. Wrap(Wrap(h + n) - t) = IF Wrap(h + n) >= t THEN Wrap(h + n) - t ELSE Wrap(h + n) - t + Modulus
  BY <1>5, WrapOf, <1>1
<1>7. Wrap(h - Wrap(t + n)) = IF h >= Wrap(t + n) THEN h - Wrap(t + n) ELSE h - Wrap(t + n) + Modulus
  BY <1>5, WrapOf, <1>1
<1> HIDE DEF Wrap
<1> QED BY <1>1, <1>2, <1>3, <1>4, <1>6, <1>7

\* The published length is a natural number.
LEMMA UsedInNat == ASSUME head \in Word, tail \in Word PROVE Used \in Nat
<1>1. head - tail \in Int /\ RingAssumption
  BY RingAssumption DEF Word
<1> QED BY <1>1, WrapOf DEF Used, Word

\* Every word addresses a cell of the ring.
LEMMA SlotOfInSlot == ASSUME NEW x \in Int PROVE SlotOf(x) \in Slot
<1>1. Wrap(x) \in Int /\ Cap \in Nat \ {0}
  BY WrapOf, RingAssumption DEF Word
<1> QED BY <1>1, DivMod DEF SlotOf, Slot

\* The empty ring satisfies the inductive invariant.
LEMMA InitIInv == Init => IInv
<1> SUFFICES ASSUME Init PROVE IInv
  OBVIOUS
<1>1. Used = 0
  BY WrapOf, RingAssumption DEF Init, Used
<1>2. IdleCalls
  BY DEF Init, IdleCalls
<1>3. TypeOK
  BY RingAssumption DEF Init, TypeOK, NoCall, NoTake, Word
<1>4. CallsFit
  BY <1>1, RingAssumption DEF Init, CallsFit, NoCall, NoTake
<1> QED BY <1>2, <1>3, <1>4 DEF IInv

\* A push that passed the capacity check fits.
LEMMA PushBeginStep == ASSUME IInv, PushBegin PROVE IInv'
<1>1. PICK block \in Blocks :
        Fits(Len(block)) /\ prod' = [op |-> "push", block |-> block, done |-> 0]
  BY DEF PushBegin
<1>2. block \in Seq(Sample) /\ Len(block) \in Nat
  BY DEF Blocks
<1>3. UNCHANGED <<slots, head, tail, cons, pushed, taken>>
  BY DEF PushBegin
<1>4. Used' = Used /\ Used \in Nat
  BY <1>3, UsedInNat DEF Used, IInv, TypeOK
<1>5. CallsFit'
  BY <1>1, <1>2, <1>3, <1>4, RingAssumption DEF Fits, CallsFit, IInv
<1>6. IdleCalls'
  BY <1>1, <1>3 DEF Idle, IInv, IdleCalls
<1>7. TypeOK'
  BY <1>1, <1>2, <1>3 DEF IInv, TypeOK
<1> QED BY <1>5, <1>6, <1>7 DEF IInv

\* Writing one cell keeps the invariant.
LEMMA PushWriteStep == ASSUME IInv, PushWrite PROVE IInv'
<1>1. prod' = [op |-> "push", block |-> prod.block, done |-> prod.done + 1]
  BY DEF PushWrite, IInv, TypeOK
<1>2. /\ prod.block \in Seq(Sample) /\ prod.done + 1 \in 1 .. Len(prod.block)
      /\ prod.block[prod.done + 1] \in Sample
  BY DEF PushWrite, IInv, TypeOK
<1>3. UNCHANGED <<head, tail, cons, pushed, taken>>
  BY DEF PushWrite
<1>4. Used' = Used
  BY <1>3 DEF Used
<1>5. CallsFit'
  BY <1>1, <1>3, <1>4 DEF CallsFit, IInv
<1>6. IdleCalls'
  BY <1>1, <1>3 DEF Idle, IInv, IdleCalls
<1>7. slots' \in [Slot -> Sample]
  BY <1>2 DEF PushWrite, IInv, TypeOK
<1>8. TypeOK'
  BY <1>1, <1>2, <1>3, <1>7 DEF IInv, TypeOK
<1> QED BY <1>5, <1>6, <1>8 DEF IInv

\* Publishing a block grows the published part by the block.
LEMMA PushPublishStep == ASSUME IInv, PushPublish PROVE IInv'
<1>1. /\ prod.block \in Seq(Sample) /\ Len(prod.block) \in Nat
      /\ cons.want \in Nat /\ Used \in Nat /\ head \in Word /\ tail \in Word
  BY UsedInNat DEF IInv, TypeOK
<1>2. UNCHANGED <<slots, tail, cons, taken>> /\ prod' = NoCall
  BY DEF PushPublish
<1>3. head' = Wrap(head + Len(prod.block)) /\ head' \in Word
  <2>1. head + Len(prod.block) \in Int
    BY <1>1 DEF Word
  <2> QED BY <2>1, WrapOf DEF PushPublish
<1>4. Used + Len(prod.block) <= Cap /\ cons.want <= Used
  BY DEF IInv, CallsFit
<1>5. Used' = Used + Len(prod.block)
  BY <1>1, <1>2, <1>3, <1>4, Advance, RingAssumption DEF Used
<1>6. CallsFit'
  BY <1>1, <1>2, <1>4, <1>5, RingAssumption DEF CallsFit, NoCall
<1>7. IdleCalls'
  BY <1>2 DEF IInv, IdleCalls
<1>8. pushed' \in [ok : BOOLEAN, block : Seq(Sample)]
  BY <1>1 DEF PushPublish
<1>9. TypeOK'
  BY <1>2, <1>3, <1>8 DEF NoCall, IInv, TypeOK
<1> QED BY <1>6, <1>7, <1>9 DEF IInv

\* A consumer call that passed the length check fits.
LEMMA TakeBeginStep == ASSUME IInv, TakeBegin PROVE IInv'
<1>1. PICK op \in {"pop", "peek", "discard"}, n \in 1..MaxBlock :
        n <= Used /\ cons' = [op |-> op, want |-> n, out |-> <<>>]
  BY DEF TakeBegin
<1>2. UNCHANGED <<slots, head, tail, prod, pushed, taken>>
  BY DEF TakeBegin
<1>3. Used' = Used
  BY <1>2 DEF Used
<1>4. CallsFit'
  BY <1>1, <1>2, <1>3 DEF CallsFit, IInv
<1>5. IdleCalls'
  BY <1>1, <1>2 DEF Idle, IInv, IdleCalls
<1>6. TypeOK'
  BY <1>1, <1>2, RingAssumption DEF IInv, TypeOK
<1> QED BY <1>4, <1>5, <1>6 DEF IInv

\* Reading one cell keeps the invariant.
LEMMA TakeReadStep == ASSUME IInv, TakeRead PROVE IInv'
<1>1. PICK s \in Sample : s = slots[SlotOf(tail + Len(cons.out))]
  BY SlotOfInSlot DEF IInv, TypeOK, Word
<1>2. cons' = [op |-> cons.op, want |-> cons.want, out |-> Append(cons.out, s)]
  BY <1>1 DEF TakeRead, IInv, TypeOK
<1>3. /\ Append(cons.out, s) \in Seq(Sample) /\ Len(Append(cons.out, s)) <= cons.want
      /\ cons.op \in {"pop", "peek"}
  BY DEF TakeRead, IInv, TypeOK
<1>4. UNCHANGED <<slots, head, tail, prod, pushed, taken>>
  BY DEF TakeRead
<1>5. Used' = Used
  BY <1>4 DEF Used
<1>6. CallsFit'
  BY <1>2, <1>4, <1>5 DEF CallsFit, IInv
<1>7. IdleCalls'
  BY <1>2, <1>3, <1>4 DEF Idle, IInv, IdleCalls
<1>8. cons' \in [op : {Idle, "pop", "peek", "discard"}, want : Nat, out : Seq(Sample)]
  BY <1>2, <1>3 DEF IInv, TypeOK
<1>9. TypeOK'
  BY <1>2, <1>3, <1>4, <1>8 DEF IInv, TypeOK
<1> QED BY <1>6, <1>7, <1>9 DEF IInv

\* Releasing cells shrinks the published part by what was taken.
LEMMA TakeFinishStep == ASSUME IInv, TakeFinish PROVE IInv'
<1>1. /\ Len(prod.block) \in Nat /\ cons.want \in Nat /\ cons.out \in Seq(Sample)
      /\ Used \in Nat /\ head \in Word /\ tail \in Word
  BY UsedInNat DEF IInv, TypeOK
<1>2. UNCHANGED <<slots, head, prod, pushed>> /\ cons' = NoTake
  BY DEF TakeFinish
<1>3. /\ tail' = IF cons.op = "peek" THEN tail ELSE Wrap(tail + cons.want)
      /\ tail' \in Word
  <2>1. tail + cons.want \in Int
    BY <1>1 DEF Word
  <2> QED BY <1>1, <2>1, WrapOf DEF TakeFinish
<1>4. Used + Len(prod.block) <= Cap /\ cons.want <= Used
  BY DEF IInv, CallsFit
<1>5. Used' = IF cons.op = "peek" THEN Used ELSE Used - cons.want
  BY <1>1, <1>2, <1>3, <1>4, Advance, RingAssumption DEF Used
<1>6. CallsFit'
  <2>1. prod' = prod /\ cons'.want = 0
    BY <1>2 DEF NoTake
  <2>2. Used' + Len(prod.block) <= Cap /\ 0 <= Used'
    BY <1>1, <1>4, <1>5, RingAssumption
  <2> QED BY <2>1, <2>2 DEF CallsFit
<1>7. IdleCalls'
  BY <1>2 DEF IInv, IdleCalls
<1>8. taken' \in [ok : BOOLEAN, out : Seq(Sample)]
  BY <1>1 DEF TakeFinish
<1>9. TypeOK'
  BY <1>2, <1>3, <1>8 DEF NoTake, IInv, TypeOK
<1> QED BY <1>6, <1>7, <1>9 DEF IInv

\* A refused call changes neither the cells nor the indices.
LEMMA RefusedStep == ASSUME IInv, PushRefused \/ TakeRefused \/ UNCHANGED vars PROVE IInv'
<1>1. UNCHANGED <<slots, head, tail, prod, cons>>
  BY DEF PushRefused, TakeRefused, vars
<1>2. <<>> \in Seq(Sample)
  OBVIOUS
<1>3. pushed' \in [ok : BOOLEAN, block : Seq(Sample)]
  <2>1. CASE pushed' = [ok |-> FALSE, block |-> <<>>]
    BY <1>2, <2>1
  <2>2. CASE pushed' = pushed
    BY <2>2 DEF IInv, TypeOK
  <2> QED BY <2>1, <2>2 DEF PushRefused, TakeRefused, vars
<1>4. taken' \in [ok : BOOLEAN, out : Seq(Sample)]
  <2>1. CASE taken' = [ok |-> FALSE, out |-> <<>>]
    BY <1>2, <2>1
  <2>2. CASE taken' = taken
    BY <2>2 DEF IInv, TypeOK
  <2> QED BY <2>1, <2>2 DEF PushRefused, TakeRefused, vars
<1>5. IdleCalls'
  BY <1>1 DEF IInv, IdleCalls
<1>6. TypeOK'
  BY <1>1, <1>3, <1>4 DEF IInv, TypeOK
<1>7. CallsFit'
  BY <1>1 DEF IInv, CallsFit, Used
<1> QED BY <1>5, <1>6, <1>7 DEF IInv

\* Every step of either thread keeps the invariant.
LEMMA NextIInv == IInv /\ [Next]_vars => IInv'
BY PushBeginStep, PushWriteStep, PushPublishStep, TakeBeginStep, TakeReadStep,
   TakeFinishStep, RefusedStep DEF Next, Producer, Consumer

\* Where the capacity divides the range of the word, positions less than
\* a capacity apart address different cells, across the wrap too.
LEMMA SlotsDistinct ==
  ASSUME NEW k \in Nat, Modulus = Cap * k,
         NEW t \in Word, NEW i \in Nat, NEW j \in Nat, i < j, j < Cap
  PROVE  SlotOf(t + i) # SlotOf(t + j)
<1> USE RingAssumption DEF Word
<1> DEFINE a == Wrap(t + i)
           b == Wrap(t + j)
           d == j - i
<1>1. a \in Int /\ b \in Int /\ d \in 1 .. Cap - 1
  BY WrapOf
<1>2. a = (IF t + i < Modulus THEN t + i ELSE t + i - Modulus)
      /\ b = (IF t + j < Modulus THEN t + j ELSE t + j - Modulus)
  BY WrapOf
<1>3. a - b = 0 - d \/ a - b = Modulus - d
  BY <1>2
<1> HIDE DEF a, b, d
<1>4. Cap * 0 = 0 /\ Cap \in Nat \ {0}
  OBVIOUS
<1>5. a % Cap # b % Cap
  <2>1. CASE a - b = 0 - d
    <3>1. PICK z \in Int : z = 0
      OBVIOUS
    <3>2. a - b = Cap * z - d
      BY <2>1, <1>4, <3>1
    <3> QED BY <1>1, <1>4, <3>2, ModDistinct
  <2>2. CASE a - b = Modulus - d
    BY <1>1, <1>4, <2>2, ModDistinct
  <2> QED BY <1>3, <2>1, <2>2
<1> QED BY <1>5 DEF SlotOf, a, b

\* The head is the published length ahead of the tail, across the wrap too.
LEMMA HeadAhead ==
  ASSUME head \in Word, tail \in Word, NEW i \in Nat, Used + i < Modulus
  PROVE  SlotOf(head + i) = SlotOf(tail + (Used + i))
<1>1. /\ Used \in Nat /\ head \in Int /\ tail \in Int
      /\ 0 <= head /\ head < Modulus /\ 0 <= tail /\ tail < Modulus /\ Modulus \in Nat
  BY UsedInNat, RingAssumption DEF Word
<1>2. Used = IF head >= tail THEN head - tail ELSE head - tail + Modulus
  BY <1>1, WrapOf DEF Used
<1>3. CASE head >= tail
  <2>1. tail + (Used + i) = head + i
    BY <1>1, <1>2, <1>3
  <2> QED BY <2>1
<1>4. CASE head < tail
  <2>1. tail + (Used + i) = head + i + Modulus
    BY <1>1, <1>2, <1>4
  <2>2. head + i \in 0 .. Modulus - 1
    BY <1>1, <1>2, <1>4
  <2>3. Wrap(head + i) = head + i /\ Wrap(head + i + Modulus) = head + i
    BY <1>1, <2>2, WrapOf
  <2> QED BY <2>1, <2>3 DEF SlotOf
<1> QED BY <1>1, <1>3, <1>4

\* Stepping on from an index that was stored is stepping on from the old one.
LEMMA SlotAfter ==
  ASSUME NEW x \in Word, NEW a \in Nat, NEW b \in Nat, a + b < Modulus
  PROVE  SlotOf(Wrap(x + a) + b) = SlotOf(x + (a + b))
<1>1. x \in Int /\ 0 <= x /\ x < Modulus /\ Modulus \in Nat
  BY RingAssumption DEF Word
<1>2. Wrap(x + a) = IF x + a < Modulus THEN x + a ELSE x + a - Modulus
  BY <1>1, WrapOf
<1>3. CASE x + a < Modulus
  <2>1. Wrap(x + a) + b = x + (a + b)
    BY <1>1, <1>2, <1>3
  <2> QED BY <2>1
<1>4. CASE x + a >= Modulus
  <2>1. Wrap(x + a) + b = x + (a + b) - Modulus
    BY <1>1, <1>2, <1>4
  <2>2. Wrap(x + (a + b)) = x + (a + b) - Modulus /\ Wrap(x + (a + b) - Modulus) = x + (a + b) - Modulus
    BY <1>1, <1>4, WrapOf
  <2> QED BY <2>1, <2>2 DEF SlotOf
<1> QED BY <1>1, <1>3, <1>4

\* The cells behind the head and those from the tail do not meet.
LEMMA CallsDisjoint ==
  ASSUME NEW k \in Nat, Modulus = Cap * k,
         head \in Word, tail \in Word, NEW n \in Nat, NEW w \in Nat,
         Used + n <= Cap, w <= Used,
         NEW i \in 0 .. n - 1, NEW j \in 0 .. w - 1
  PROVE  SlotOf(head + i) # SlotOf(tail + j)
<1>1. /\ Used \in Nat /\ head \in Int /\ tail \in Int
      /\ 0 <= head /\ head < Modulus /\ 0 <= tail /\ tail < Modulus
      /\ Modulus \in Nat /\ Cap \in Nat /\ 2 * Cap <= Modulus
  BY UsedInNat, RingAssumption DEF Word
<1>2. j < Used + i /\ Used + i < Cap /\ i \in Nat /\ j \in Nat
  BY <1>1
<1>3. SlotOf(tail + j) # SlotOf(tail + (Used + i))
  <2>1. PICK u \in Nat : u = Used + i
    BY <1>1, <1>2
  <2> QED BY <1>1, <1>2, <2>1, SlotsDistinct
<1>4. SlotOf(head + i) = SlotOf(tail + (Used + i))
  BY <1>1, <1>2, HeadAhead
<1> QED BY <1>3, <1>4

\* NoSharedSlot for every capacity that divides the range of the machine
\* word: the unsafe slot accesses of try_push_samples and of try_pop_samples or
\* peek_samples never touch the same cell, whatever the interleaving.
THEOREM RingDisjoint ==
  ASSUME NEW k \in Nat, Modulus = Cap * k PROVE Spec => []NoSharedSlot
<1>1. ASSUME IInv PROVE NoSharedSlot
  <2>1. /\ head \in Word /\ tail \in Word
        /\ Len(prod.block) \in Nat /\ cons.want \in Nat
        /\ Used + Len(prod.block) <= Cap /\ cons.want <= Used
    BY <1>1 DEF IInv, TypeOK, CallsFit
  <2>2. \A i \in 0 .. Len(prod.block) - 1, j \in 0 .. cons.want - 1 :
          SlotOf(head + i) # SlotOf(tail + j)
    BY <2>1, CallsDisjoint
  <2> QED BY <2>2 DEF NoSharedSlot, WriteSet, ReadSet
<1> QED BY <1>1, InitIInv, NextIInv, PTL DEF Spec

\* Type correctness of SpscSampleRing for every capacity and word width.
THEOREM RingTyped == Spec => []TypeOK
<1>1. IInv => TypeOK
  BY DEF IInv
<1> QED BY <1>1, InitIInv, NextIInv, PTL DEF Spec

\* CallsFit: the free space and the length a call checked when it began are
\* still there when it stores its index, for every capacity and word width.
THEOREM RingCallsFit == Spec => []CallsFit
<1>1. IInv => CallsFit
  BY DEF IInv
<1> QED BY <1>1, InitIInv, NextIInv, PTL DEF Spec

\* RingSafe for every capacity that divides the word's modulus: the samples, the
\* indices and the calls in progress of AudioBlockRing are well formed, each call
\* keeps the room it checked, and writer and reader never share a cell.
THEOREM RingSafety == ASSUME NEW k \in Nat, Modulus = Cap * k PROVE Spec => []RingSafe
<1>1. Spec => []NoSharedSlot
  BY RingDisjoint
<1>2. TypeOK /\ CallsFit /\ NoSharedSlot => RingSafe
  BY DEF RingSafe
<1> QED BY <1>1, <1>2, RingTyped, RingCallsFit, PTL

-----------------------------------------------------------------------------
(* The ring implements the bounded FIFO.                                   *)

\* What a call in progress has written is in the cells behind the head, what
\* one has read is what is still published.
CallsTrue ==
  /\ prod.op = "push" => prod.block \in Blocks
  /\ cons.op # Idle => cons.want \in 1 .. MaxBlock
  /\ cons.op = "discard" => cons.out = <<>>
  /\ \A i \in 0 .. prod.done - 1 : slots[SlotOf(head + i)] = prod.block[i + 1]
  /\ \A i \in 1 .. Len(cons.out) : cons.out[i] = Published[i]

LEMMA PublishedSeq ==
  ASSUME IInv
  PROVE  /\ Used \in Nat /\ Used <= Cap /\ Cap < Modulus /\ Cap \in Nat
         /\ Published \in Seq(Sample) /\ Len(Published) = Used
         /\ \A i \in 1 .. Used : Published[i] = slots[SlotOf(tail + (i - 1))]
<1>1. Used \in Nat /\ tail \in Int /\ Cap \in Nat /\ Cap < Modulus
  BY UsedInNat, RingAssumption DEF IInv, TypeOK, Word
<1>2. \A i \in 1 .. Used : tail + i - 1 = tail + (i - 1) /\ tail + (i - 1) \in Int
  BY <1>1
<1>3. \A i \in 1 .. Used : SlotOf(tail + i - 1) = SlotOf(tail + (i - 1)) /\ SlotOf(tail + i - 1) \in Slot
  BY <1>2, SlotOfInSlot
<1>4. Published \in [1 .. Used -> Sample]
  BY <1>3 DEF Published, IInv, TypeOK
<1>5. Used <= Cap
  BY <1>1 DEF IInv, TypeOK, CallsFit
<1>6. \A i \in 1 .. Used : Published[i] = slots[SlotOf(tail + (i - 1))]
  BY <1>3 DEF Published
<1>7. Published \in Seq(Sample) /\ Len(Published) = Used
  BY <1>1, <1>4
<1> QED BY <1>1, <1>5, <1>6, <1>7

\* While no index moves, only the cells of the published part matter.
LEMMA PublishedKept ==
  ASSUME IInv, UNCHANGED <<head, tail>>,
         \A i \in 1 .. Used : slots'[SlotOf(tail + (i - 1))] = slots[SlotOf(tail + (i - 1))]
  PROVE  Published' = Published
<1>1. Used' = Used /\ Used \in Nat /\ tail \in Int
  BY PublishedSeq DEF Used, IInv, TypeOK, Word
<1>2. \A i \in 1 .. Used : tail + i - 1 = tail + (i - 1)
  BY <1>1
<1> QED BY <1>1, <1>2 DEF Published

\* The release store of the head appends the whole block to what is published.
LEMMA PublishAppends ==
  ASSUME IInv, CallsTrue, PushPublish
  PROVE  /\ Used' = Used + Len(prod.block) /\ Published' = Published \o prod.block
         /\ \A i \in 1 .. Used : i \in 1 .. Used' /\ Published'[i] = Published[i]
<1> DEFINE n == Len(prod.block)
<1>1. /\ n \in Nat /\ Used \in Nat /\ Used + n <= Cap /\ Cap < Modulus /\ Cap \in Nat /\ prod.done = n
      /\ head \in Word /\ tail \in Word /\ tail \in Int /\ prod.block \in Seq(Sample)
      /\ head' = Wrap(head + n) /\ UNCHANGED <<slots, tail>>
  BY PublishedSeq DEF IInv, TypeOK, CallsFit, PushPublish, Word
<1>2. Used' = Used + n
  BY <1>1, Advance, RingAssumption DEF Used
<1>3. \A j \in 0 .. n - 1 : slots[SlotOf(tail + (Used + j))] = prod.block[j + 1]
  <2> TAKE j \in 0 .. n - 1
  <2>1. j \in Nat /\ Used + j < Modulus
    <3>1. n \in Nat /\ Used \in Nat /\ Used + n <= Cap /\ Cap \in Nat /\ Modulus \in Nat /\ Cap < Modulus
      BY <1>1, RingAssumption
    <3> HIDE DEF n
    <3> QED BY <3>1
  <2>2. SlotOf(head + j) = SlotOf(tail + (Used + j))
    BY <1>1, <2>1, HeadAhead
  <2>3. slots[SlotOf(head + j)] = prod.block[j + 1]
    BY <1>1 DEF CallsTrue
  <2> QED BY <2>2, <2>3
<1>4. Published' = [i \in 1 .. Used + n |-> slots[SlotOf(tail + (i - 1))]]
  <2>1. \A i \in 1 .. Used + n : tail + i - 1 = tail + (i - 1)
    BY <1>1
  <2> QED BY <1>1, <1>2, <2>1 DEF Published
<1> HIDE DEF n
<1>5. \A i \in 1 .. Used : i \in 1 .. Used' /\ Published'[i] = Published[i]
  BY <1>1, <1>2, <1>4, PublishedSeq
<1>6. \A i \in Used + 1 .. Used + n : Published'[i] = prod.block[i - Used]
  <2> TAKE i \in Used + 1 .. Used + n
  <2>1. (i - 1) - Used \in 0 .. n - 1 /\ Used + ((i - 1) - Used) = i - 1 /\ ((i - 1) - Used) + 1 = i - Used
    BY <1>1
  <2>2. slots[SlotOf(tail + (i - 1))] = prod.block[i - Used]
    BY <1>3, <2>1
  <2> QED BY <1>1, <1>4, <2>2
<1>7. Published' \in Seq(Sample) /\ Len(Published') = Used + n
  <2>1. \A i \in 1 .. Used + n : slots[SlotOf(tail + (i - 1))] \in Sample
    <3>1. \A i \in 1 .. Used + n : tail + (i - 1) \in Int
      BY <1>1
    <3> QED BY <3>1, SlotOfInSlot DEF IInv, TypeOK
  <2>2. Published' \in [1 .. Used + n -> Sample]
    BY <1>4, <2>1
  <2>3. Used + n \in Nat
    BY <1>1
  <2> QED BY <2>2, <2>3
<1>8. Published' = Published \o prod.block
  <2>1. Published \in Seq(Sample) /\ Len(Published) = Used /\ prod.block \in Seq(Sample)
    BY <1>1, PublishedSeq
  <2>2. /\ Published \o prod.block \in Seq(Sample) /\ Len(Published \o prod.block) = Used + n
        /\ \A i \in 1 .. Used + n : (Published \o prod.block)[i] = IF i <= Used THEN Published[i] ELSE prod.block[i - Used]
    BY <2>1, ConcatProperties DEF n
  <2>3. \A i \in 1 .. Used + n : Published'[i] = (Published \o prod.block)[i]
    <3> TAKE i \in 1 .. Used + n
    <3>1. CASE i <= Used
      BY <1>1, <1>5, <2>2, <3>1
    <3>2. CASE i > Used
      BY <1>1, <1>6, <2>2, <3>2
    <3>3. i <= Used \/ i > Used
      BY <1>1
    <3> QED BY <3>1, <3>2, <3>3, Zenon
  <2> QED BY <1>7, <2>2, <2>3, SeqEqual
<1> QED BY <1>2, <1>5, <1>8 DEF n

\* A push writes behind the published part.
LEMMA WriteBehind ==
  ASSUME NEW k \in Nat, Modulus = Cap * k, IInv, PushWrite
  PROVE  /\ prod' = [prod EXCEPT !.done = @ + 1] /\ UNCHANGED <<head, tail, cons, pushed, taken>>
         /\ slots'[SlotOf(head + prod.done)] = prod.block[prod.done + 1]
         /\ \A i \in 0 .. prod.done - 1 : slots'[SlotOf(head + i)] = slots[SlotOf(head + i)]
         /\ \A i \in 1 .. Used : slots'[SlotOf(tail + (i - 1))] = slots[SlotOf(tail + (i - 1))]
<1> DEFINE d == prod.done
<1>1. /\ d \in Nat /\ d < Len(prod.block) /\ Len(prod.block) \in Nat /\ head \in Word /\ tail \in Word
      /\ Used \in Nat /\ Used + Len(prod.block) <= Cap /\ Cap \in Nat /\ head \in Int
      /\ slots' = [slots EXCEPT ![SlotOf(head + d)] = prod.block[d + 1]]
      /\ slots \in [Slot -> Sample]
  BY PublishedSeq DEF IInv, TypeOK, CallsFit, PushWrite, Word
<1>2. SlotOf(head + d) \in Slot
  BY <1>1, SlotOfInSlot
<1>3. \A i \in 1 .. Used : SlotOf(head + d) # SlotOf(tail + (i - 1))
  <2>1. d \in 0 .. Len(prod.block) - 1 /\ Used <= Used
    BY <1>1
  <2>2. \A j \in 0 .. Used - 1 : SlotOf(head + d) # SlotOf(tail + j)
    BY <1>1, <2>1, CallsDisjoint
  <2>3. \A i \in 1 .. Used : i - 1 \in 0 .. Used - 1
    BY <1>1
  <2> QED BY <2>2, <2>3
<1>4. \A i \in 0 .. d - 1 : SlotOf(head + i) # SlotOf(head + d)
  <2> TAKE i \in 0 .. d - 1
  <2>1. i \in Nat /\ i < d /\ d < Cap
    BY <1>1
  <2> QED BY <1>1, <2>1, SlotsDistinct
<1> HIDE DEF d
<1>5. /\ slots'[SlotOf(head + d)] = prod.block[d + 1]
      /\ \A c \in Slot : c # SlotOf(head + d) => slots'[c] = slots[c]
  BY <1>1, <1>2
<1>6. \A i \in 0 .. d - 1 : SlotOf(head + i) \in Slot
  BY <1>1, SlotOfInSlot
<1>7. \A i \in 1 .. Used : SlotOf(tail + (i - 1)) \in Slot
  <2>1. \A i \in 1 .. Used : tail + (i - 1) \in Int
    BY <1>1 DEF Word
  <2> QED BY <2>1, SlotOfInSlot
<1> QED BY <1>3, <1>4, <1>5, <1>6, <1>7 DEF PushWrite, d

LEMMA CallsTrueInit == Init => CallsTrue
BY DEF Init, CallsTrue, NoCall, NoTake, Idle

\* Every step of the two threads keeps what the calls in progress know.
LEMMA CallsTrueStep ==
  ASSUME NEW k \in Nat, Modulus = Cap * k, IInv, CallsTrue, [Next]_vars
  PROVE  CallsTrue'
<1>0. /\ prod.done \in Nat /\ Len(cons.out) \in Nat /\ cons.want \in Nat /\ Len(cons.out) <= cons.want
      /\ cons.want <= Used /\ Used \in Nat
      /\ prod \in [op : {Idle, "push"}, block : Seq(Sample), done : Nat]
      /\ cons \in [op : {Idle, "pop", "peek", "discard"}, want : Nat, out : Seq(Sample)]
  BY PublishedSeq DEF IInv, TypeOK, CallsFit
<1>1. CASE UNCHANGED <<slots, head, tail>>
  <2>1. Published' = Published
    BY <1>1, PublishedKept
  <2>2. CASE PushBegin
    <3>1. PICK block \in Blocks : prod' = [op |-> "push", block |-> block, done |-> 0]
      BY <2>2 DEF PushBegin
    <3> QED BY <1>1, <2>1, <2>2, <3>1 DEF CallsTrue, PushBegin
  <2>3. CASE TakeBegin
    <3>1. PICK op \in {"pop", "peek", "discard"}, n \in 1 .. MaxBlock : cons' = [op |-> op, want |-> n, out |-> <<>>]
      BY <2>3 DEF TakeBegin
    <3> QED BY <1>1, <2>1, <2>3, <3>1 DEF CallsTrue, TakeBegin
  <2>4. CASE TakeRead
    <3>1. /\ cons.op \in {"pop", "peek"} /\ Len(cons.out) < cons.want /\ prod' = prod
          /\ cons' = [cons EXCEPT !.out = Append(cons.out, slots[SlotOf(tail + Len(cons.out))])]
      BY <2>4 DEF TakeRead
    <3> DEFINE n == Len(cons.out)
               v == slots[SlotOf(tail + n)]
    <3>2. Published[n + 1] = v
      <4>1. n + 1 \in 1 .. Used /\ (n + 1) - 1 = n
        BY <1>0, <3>1
      <4> QED BY <4>1, PublishedSeq
    <3>3. v \in Sample
      BY <1>0, SlotOfInSlot DEF IInv, TypeOK, Word
    <3> HIDE DEF v
    <3>4. cons'.op = cons.op /\ cons'.want = cons.want /\ cons'.out = Append(cons.out, v)
      BY <1>0, <3>1 DEF v
    <3>5. \A i \in 1 .. Len(cons'.out) : cons'.out[i] = Published[i]
      BY <1>0, <3>2, <3>3, <3>4 DEF CallsTrue
    <3> QED BY <1>1, <2>1, <3>1, <3>4, <3>5 DEF CallsTrue
  <2>5. CASE PushRefused \/ TakeRefused \/ UNCHANGED vars
    <3>1. UNCHANGED <<prod, cons>>
      BY <2>5 DEF PushRefused, TakeRefused, vars
    <3> QED BY <1>1, <2>1, <3>1 DEF CallsTrue
  <2>6. CASE PushPublish
    <3>1. prod' = NoCall /\ UNCHANGED cons
      BY <2>6 DEF PushPublish
    <3> QED BY <1>1, <2>1, <3>1 DEF CallsTrue, NoCall, Idle
  <2>7. CASE TakeFinish
    <3>1. cons' = NoTake /\ UNCHANGED prod
      BY <2>7 DEF TakeFinish
    <3> QED BY <1>1, <2>1, <3>1 DEF CallsTrue, NoTake, Idle
  <2>8. CASE PushWrite
    <3>1. prod' = [prod EXCEPT !.done = @ + 1] /\ UNCHANGED cons
          /\ slots'[SlotOf(head + prod.done)] = prod.block[prod.done + 1]
      BY <2>8, WriteBehind
    <3>2. prod'.done = prod.done + 1 /\ prod'.block = prod.block /\ prod'.op = prod.op
      BY <1>0, <3>1
    <3> QED BY <1>0, <1>1, <2>1, <3>1, <3>2 DEF CallsTrue
  <2> QED BY <2>2, <2>3, <2>4, <2>5, <2>6, <2>7, <2>8 DEF Next, Producer, Consumer
<1>2. CASE PushWrite
  <2>1. /\ prod' = [prod EXCEPT !.done = @ + 1] /\ UNCHANGED <<head, tail, cons>>
        /\ slots'[SlotOf(head + prod.done)] = prod.block[prod.done + 1]
        /\ \A i \in 0 .. prod.done - 1 : slots'[SlotOf(head + i)] = slots[SlotOf(head + i)]
        /\ Published' = Published
    BY <1>2, WriteBehind, PublishedKept
  <2>2. prod'.done = prod.done + 1 /\ prod'.block = prod.block /\ prod'.op = prod.op
    BY <1>0, <2>1
  <2>3. \A i \in 0 .. prod'.done - 1 : slots'[SlotOf(head' + i)] = prod'.block[i + 1]
    <3>1. \A i \in 0 .. prod'.done - 1 : i = prod.done \/ i \in 0 .. prod.done - 1
      BY <1>0, <2>2
    <3> QED BY <2>1, <2>2, <3>1 DEF CallsTrue
  <2> QED BY <2>1, <2>2, <2>3 DEF CallsTrue
<1>3. CASE PushPublish
  <2>1. prod' = NoCall /\ UNCHANGED <<slots, tail, cons>>
    BY <1>3 DEF PushPublish
  <2>2. \A i \in 1 .. Used : i \in 1 .. Used' /\ Published'[i] = Published[i]
    BY <1>3, PublishAppends
  <2> QED BY <1>0, <2>1, <2>2 DEF CallsTrue, NoCall, Idle
<1>4. CASE TakeFinish
  <2>1. cons' = NoTake /\ UNCHANGED <<slots, head, prod>>
    BY <1>4 DEF TakeFinish
  <2> QED BY <2>1 DEF CallsTrue, NoTake, Idle
<1>5. PushWrite \/ PushPublish \/ TakeFinish \/ UNCHANGED <<slots, head, tail>>
  BY DEF Next, Producer, Consumer, vars, PushBegin, PushRefused, TakeBegin, TakeRefused, TakeRead
<1> QED BY <1>1, <1>2, <1>3, <1>4, <1>5

-----------------------------------------------------------------------------
\* The store of the tail removes the samples taken from the front.
LEMMA TakeRemoves ==
  ASSUME IInv, NEW n \in Nat, n <= Used, tail' = Wrap(tail + n), UNCHANGED <<slots, head>>
  PROVE  Published' = SubSeq(Published, n + 1, Used)
<1>1. /\ Used \in Nat /\ Used <= Cap /\ Cap < Modulus /\ Cap \in Nat /\ Modulus \in Nat
      /\ head \in Word /\ tail \in Word /\ tail \in Int
      /\ Published \in Seq(Sample) /\ Len(Published) = Used
  BY PublishedSeq, RingAssumption DEF IInv, TypeOK, Word
<1>2. Used' = Used - n
  BY <1>1, Advance DEF Used
<1>3. tail' \in Int
  BY <1>1, WrapOf DEF Word
<1>4. \A i \in 1 .. Used - n : /\ SlotOf(tail' + i - 1) = SlotOf(tail + (i + n - 1))
                              /\ i + n \in 1 .. Used /\ tail + (i + n - 1) \in Int
  <2> TAKE i \in 1 .. Used - n
  <2>1. i - 1 \in Nat /\ n + (i - 1) < Modulus /\ i + n - 1 = n + (i - 1) /\ tail' + i - 1 = tail' + (i - 1)
    BY <1>1, <1>3
  <2>2. SlotOf(tail' + (i - 1)) = SlotOf(tail + (n + (i - 1)))
    BY <1>1, <2>1, SlotAfter
  <2>3. i + n \in 1 .. Used /\ tail + (i + n - 1) \in Int
    BY <1>1
  <2> QED BY <2>1, <2>2, <2>3
<1>5. \A i \in 1 .. Used - n : slots[SlotOf(tail' + i - 1)] = Published[i + n]
  BY <1>1, <1>4, PublishedSeq
<1>6. Published' = [i \in 1 .. Used - n |-> Published[i + n]]
  BY <1>2, <1>5 DEF Published
<1>7. \A i \in 1 .. Used - n : Published[i + n] \in Sample
  BY <1>1, <1>4
<1>8. Published' \in Seq(Sample) /\ Len(Published') = Used - n
  <2>1. Published' \in [1 .. Used - n -> Sample] /\ Used - n \in Nat
    BY <1>1, <1>6, <1>7
  <2> QED BY <2>1
<1>9. /\ SubSeq(Published, n + 1, Used) \in Seq(Sample) /\ Len(SubSeq(Published, n + 1, Used)) = Used - n
      /\ \A i \in 1 .. Used - n : SubSeq(Published, n + 1, Used)[i] = Published[i + n]
  <2>1. n + 1 \in Int /\ Used \in Int /\ \A i \in n + 1 .. Used : Published[i] \in Sample
    BY <1>1
  <2>2. /\ SubSeq(Published, n + 1, Used) \in Seq(Sample)
        /\ Len(SubSeq(Published, n + 1, Used)) = IF n + 1 <= Used THEN Used - (n + 1) + 1 ELSE 0
        /\ \A i \in 1 .. Used - (n + 1) + 1 : SubSeq(Published, n + 1, Used)[i] = Published[(n + 1) + i - 1]
    BY <2>1, SubSeqProperties
  <2>3. Used - (n + 1) + 1 = Used - n /\ \A i \in 1 .. Used - n : (n + 1) + i - 1 = i + n
    BY <1>1
  <2> QED BY <1>1, <2>2, <2>3
<1>10. \A i \in 1 .. Used - n : Published'[i] = SubSeq(Published, n + 1, Used)[i]
  BY <1>6, <1>9
<1> QED BY <1>8, <1>9, <1>10, SeqEqual

\* A read that has copied every sample it wants holds the front of the queue.
LEMMA TakeReturns ==
  ASSUME IInv, CallsTrue, Len(cons.out) = cons.want
  PROVE  cons.out = SubSeq(Published, 1, cons.want)
<1>1. /\ Used \in Nat /\ cons.want \in Nat /\ cons.want <= Used /\ cons.out \in Seq(Sample)
      /\ Published \in Seq(Sample) /\ Len(Published) = Used
  BY PublishedSeq DEF IInv, TypeOK, CallsFit
<1>2. \A i \in 1 .. cons.want : Published[i] \in Sample
  BY <1>1
<1>3. /\ SubSeq(Published, 1, cons.want) \in Seq(Sample) /\ Len(SubSeq(Published, 1, cons.want)) = cons.want
      /\ \A i \in 1 .. cons.want : SubSeq(Published, 1, cons.want)[i] = Published[i]
  <2>1. /\ SubSeq(Published, 1, cons.want) \in Seq(Sample)
        /\ Len(SubSeq(Published, 1, cons.want)) = IF 1 <= cons.want THEN cons.want - 1 + 1 ELSE 0
        /\ \A i \in 1 .. cons.want - 1 + 1 : SubSeq(Published, 1, cons.want)[i] = Published[1 + i - 1]
    BY <1>1, <1>2, SubSeqProperties
  <2>2. cons.want - 1 + 1 = cons.want /\ \A i \in 1 .. cons.want : 1 + i - 1 = i
    BY <1>1
  <2> QED BY <1>1, <2>1, <2>2
<1>4. \A i \in 1 .. Len(cons.out) : cons.out[i] = SubSeq(Published, 1, cons.want)[i]
  BY <1>3 DEF CallsTrue
<1> QED BY <1>1, <1>3, <1>4, SeqEqual

\* The empty ring is the empty queue.
LEMMA FifoInit == Init => Fifo!Init
<1> SUFFICES ASSUME Init PROVE Fifo!Init
  OBVIOUS
<1>1. IInv
  BY InitIInv
<1>2. Used = 0
  <2>1. head = 0 /\ tail = 0 /\ 0 < Modulus
    BY RingAssumption DEF Init
  <2> QED BY <2>1, WrapOf DEF Used
<1>3. Published = <<>>
  BY <1>1, <1>2, PublishedSeq
<1> QED BY <1>3 DEF Init, Fifo!Init, Fifo!Refused, Fifo!NoSamples

\* Every step of the ring is a step of the FIFO or leaves it alone: a push
\* takes effect when the head is stored, a pop or a discard when the tail is,
\* a peek when it returns, and a refusal when the indices are compared.
LEMMA FifoStep ==
  ASSUME NEW k \in Nat, Modulus = Cap * k, IInv, CallsTrue, [Next]_vars
  PROVE  [Fifo!Next]_(Fifo!vars)
<1>0. /\ Used \in Nat /\ Cap \in Nat /\ MaxBlock \in Nat /\ Len(Published) = Used /\ Published \in Seq(Sample)
      /\ Used <= Cap /\ cons.want \in Nat /\ cons.want <= Used
  BY PublishedSeq, RingAssumption DEF IInv, TypeOK, CallsFit
<1>1. CASE PushBegin \/ TakeBegin \/ TakeRead \/ UNCHANGED vars
  <2>1. UNCHANGED <<slots, head, tail, pushed, taken>>
    BY <1>1 DEF PushBegin, TakeBegin, TakeRead, vars
  <2>2. Published' = Published
    BY <2>1, PublishedKept
  <2> QED BY <2>1, <2>2 DEF Fifo!vars
<1>2. CASE PushWrite
  <2>1. UNCHANGED <<head, tail, pushed, taken>> /\ Published' = Published
    BY <1>2, WriteBehind, PublishedKept
  <2> QED BY <2>1 DEF Fifo!vars
<1>3. CASE PushRefused
  <2>1. UNCHANGED <<slots, head, tail, taken>> /\ pushed' = [ok |-> FALSE, block |-> <<>>]
    BY <1>3 DEF PushRefused
  <2>2. Published' = Published
    BY <2>1, PublishedKept
  <2>3. PICK n \in 1 .. MaxBlock : ~Fits(n)
    BY <1>3 DEF PushRefused
  <2>4. Len(Published) + n > Cap
    BY <1>0, <2>3 DEF Fits
  <2>5. Fifo!PushFull
    BY <2>1, <2>2, <2>4 DEF Fifo!PushFull, Fifo!Refused
  <2> QED BY <2>5 DEF Fifo!Next
<1>4. CASE PushPublish
  <2>1. /\ prod.block \in Blocks /\ Used + Len(prod.block) <= Cap
        /\ pushed' = [ok |-> TRUE, block |-> prod.block] /\ UNCHANGED taken
    BY <1>4 DEF PushPublish, CallsTrue, IInv, CallsFit
  <2>2. PICK n \in 1 .. MaxBlock : prod.block \in [1 .. n -> Sample]
    BY <2>1 DEF Blocks
  <2>3. Len(prod.block) = n
    BY <1>0, <2>2
  <2>4. Published' = Published \o prod.block
    BY <1>4, PublishAppends
  <2>5. Fifo!Push
    BY <1>0, <2>1, <2>2, <2>3, <2>4 DEF Fifo!Push
  <2> QED BY <2>5 DEF Fifo!Next
<1>5. CASE TakeRefused
  <2>1. UNCHANGED <<slots, head, tail, pushed>> /\ taken' = [ok |-> FALSE, out |-> <<>>]
    BY <1>5 DEF TakeRefused
  <2>2. Published' = Published
    BY <2>1, PublishedKept
  <2>3. PICK n \in 1 .. MaxBlock : n > Used
    BY <1>5 DEF TakeRefused
  <2>4. Fifo!TakeEmpty
    BY <1>0, <2>1, <2>2, <2>3 DEF Fifo!TakeEmpty, Fifo!NoSamples
  <2> QED BY <2>4 DEF Fifo!Next
<1>6. CASE TakeFinish
  <2>1. /\ taken' = [ok |-> TRUE, out |-> cons.out] /\ UNCHANGED <<slots, head, pushed>>
        /\ tail' = IF cons.op = "peek" THEN tail ELSE Wrap(tail + cons.want)
    BY <1>6 DEF TakeFinish
  <2>2. cons.want \in 1 .. MaxBlock
    BY <1>6 DEF TakeFinish, CallsTrue, Idle
  <2>3. cons.out = IF cons.op # "discard" THEN SubSeq(Published, 1, cons.want) ELSE <<>>
    <3>1. CASE cons.op = "discard"
      BY <3>1 DEF CallsTrue
    <3>2. CASE cons.op # "discard"
      BY <1>6, <3>2, TakeReturns DEF TakeFinish
    <3> QED BY <3>1, <3>2
  <2>4. Published' = IF cons.op # "peek" THEN SubSeq(Published, cons.want + 1, Used) ELSE Published
    <3>1. CASE cons.op = "peek"
      BY <2>1, <3>1, PublishedKept
    <3>2. CASE cons.op # "peek"
      BY <1>0, <2>1, <3>2, TakeRemoves
    <3> QED BY <3>1, <3>2
  <2>5. \E remove, return \in BOOLEAN :
          /\ Published' = IF remove THEN SubSeq(Published, cons.want + 1, Used) ELSE Published
          /\ cons.out = IF return THEN SubSeq(Published, 1, cons.want) ELSE <<>>
    <3> WITNESS (cons.op # "peek") \in BOOLEAN, (cons.op # "discard") \in BOOLEAN
    <3> QED BY <2>3, <2>4
  <2>6. Fifo!Take
    BY <1>0, <2>1, <2>2, <2>5 DEF Fifo!Take
  <2> QED BY <2>6 DEF Fifo!Next
<1> QED BY <1>1, <1>2, <1>3, <1>4, <1>5, <1>6 DEF Next, Producer, Consumer

\* ImplementsFifo for every capacity that divides the word's modulus: whatever
\* the interleaving of try_push_samples with try_pop_samples, peek_samples and
\* discard_samples, the calls return what an atomic bounded FIFO returns.
THEOREM RingImplementsFifo ==
  ASSUME NEW k \in Nat, Modulus = Cap * k PROVE Spec => ImplementsFifo
<1>1. IInv /\ CallsTrue /\ [Next]_vars => CallsTrue'
  BY CallsTrueStep
<1>2. IInv /\ CallsTrue /\ [Next]_vars => [Fifo!Next]_(Fifo!vars)
  BY FifoStep
<1> QED BY <1>1, <1>2, InitIInv, NextIInv, CallsTrueInit, FifoInit, PTL DEF Spec, ImplementsFifo, Fifo!Spec
=============================================================================
