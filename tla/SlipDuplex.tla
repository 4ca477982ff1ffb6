----------------------------- MODULE SlipDuplex -----------------------------
(***************************************************************************)
(* The sample-slip duplex bridge: DuplexProducer in the input callback and *)
(* DuplexConsumer in the output callback share a bounded frame ring and a  *)
(* set of status atomics.  A compensator may correct one frame a callback: *)
(* an inserted frame stretches the input, a removed one shortens it.       *)
(*                                                                         *)
(* The ring is its fill in frames.  A push looks at the room, pushes, then *)
(* counts; a read looks at the fill, renders, then looks again; the two    *)
(* callbacks interleave between these steps.  What a transition sounds     *)
(* like is left out, not the frames it looks at.                           *)
(***************************************************************************)
EXTENDS Integers, FiniteSetsExt

CONSTANTS Capacity, Target, Threshold,   \* DuplexBridgeConfig, in frames
          Transition,                    \* CorrectionTransition
          Window,                        \* correction_window_frames
          MaxUnderflows, MaxOverflows,   \* DuplexFaultPolicy
          MaxExcursion, WarningInterval, DegradedInterval,
          Pushes, Reads,                 \* callback sizes of the host, in frames
          MaxFrames                      \* bound of a run, in frames

SlipAssumption ==
  /\ Capacity \in Nat /\ Window \in Nat /\ MaxFrames \in Nat
  /\ Pushes \subseteq Nat \ {0} /\ Reads \subseteq Nat \ {0}
  /\ Target \in 0 .. Capacity - 1 /\ Threshold \in 0 .. Capacity - 1
  /\ Transition \in {"Raw", "LinearInterpolation", "Crossfade", "ZeroCrossing"}

VARIABLES fill,      \* frames in the ring
          status,    \* DuplexStatus
          pushing,   \* the input callback between its look at the room and its count
          call,      \* the output callback between its looks at the ring
          hasLast,   \* the consumer has rendered a frame to repeat
          history    \* frames rendered and frames lost by a failed correction

sdVars == <<fill, status, pushing, call, hasLast, history>>

Normal == 0
Warning == 1
Degraded == 2
Fatal == 3

NoPush == [phase |-> "none", frames |-> 0, accepted |-> 0]
NoCall == [phase |-> "none", frames |-> 0, correction |-> "None"]

Init ==
  /\ fill = 0 /\ pushing = NoPush /\ call = NoCall /\ hasLast = FALSE
  /\ history = [rendered |-> 0, lost |-> 0]
  /\ status = [input |-> 0, output |-> 0, overflow |-> 0, underflows |-> 0,
               consecutive_underflows |-> 0, consecutive_overflows |-> 0,
               inserted |-> 0, removed |-> 0, last_correction |-> 0, health |-> Normal,
               fault |-> "None", epoch |-> 0]

-----------------------------------------------------------------------------
(* DuplexStatus                                                            *)

Raise(s, health) == [s EXCEPT !.health = Max({@, health})]

Distance(a, b) == IF a > b THEN a - b ELSE b - a

ObserveFill(s, now) ==
  IF Distance(now, Target) > MaxExcursion THEN Raise(s, Fatal) ELSE s

\* The first correction has no interval; a correction at frame 0 would count as none.
ObserveCorrection(s) ==
  LET interval == s.output - s.last_correction
      marked   == [s EXCEPT !.last_correction = s.output]
  IN IF s.last_correction = 0 THEN marked
     ELSE IF interval < DegradedInterval THEN Raise(marked, Degraded)
     ELSE IF interval < WarningInterval THEN Raise(marked, Warning)
     ELSE marked

ObserveUnderflow(s) ==
  LET n == s.consecutive_underflows + 1
      t == [s EXCEPT !.underflows = @ + 1, !.consecutive_underflows = n, !.epoch = @ + 1]
  IN IF n > MaxUnderflows THEN Raise(t, Fatal) ELSE t

-----------------------------------------------------------------------------
(* Callbacks                                                               *)

WrongShape(fault) == status' = [status EXCEPT !.fault = fault, !.epoch = @ + 1]

\* Mutant: the room is counted one frame too large.
AcceptedOneTooMany(frames) == Min({frames, Capacity - fill + 1})

Accepted(frames) == Min({frames, Capacity - fill})

\* push_interleaved: what does not fit is rejected, the rest is kept.
PushBegin(frames) ==
  /\ pushing.phase = "none"
  /\ status.input + frames <= MaxFrames
  /\ status' = [status EXCEPT !.input = @ + frames]
  /\ pushing' = [phase |-> "room", frames |-> frames, accepted |-> Accepted(frames)]
  /\ UNCHANGED <<fill, call, hasLast, history>>

PushRing ==
  /\ pushing.phase = "room"
  /\ fill' = fill + pushing.accepted
  /\ pushing' = [pushing EXCEPT !.phase = "pushed"]
  /\ UNCHANGED <<status, call, hasLast, history>>

ObserveOverflow(s, rejected) ==
  LET n == s.consecutive_overflows + 1
      t == [s EXCEPT !.overflow = @ + rejected, !.consecutive_overflows = n, !.epoch = @ + 1]
  IN IF n > MaxOverflows THEN Raise(t, Fatal) ELSE t

\* The fill is looked at once more, after whatever the consumer took meanwhile.
PushCount ==
  LET rejected == pushing.frames - pushing.accepted
      counted  == IF rejected > 0 THEN ObserveOverflow(status, rejected)
                  ELSE [status EXCEPT !.consecutive_overflows = 0]
  IN /\ pushing.phase = "pushed"
     /\ pushing' = NoPush
     /\ status' = ObserveFill(counted, fill)
     /\ UNCHANGED <<fill, call, hasLast, history>>

PushWrongShape == /\ pushing.phase = "none" /\ status.fault = "None"
                  /\ WrongShape("InputFormat")
                  /\ UNCHANGED <<fill, pushing, call, hasLast, history>>

Monus(a, b) == Max({a - b, 0})

\* ThresholdDriftCompensator.
SelectCorrection(frames) ==
  LET projected == Monus(fill, frames)
  IN IF projected > Target + Threshold THEN "Remove"
     ELSE IF projected < Monus(Target, Threshold) /\ fill + 1 >= frames THEN "Insert"
     ELSE "None"

\* No frame to repeat, or no zero crossing to hide the slip at: no correction.
Suppressed(correction, crossing) ==
  \/ correction = "Insert" /\ ~hasLast
  \/ Transition = "ZeroCrossing" /\ ~(crossing /\ fill > 0)

ReadBegin(frames, crossing) ==
  LET chosen == SelectCorrection(frames)
  IN /\ call.phase = "none"
     /\ status.output + frames <= MaxFrames
     /\ status' = [status EXCEPT !.output = @ + frames]
     /\ call' = [phase |-> "chosen", frames |-> frames,
                 correction |-> IF Suppressed(chosen, crossing) THEN "None" ELSE chosen]
     /\ UNCHANGED <<fill, pushing, hasLast, history>>

ReadWrongShape == /\ call.phase = "none" /\ status.fault = "None"
                  /\ WrongShape("OutputFormat")
                  /\ UNCHANGED <<fill, pushing, call, hasLast, history>>

\* Mutant: an inserted frame is taken for granted, the ring still gives a whole block.
ConsumedWhole(frames, correction) ==
  IF correction = "Remove" THEN frames + 1 ELSE frames

Consumed(frames, correction) ==
  CASE correction = "None" -> frames
    [] correction = "Insert" -> frames - 1
    [] correction = "Remove" -> frames + 1

\* Frames of the smoothed insertion; each looks at two frames of the ring.
SmoothWindow(frames) ==
  LET requested == IF Transition = "Crossfade" THEN Window ELSE 2
  IN Max({Min({requested, frames}), 2})

\* The smoothed insertion over a whole block of what the ring just covers: the look at the
\* second frame fails after all but one frame have been discarded.
InsertionFails(frames) ==
  /\ Transition # "Raw" /\ frames >= 2
  /\ SmoothWindow(frames) > fill

InsertSlip(s) == ObserveCorrection([s EXCEPT !.inserted = @ + 1])

RemoveSlip(s) == ObserveCorrection([s EXCEPT !.removed = @ + 1])

Rendered(taken) ==
  /\ fill' = fill - taken
  /\ hasLast' = TRUE
  /\ history' = [history EXCEPT !.rendered = @ + call.frames]

\* The ring is looked at again; then the block is rendered, or silence and an underflow.
ReadEnd ==
  LET taken   == Consumed(call.frames, call.correction)
      settled == [status EXCEPT !.consecutive_underflows = 0]
      slipped == CASE call.correction = "None" -> settled
                   [] call.correction = "Insert" -> InsertSlip(settled)
                   [] call.correction = "Remove" -> RemoveSlip(settled)
  IN /\ call.phase = "chosen"
     /\ call' = [call EXCEPT !.phase = "rendered"]
     /\ UNCHANGED pushing
     /\ \/ /\ fill < taken
           /\ UNCHANGED <<fill, hasLast, history>>
           /\ status' = ObserveUnderflow(status)
        \/ /\ fill >= taken /\ call.correction = "Insert" /\ InsertionFails(call.frames)
           /\ fill' = fill - (SmoothWindow(call.frames) - 2)
           /\ history' = [history EXCEPT !.lost = @ + SmoothWindow(call.frames) - 2]
           /\ UNCHANGED hasLast
           /\ status' = ObserveUnderflow(status)
        \/ /\ fill >= taken /\ ~(call.correction = "Insert" /\ InsertionFails(call.frames))
           /\ Rendered(taken)
           /\ status' = slipped

ReadObserve == /\ call.phase = "rendered"
               /\ call' = NoCall
               /\ status' = ObserveFill(status, fill)
               /\ UNCHANGED <<fill, pushing, hasLast, history>>

Next ==
  \/ \E frames \in Pushes : PushBegin(frames)
  \/ PushRing \/ PushCount \/ PushWrongShape
  \/ \E frames \in Reads, crossing \in BOOLEAN : ReadBegin(frames, crossing)
  \/ ReadEnd \/ ReadObserve \/ ReadWrongShape

Spec == Init /\ [][Next]_sdVars

-----------------------------------------------------------------------------
(* Properties                                                              *)

\* What the input callback has received and not yet pushed or counted as rejected.
InHand == CASE pushing.phase = "none" -> 0
            [] pushing.phase = "room" -> pushing.frames
            [] pushing.phase = "pushed" -> pushing.frames - pushing.accepted

\* SlipsAccounted: every received frame is in the ring, rejected, in the hand of the input
\* callback, or rendered, where each counted slip stands for one frame more or less, and
\* however the callbacks interleave, what a push found room for still fits when it is pushed
\* (`debug_assert!(pushed)').  Frames are lost in no other way, except by a transition as
\* wide as the callback: it runs out of frames it has looked at.
\* (push_interleaved, read_interleaved, render_smoothed_insertion)
SlipsAccounted ==
  /\ status.input = InHand + status.overflow + fill + history.rendered - status.inserted
                      + status.removed + history.lost
  /\ pushing.phase = "room" => fill + pushing.accepted <= Capacity
  /\ history.lost > 0 => \E n \in Reads : n <= SmoothWindow(n)
=============================================================================
