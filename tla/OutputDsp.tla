----------------------------- MODULE OutputDsp -----------------------------
(***************************************************************************)
(* SpeakerPostProcessor of aurora-dsp-basic: bass management, speaker      *)
(* calibration, lip-sync delay, master gain and linked limiter, one frame  *)
(* at a time, and the DelayProcessor of the same crate, whose ring has the *)
(* same arithmetic.                                                        *)
(*                                                                         *)
(* Abstraction: a sample is the position of the frame it comes from since  *)
(* the last reset (0 is silence, negative a frame that was not finite and  *)
(* was silenced), its level a function of that position; the filters,      *)
(* linear and reset with the rest of the chain, are left out.  Gains are   *)
(* integers, Unity for 1; gain smoothing halves the distance to the target.*)
(***************************************************************************)
EXTENDS Integers, FiniteSetsExt

CONSTANTS Channels,
          MaxCalibration,    \* CALIBRATION_DELAY_FRAMES - 1
          MaxLipsync,        \* MAX_LIPSYNC_FRAMES
          FadeFrames,
          Unity, Ceiling,    \* linear gain 1 and the limiter's ceiling
          Release,           \* share of the distance the limiter's gain recovers
          Levels,            \* level of the frame at position p is Levels[1 + (p % Len)]
          Gains,             \* headroom times user gain
          Calibrations,      \* delays per channel a calibration may ask for
          MaxFed             \* frames between two resets

VARIABLES chain, controls, heard, fed

odVars == <<chain, controls, heard, fed>>

Silent == [c \in Channels |-> 0]

LevelOf(position) ==
  IF position <= 0 THEN 0 ELSE Levels[1 + (position % Cardinality(DOMAIN Levels))]

\* Mutant: a ring with as many slots as the longest delay.
RingOfDelay(longest) == longest

\* CALIBRATION_DELAY_FRAMES, LIPSYNC_RING_FRAMES and history_len: one slot more than the
\* longest delay, so that the slot being written is not the one the longest delay reads.
RingFrames(longest) == longest + 1

EmptyRing(longest) == [i \in 0 .. RingFrames(longest) - 1 |-> Silent]

Chain(delays, lip) ==
  [delays |-> delays, calibration |-> EmptyRing(MaxCalibration), write |-> 0,
   lip |-> EmptyRing(MaxLipsync), lipWrite |-> 0, delay |-> lip, previous |-> lip, fade |-> 0,
   master |-> 0, limiter |-> Unity]

\* new: mute and standby off, flat calibration
Init ==
  \E lip \in 0 .. MaxLipsync, gain \in Gains :
    /\ chain = Chain(Silent, lip)
    /\ controls = [requested |-> lip, gain |-> gain, muted |-> FALSE, standby |-> FALSE]
    /\ heard = [at |-> Silent, old |-> Silent, gain |-> 0, limiter |-> Unity]
    /\ fed = 0

-----------------------------------------------------------------------------
(* Setup and controls                                                      *)

\* PreparedCalibration::prepare
CalibrationValid(delays) == \A c \in Channels : delays[c] <= MaxCalibration

\* reset: every stage is cleared; the lip-sync delay jumps to the requested one.
Cleared(delays) ==
  /\ chain' = Chain(delays, controls.requested)
  /\ heard' = [at |-> Silent, old |-> Silent, gain |-> 0, limiter |-> Unity]
  /\ fed' = 0
  /\ UNCHANGED controls

ConfigureCalibration(delays) == CalibrationValid(delays) /\ Cleared(delays)

SetLipsyncFrames(frames) ==
  /\ controls' = [controls EXCEPT !.requested = Min({frames, MaxLipsync})]
  /\ UNCHANGED <<chain, heard, fed>>

SetMute(muted) ==
  /\ controls' = [controls EXCEPT !.muted = muted]
  /\ UNCHANGED <<chain, heard, fed>>

SetStandby(standby) ==
  /\ controls' = [controls EXCEPT !.standby = standby]
  /\ UNCHANGED <<chain, heard, fed>>

SetMasterGain(gain) ==
  /\ controls' = [controls EXCEPT !.gain = gain]
  /\ UNCHANGED <<chain, heard, fed>>

-----------------------------------------------------------------------------
(* One frame                                                               *)

\* The slot `delay' frames behind the one being written.
ReadSlot(ring, write, delay) ==
  (write + Cardinality(DOMAIN ring) - delay) % Cardinality(DOMAIN ring)

\* PreparedCalibration::process_frame, and DelayProcessor with whole delays: write the
\* slot, then read every channel at its own distance.
Calibrated(c, ring) ==
  [x \in Channels |-> ring[ReadSlot(ring, c.write, c.delays[x])][x]]

\* LipDelay::process_frame starts a fade to the requested delay once the last has ended.
Retargeted(c) ==
  IF c.fade = 0 /\ controls.requested # c.delay
  THEN [c EXCEPT !.previous = c.delay, !.delay = controls.requested, !.fade = FadeFrames]
  ELSE c

Target == IF controls.muted \/ controls.standby THEN 0 ELSE controls.gain

\* smoothed_master_gain
Smoothed(gain) ==
  IF gain < Target THEN gain + (Target - gain + 1) \div 2 ELSE gain - (gain - Target + 1) \div 2

\* Mutant: the gain recovers at its own pace even under a peak.
Recovered(gain, requested) ==
  IF requested < gain THEN requested ELSE gain + (Unity - gain) \div Release

\* LinkedLimiter: down at once, up slowly and never above what this frame allows.
LimiterGain(gain, requested) ==
  IF requested < gain THEN requested
  ELSE Min({gain + (Unity - gain) \div Release, requested})

Requested(peak) == IF peak > Ceiling THEN (Ceiling * Unity) \div peak ELSE Unity

\* process_block on a whole block is this step for each of its frames; a sample that is
\* not finite is silence.
ProcessFrame(finite) ==
  LET input == [x \in Channels |-> IF finite THEN fed + 1 ELSE -(fed + 1)]
      ring == [chain.calibration EXCEPT ![chain.write] = input]
      calibrated == Calibrated(chain, ring)
      c == Retargeted(chain)
      lip == [c.lip EXCEPT ![c.lipWrite] = calibrated]
      at == lip[ReadSlot(lip, c.lipWrite, c.delay)]
      old == IF c.fade > 0 THEN lip[ReadSlot(lip, c.lipWrite, c.previous)] ELSE at
      master == Smoothed(c.master)
      peak == Max({LevelOf(at[x]) : x \in Channels} \cup {LevelOf(old[x]) : x \in Channels})
      limiter == LimiterGain(c.limiter, Requested((peak * master) \div Unity))
  IN  /\ fed < MaxFed
      /\ fed' = fed + 1
      /\ chain' = [c EXCEPT !.calibration = ring,
                            !.write = (@ + 1) % Cardinality(DOMAIN ring),
                            !.lip = lip, !.lipWrite = (@ + 1) % Cardinality(DOMAIN lip),
                            !.fade = IF @ > 0 THEN @ - 1 ELSE 0,
                            !.master = master, !.limiter = limiter]
      /\ heard' = [at |-> at, old |-> old, gain |-> master, limiter |-> limiter]
      /\ UNCHANGED controls

\* process_block with an incomplete frame silences the block and resets the chain.
BadShape == Cleared(chain.delays)

Next ==
  \/ \E finite \in BOOLEAN : ProcessFrame(finite)
  \/ BadShape
  \/ \E d \in Calibrations : ConfigureCalibration(d)
  \/ \E n \in 0 .. MaxLipsync + 1 : SetLipsyncFrames(n)
  \/ \E b \in BOOLEAN : SetMute(b)
  \/ \E b \in BOOLEAN : SetStandby(b)
  \/ \E g \in Gains : SetMasterGain(g)

Spec == Init /\ [][Next]_odVars

-----------------------------------------------------------------------------
(* Properties                                                              *)

\* DelayedExactly: every channel plays the frame its calibration delay and the lip-sync
\* delay say, silence before there is one, at every delay up to the longest; during a
\* fade the same holds of the frame being faded out.  (the two rings and reset)
DelayedExactly ==
  fed > 0 =>
    \A x \in Channels :
      LET due(lip) == Max({0, fed - chain.delays[x] - lip})
      IN  /\ heard.at[x] \in {due(chain.delay), -due(chain.delay)}
          /\ heard.old[x] # heard.at[x] =>
               heard.old[x] \in {due(chain.previous), -due(chain.previous)}

\* ImageKept: the limiter brings a loud frame down with one gain for all channels; the
\* clamp behind it, which would flatten single channels, never has anything left to do.
\* (LinkedLimiter::process_frame)
ImageKept ==
  \A x \in Channels :
    ((LevelOf(heard.at[x]) * heard.gain) \div Unity) * heard.limiter <= Ceiling * Unity
=============================================================================
