--------------------------- MODULE AdaptiveDuplex ---------------------------
(***************************************************************************)
(* The adaptive duplex bridge (duplex.rs, drift_controller.rs,             *)
(* estimator.rs): an input callback feeds the frame ring, an output        *)
(* callback drains it through the resampler, and the control thread may    *)
(* declare the clock relationship broken.  They share only atomics; each   *)
(* action below is one access to them, or several that no other thread     *)
(* reads in between.                                                       *)
(*                                                                         *)
(* The ring is its number of frames (SpscRing shows it is a FIFO), audio   *)
(* and ratios are left out.  A measurement window is a number of           *)
(* observations and its result is in range or not; a feed-forward term is  *)
(* named by the clock epoch it was measured in.                            *)
(***************************************************************************)
EXTENDS Integers

CONSTANTS Cap, Target,     \* capacity_frames, target_fill_frames
          MaxExcursion,    \* policy.maximum_excursion_frames
          MaxUnderflows,   \* policy.maximum_consecutive_underflows
          MaxOverflows,    \* policy.maximum_consecutive_overflows
          Block,           \* max_output_block_frames, the size of the cache
          Needs,           \* input frames one refill may require
          Window,          \* observations that complete a window
          TrustedWindows,  \* clean windows before an estimate is trusted
          Pushes, Reads,   \* sizes of the callbacks, in frames
          MaxFrames,       \* bound: frames received
          MaxReads,        \* bound: output callbacks
          MaxMarks,        \* bound: shape faults and marked discontinuities
          Absent           \* no feed-forward

AdaptiveAssumption ==
  /\ Cap \in Nat /\ Target \in Nat /\ Target < Cap
  /\ MaxExcursion \in Nat /\ MaxUnderflows \in Nat /\ MaxOverflows \in Nat
  /\ MaxFrames \in Nat /\ MaxReads \in Nat /\ MaxMarks \in Nat
  /\ Block \in Nat \ {0} /\ Window \in Nat \ {0} /\ TrustedWindows \in Nat \ {0}
  /\ Needs \subseteq Nat /\ Pushes \subseteq Nat \ {0} /\ Reads \subseteq Nat \ {0}
  /\ Absent \notin Nat

VARIABLES
  fill,                      \* frames in the ring
  received, rejected,        \* input_frames_received, overflow_count
  consumed,                  \* history: frames popped by refills
  epoch,                     \* clock_epoch
  trusted,                   \* clock_estimate_trusted
  overflows, underflows,     \* consecutive_overflows, consecutive_underflows
  health, shape, fault,      \* DuplexHealth, DuplexFault, AdaptiveDuplexFault
  prod, cons, ctrl,          \* the calls in progress of the three threads
  cache,                     \* frames left in output_cache
  clock,                     \* the consumer's clock baseline
  est,                       \* the estimator: [win, clean, ff]
  latched,                   \* fault_latched
  reads, marks               \* output callbacks, shape faults and marks

ring == <<fill, received, rejected, consumed>>
status == <<epoch, trusted, overflows, underflows, health, shape, fault>>
private == <<cache, clock, est, latched>>
vars == <<ring, status, prod, cons, ctrl, private, reads, marks>>

Faults == {"controller", "resampler", "inputCapacity"}
Idle == "idle"
NoPush == [op |-> Idle, frames |-> 0, accepted |-> 0]
NoRead == [op |-> Idle, left |-> 0, epoch |-> 0, input |-> 0, output |-> 0, fault |-> "none"]
NoEstimate == [win |-> 0, clean |-> 0, ff |-> Absent]

Init ==
  /\ fill = 0 /\ received = 0 /\ rejected = 0 /\ consumed = 0
  /\ epoch = 0 /\ trusted = FALSE /\ overflows = 0 /\ underflows = 0
  /\ health = "normal" /\ shape = "none" /\ fault = "none"
  /\ prod = NoPush /\ cons = NoRead /\ ctrl = Idle
  /\ cache = 0 /\ latched = FALSE /\ est = NoEstimate
  /\ clock = [known |-> FALSE, epoch |-> 0, input |-> 0, output |-> 0]
  /\ reads = 0 /\ marks = 0

\* observe_fill: an excursion beyond the policy is fatal
Excursion(f) == f - Target > MaxExcursion \/ Target - f > MaxExcursion
RaisedIf(bad) == IF bad THEN "fatal" ELSE health

-----------------------------------------------------------------------------
(* The input callback: push_interleaved.                                   *)

PushFormat ==
  /\ prod = NoPush /\ marks < MaxMarks
  /\ shape' = "inputFormat" /\ epoch' = epoch + 1 /\ marks' = marks + 1
  /\ UNCHANGED <<ring, trusted, overflows, underflows, health, fault, prod, cons, ctrl,
                 private, reads>>

\* Mutant: the free space is taken from the whole capacity.
AcceptAll(n) == IF n <= Cap THEN n ELSE Cap
Accepted(n) == IF n <= Cap - fill THEN n ELSE Cap - fill

PushBegin ==
  /\ prod = NoPush
  /\ \E n \in Pushes :
       /\ received + n <= MaxFrames
       /\ received' = received + n
       /\ prod' = [op |-> "push", frames |-> n, accepted |-> Accepted(n)]
  /\ UNCHANGED <<fill, rejected, consumed, status, cons, ctrl, private, reads, marks>>

Push ==
  /\ prod.op = "push"
  /\ fill' = fill + prod.accepted
  /\ prod' = [prod EXCEPT !.op = "account"]
  /\ UNCHANGED <<received, rejected, consumed, status, cons, ctrl, private, reads, marks>>

\* Mutant: rejected frames are not counted.
AccountNothing ==
  /\ prod.op = "account" /\ prod' = [prod EXCEPT !.op = "observe"]
  /\ overflows' = 0
  /\ UNCHANGED <<ring, epoch, trusted, underflows, health, shape, fault,
                 cons, ctrl, private, reads, marks>>

\* Rejected frames break the clock relationship.
PushAccount ==
  /\ prod.op = "account" /\ prod' = [prod EXCEPT !.op = "observe"]
  /\ IF prod.accepted < prod.frames
       THEN /\ rejected' = rejected + (prod.frames - prod.accepted)
            /\ epoch' = epoch + 1 /\ overflows' = overflows + 1
            /\ health' = RaisedIf(overflows' > MaxOverflows)
       ELSE overflows' = 0 /\ UNCHANGED <<rejected, epoch, health>>
  /\ UNCHANGED <<fill, received, consumed, trusted, underflows, shape, fault,
                 cons, ctrl, private, reads, marks>>

PushObserve ==
  /\ prod.op = "observe" /\ prod' = NoPush
  /\ health' = RaisedIf(Excursion(fill))
  /\ UNCHANGED <<ring, epoch, trusted, overflows, underflows, shape, fault,
                 cons, ctrl, private, reads, marks>>

-----------------------------------------------------------------------------
(* The output callback: read_interleaved, with refill_cache and            *)
(* observe_runtime_clock.                                                  *)

At(op) == cons.op = op
Goto(op) == cons' = [cons EXCEPT !.op = op]

ReadFormat ==
  /\ cons = NoRead /\ marks < MaxMarks
  /\ shape' = "outputFormat" /\ epoch' = epoch + 1 /\ marks' = marks + 1
  /\ UNCHANGED <<ring, trusted, overflows, underflows, health, fault, prod, cons, ctrl,
                 private, reads>>

\* Mutant: a latched bridge is read like any other.
ReadBeginLatched ==
  /\ cons = NoRead /\ reads < MaxReads
  /\ \E n \in Reads : cons' = [NoRead EXCEPT !.op = "drain", !.left = n]
  /\ reads' = reads + 1
  /\ UNCHANGED <<ring, status, prod, ctrl, private, marks>>

\* A latched bridge returns silence and touches nothing.
ReadBegin ==
  /\ cons = NoRead /\ ~latched /\ reads < MaxReads
  /\ \E n \in Reads : cons' = [NoRead EXCEPT !.op = "drain", !.left = n]
  /\ reads' = reads + 1
  /\ UNCHANGED <<ring, status, prod, ctrl, private, marks>>

Drain ==
  /\ At("drain") /\ cons.left > 0 /\ cache > 0
  /\ LET n == IF cache <= cons.left THEN cache ELSE cons.left
     IN cache' = cache - n /\ cons' = [cons EXCEPT !.left = @ - n]
  /\ UNCHANGED <<ring, status, prod, ctrl, clock, est, latched, reads, marks>>

Drained ==
  /\ At("drain") /\ cons.left = 0 /\ Goto("finish")
  /\ UNCHANGED <<ring, status, prod, ctrl, private, reads, marks>>

\* observe_runtime_clock reads the epoch before the counters.
LoadEpoch ==
  /\ At("drain") /\ cons.left > 0 /\ cache = 0
  /\ cons' = [cons EXCEPT !.op = "count", !.epoch = epoch]
  /\ UNCHANGED <<ring, status, prod, ctrl, private, reads, marks>>

LoadCounts ==
  /\ At("count")
  /\ cons' = [cons EXCEPT !.op = "observe", !.input = received, !.output = reads]
  /\ UNCHANGED <<ring, status, prod, ctrl, private, reads, marks>>

Baseline == clock' = [known |-> TRUE, epoch |-> cons.epoch, input |-> cons.input, output |-> cons.output]

\* Mutant: a new epoch only moves the baseline.
NewEpochKeepsEstimate ==
  /\ clock.known /\ cons.epoch # clock.epoch
  /\ Baseline /\ Goto("distrust") /\ UNCHANGED est

\* A new epoch restarts the controller and the estimator.
NewEpoch ==
  /\ clock.known /\ cons.epoch # clock.epoch
  /\ Baseline /\ Goto("distrust") /\ est' = NoEstimate

Advanced == cons.input > clock.input /\ cons.output > clock.output

\* What the estimator makes of an observation: the window goes on, or it is
\* complete and in range, or complete and out of range, which clears it.
WindowGoesOn == est.win + 1 < Window
CleanWindows == IF est.clean < TrustedWindows THEN est.clean + 1 ELSE est.clean

Fail(f) == cons' = [cons EXCEPT !.op = "latch", !.fault = f]

\* observe_clock_frames: the trusted estimate becomes the feed-forward.
Measure ==
  /\ clock.known /\ cons.epoch = clock.epoch /\ Advanced
  /\ clock' = [clock EXCEPT !.input = cons.input, !.output = cons.output]
  /\ \/ WindowGoesOn /\ est' = [est EXCEPT !.win = @ + 1] /\ Goto("update")
     \/ ~WindowGoesOn /\ est' = NoEstimate /\ Fail("controller")
     \/ /\ ~WindowGoesOn /\ CleanWindows < TrustedWindows
        /\ est' = [est EXCEPT !.win = 0, !.clean = CleanWindows] /\ Goto("update")
     \/ /\ ~WindowGoesOn /\ CleanWindows = TrustedWindows
        /\ est' = [win |-> 0, clean |-> CleanWindows, ff |-> clock.epoch] /\ Goto("trust")

ObserveClock ==
  /\ At("observe")
  /\ \/ ~clock.known /\ Baseline /\ Goto("update") /\ UNCHANGED est
     \/ NewEpoch
     \/ Measure
     \/ clock.known /\ cons.epoch = clock.epoch /\ ~Advanced /\ Goto("update") /\ UNCHANGED <<clock, est>>
  /\ UNCHANGED <<ring, status, prod, ctrl, cache, latched, reads, marks>>

PublishTrust ==
  /\ \/ At("trust") /\ trusted' = TRUE
     \/ At("distrust") /\ trusted' = FALSE
  /\ Goto("update")
  /\ UNCHANGED <<ring, epoch, overflows, underflows, health, shape, fault, prod, ctrl,
                 private, reads, marks>>

\* The controller gives up when it has been saturated for too long, the
\* resampler when the ratio is out of its range.
ControllerUpdate == Fail("controller") \/ Goto("pop")
SetRatio == Fail("resampler") \/ Goto("pop")

\* The refill goes on with the new ratio, unless the resampler then asks for
\* more than the scratch holds.
UpdateRatio ==
  /\ At("update")
  /\ ControllerUpdate \/ SetRatio \/ Fail("inputCapacity")
  /\ UNCHANGED <<ring, status, prod, ctrl, private, reads, marks>>

\* The resampler fills the whole cache or fails.
Process == \/ cache' = Block /\ Goto("drain")
           \/ Fail("resampler") /\ UNCHANGED cache

Pop ==
  /\ At("pop")
  /\ \E need \in Needs :
       IF fill < need
         THEN Goto("underflow") /\ UNCHANGED <<fill, consumed, cache>>
         ELSE fill' = fill - need /\ consumed' = consumed + need /\ Process
  /\ UNCHANGED <<received, rejected, status, prod, ctrl, clock, est, latched, reads, marks>>

\* latch_adaptive_fault
Latch ==
  /\ At("latch")
  /\ latched' = TRUE /\ trusted' = FALSE /\ Goto("publish")
  /\ UNCHANGED <<ring, epoch, overflows, underflows, health, shape, fault, prod, ctrl,
                 cache, clock, est, reads, marks>>

\* Mutant: the fault code is stored without raising the health.
PublishFaultOnly ==
  /\ At("publish")
  /\ fault' = cons.fault /\ Goto("finish")
  /\ UNCHANGED <<ring, epoch, trusted, overflows, underflows, health, shape, prod, ctrl,
                 private, reads, marks>>

PublishFault ==
  /\ At("publish")
  /\ fault' = cons.fault /\ health' = "fatal" /\ Goto("finish")
  /\ UNCHANGED <<ring, epoch, trusted, overflows, underflows, shape, prod, ctrl,
                 private, reads, marks>>

\* The rest of the callback is silence; a streak of underflows is fatal.
FinishShort ==
  /\ At("underflow") /\ cons' = NoRead
  /\ epoch' = epoch + 1 /\ underflows' = underflows + 1
  /\ health' = RaisedIf(underflows' > MaxUnderflows \/ Excursion(fill))
  /\ UNCHANGED <<ring, trusted, overflows, shape, fault, prod, ctrl,
                 private, reads, marks>>

Finish ==
  /\ At("finish") /\ cons' = NoRead
  /\ underflows' = 0 /\ health' = RaisedIf(Excursion(fill))
  /\ UNCHANGED <<ring, epoch, trusted, overflows, shape, fault, prod, ctrl,
                 private, reads, marks>>

-----------------------------------------------------------------------------
(* The control thread: mark_clock_discontinuity.                           *)

MarkDistrust ==
  /\ ctrl = Idle /\ marks < MaxMarks
  /\ trusted' = FALSE /\ ctrl' = "bump" /\ marks' = marks + 1
  /\ UNCHANGED <<ring, epoch, overflows, underflows, health, shape, fault, prod, cons,
                 private, reads>>

MarkBump ==
  /\ ctrl = "bump" /\ ctrl' = Idle /\ epoch' = epoch + 1
  /\ UNCHANGED <<ring, trusted, overflows, underflows, health, shape, fault, prod, cons,
                 private, reads, marks>>

Producer == PushFormat \/ PushBegin \/ Push \/ PushAccount \/ PushObserve
Consumer == \/ ReadFormat \/ ReadBegin \/ Drain \/ Drained \/ LoadEpoch \/ LoadCounts
            \/ ObserveClock \/ PublishTrust \/ UpdateRatio \/ Pop
            \/ Latch \/ PublishFault \/ FinishShort \/ Finish
Control == MarkDistrust \/ MarkBump
Next == Producer \/ Consumer \/ Control

Spec == Init /\ [][Next]_vars

-----------------------------------------------------------------------------
\* Type correctness; the ring never holds more than its capacity, so the push
\* after the length check is never refused (debug_assert!(pushed)).
TypeOK ==
  /\ fill \in 0..Cap /\ cache \in 0..Block
  /\ received \in Nat /\ rejected \in Nat /\ consumed \in Nat /\ epoch \in Nat
  /\ overflows \in Nat /\ underflows \in Nat /\ reads \in Nat /\ marks \in Nat
  /\ trusted \in BOOLEAN /\ latched \in BOOLEAN
  /\ health \in {"normal", "fatal"} /\ fault \in Faults \cup {"none"}
  /\ shape \in {"none", "inputFormat", "outputFormat"}
  /\ est \in [win : 0 .. Window - 1, clean : 0 .. TrustedWindows, ff : Nat \cup {Absent}]

\* Every captured frame is accounted for: still in the ring, played, counted
\* as rejected, or in the hands of the callback under way.
FramesAccounted ==
  received = fill + consumed + rejected
             + (CASE prod.op = "push" -> prod.frames
                  [] prod.op = "account" -> prod.frames - prod.accepted
                  [] OTHER -> 0)

\* "The output callback observes the epoch change, clears controller
\* feed-forward, and restarts the estimator before applying another trusted
\* measurement": when a refill sets the ratio, the feed-forward it uses was
\* measured in the epoch that refill saw, in windows of that epoch only.
FeedforwardOfEpoch ==
  /\ At("update") => est.ff \in {Absent, cons.epoch}
  /\ est.ff # Absent => est.clean = TrustedWindows /\ est.ff = clock.epoch

\* "Hard adaptive faults remain muted until the control plane rebuilds this
\* bridge": after the latch no frame is consumed and no cached frame is
\* played.
LatchIsFinal ==
  [][latched => latched' /\ consumed' = consumed /\ cache' = cache]_vars

\* A latched fault is visible to the control thread once the callback returns.
LatchPublished ==
  latched /\ cons = NoRead => fault # "none" /\ health = "fatal" /\ ~trusted
=============================================================================
