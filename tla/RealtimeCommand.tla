-------------------------- MODULE RealtimeCommand --------------------------
(***************************************************************************)
(* `aurora realtime': the command opens an output stream whose callback    *)
(* runs the engine and publishes its metrics in relaxed atomic counters,   *)
(* sleeps, stops the stream, reads the counters and judges the run with    *)
(* aurora-realtime-acceptance.                                             *)
(*                                                                         *)
(* Abstraction: a duration is a number of histogram buckets, the block's   *)
(* budget is Buckets of them; the engine's faults are chosen by the        *)
(* renderer and the host.  stop does not wait for a callback in flight, as *)
(* cpal's pause promises nothing of the kind.                              *)
(***************************************************************************)
EXTENDS Naturals, FiniteSetsExt, Functions

CONSTANTS Buckets,        \* TIMING_HISTOGRAM_BUCKETS
          Percentile,     \* 95 in the code
          MaxDuration,    \* longest callback, beyond the budget
          MaxCallbacks,
          Limits,         \* max_p95_budget_usage_percent, in buckets
          LatencyLimits,  \* max_estimated_end_to_end_latency_frames
          Latency         \* estimated latency of the prepared engine

VARIABLES command,   \* phase of the control thread and its policy
          metrics,   \* RealTimeMetrics of the engine, owned by the callback
          durations, \* history: how many callbacks took d buckets
          counters,  \* RealtimeCounters
          stored     \* fields the callback in flight has stored, -1 between callbacks

rcVars == <<command, metrics, durations, counters, stored>>

\* The order in which the callback stores what the verdict reads.
Fields == <<"input_underruns", "output_underruns", "dropped_blocks", "callback_count",
            "p95", "fault">>

Idle == -1

Zero == [input_underruns |-> 0, output_underruns |-> 0, dropped_blocks |-> 0,
         callback_count |-> 0, p95 |-> 0, fault |-> "None"]

\* Scene, engine and stream are prepared before the first callback; the input device is
\* never opened, so an engine without a test signal has no input.
Init ==
  /\ \E limit \in Limits, latency \in LatencyLimits, signal \in BOOLEAN :
       command = [phase |-> "opened", limit |-> limit, latency |-> latency, signal |-> signal,
                  accepted |-> FALSE, quiet |-> FALSE]
  /\ metrics = Zero /\ counters = Zero
  /\ durations = [d \in 0 .. MaxDuration |-> 0]
  /\ stored = Idle

Start == /\ command.phase = "opened"
         /\ command' = [command EXCEPT !.phase = "running"]
         /\ UNCHANGED <<metrics, durations, counters, stored>>

-----------------------------------------------------------------------------
(* The callback                                                            *)

\* record_timing: a callback over the budget counts in the last bucket.
Bucket(duration) == Min({duration, Buckets - 1})

UpTo(counts, d) == FoldFunctionOnSet(+, 0, counts, {x \in DOMAIN counts : x <= d})

\* The smallest duration that at least Percentile percent of the callbacks kept.
Quantile(counts) ==
  Min({d \in DOMAIN counts :
         UpTo(counts, d) * 100 >= UpTo(counts, Max(DOMAIN counts)) * Percentile})

\* Mutant: the lower end of the bucket is reported.
LowerEnd(counts) ==
  LET histogram == [b \in 0 .. Buckets - 1 |->
        FoldFunctionOnSet(+, 0, counts, {d \in DOMAIN counts : Bucket(d) = b})]
  IN  Quantile(histogram)

\* histogram_percentile reports the upper end of the bucket.
HistogramPercentile(counts) ==
  LET histogram == [b \in 0 .. Buckets - 1 |->
        FoldFunctionOnSet(+, 0, counts, {d \in DOMAIN counts : Bucket(d) = b})]
  IN  Quantile(histogram) + 1

One(condition) == IF condition THEN 1 ELSE 0

\* metrics.fault is replaced by a new fault and kept otherwise.
StickyFault(old, new) == IF new = "None" THEN old ELSE new

\* process_interleaved ends: the engine's metrics are those of this callback.
Callback(fault, duration) ==
  /\ command.phase = "running" /\ stored = Idle
  /\ metrics.callback_count < MaxCallbacks
  /\ ~command.signal => fault \in {"InputBuffer", "OutputBuffer"}
  /\ durations' = [durations EXCEPT ![duration] = @ + 1]
  /\ metrics' = [input_underruns |-> metrics.input_underruns + One(fault = "InputBuffer"),
                 output_underruns |-> metrics.output_underruns + One(fault = "OutputBuffer"),
                 dropped_blocks |-> metrics.dropped_blocks + One(fault # "None"),
                 callback_count |-> metrics.callback_count + 1,
                 p95 |-> HistogramPercentile(durations'),
                 fault |-> StickyFault(metrics.fault, fault)]
  /\ stored' = 0
  /\ UNCHANGED <<command, counters>>

\* One relaxed store; the last one ends the callback.  It is not held up by stop.
Store ==
  /\ stored # Idle
  /\ counters' = [counters EXCEPT ![Fields[stored + 1]] = metrics[Fields[stored + 1]]]
  /\ stored' = IF stored + 1 = 6 THEN Idle ELSE stored + 1
  /\ UNCHANGED <<command, metrics, durations>>

-----------------------------------------------------------------------------
(* The verdict                                                             *)

\* `quiet' is history: no callback was in flight.
Stop == /\ command.phase = "running"
        /\ command' = [command EXCEPT !.phase = "stopped", !.quiet = (stored = Idle)]
        /\ UNCHANGED <<metrics, durations, counters, stored>>

\* evaluate_realtime_acceptance with the strict default policy.
Accepted(m) ==
  /\ m.callback_count > 0
  /\ m.fault = "None"
  /\ m.input_underruns = 0 /\ m.output_underruns = 0 /\ m.dropped_blocks = 0
  /\ m.p95 <= command.limit
  /\ Latency <= command.latency

\* The final loads and the verdict; a rejected run still writes its report.
Judge == /\ command.phase = "stopped"
         /\ command' = [command EXCEPT !.phase = "judged", !.accepted = Accepted(counters)]
         /\ UNCHANGED <<metrics, durations, counters, stored>>

Next ==
  \/ Start \/ Store \/ Stop \/ Judge
  \/ \E fault \in {"None", "OutputBuffer", "InputBuffer", "Renderer", "Dsp"},
        duration \in 0 .. MaxDuration : Callback(fault, duration)

Spec == Init /\ [][Next]_rcVars

-----------------------------------------------------------------------------
(* Properties                                                              *)

\* AcceptedKeptBudget: "p95 callback duration must not exceed 100% of the configured
\* block-duration budget" (docs/realtime-health-acceptance.md), and any lower limit asked
\* for: the callbacks of an accepted run, stopped between two of them, kept it.
\* (record_timing, histogram_percentile, evaluate_realtime_acceptance)
AcceptedKeptBudget ==
  command.accepted /\ command.quiet => Quantile(durations) <= command.limit
=============================================================================
