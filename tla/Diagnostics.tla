----------------------------- MODULE Diagnostics -----------------------------
(***************************************************************************)
(* aurora-diagnostics: the bounded event log and its shared handle, the    *)
(* counters that real-time callbacks update while a control thread takes   *)
(* snapshots of them, and the validation of events, support snapshots and  *)
(* reports.                                                                *)
(*                                                                         *)
(* Abstraction: a text is its length in bytes, 0 for one that is blank,    *)
(* and a payload is the lengths of its fields.  The counters are one group *)
(* of count, total and maximum (callbacks, renderers and benchmarks have   *)
(* one each, all updated by increment_timing) and the queue gauge with its *)
(* maximum; the other counters are updated as `count' is.  Every update    *)
(* and every load is Relaxed, so those of one call take effect in any      *)
(* order.  2^64 nanoseconds are centuries: fetch_add does not wrap.        *)
(***************************************************************************)
EXTENDS Integers, Sequences, FiniteSets, Folds

CONSTANTS Capacity, MaxEventBytes, \* DiagnosticLog::with_max_event_bytes
          MostCounted,             \* where the counters of the log saturate, u64::MAX
          Events,                  \* events anyone pushes
          Severities,              \* numbers, the least urgent lowest
          SupportDocuments,        \* support snapshots and reports anyone validates
          MaxPushes,               \* bound on the pushes
          Recorders,               \* threads that record
          Durations, Occupancies,  \* what they record
          MaxRecordings,           \* bound on the recordings
          None

VARIABLES shared,     \* whether the log is behind a SharedDiagnosticLog
          poisoned,   \* its mutex
          log,        \* DiagnosticLog
          admitted,   \* history: every event that was retained, in order
          outcomes,   \* history: how often push had each outcome
          accepted,   \* the last document that validated
          counters,   \* RealtimeMetricCounters
          recorders,  \* what each thread records and the updates it has still to make
          begun,      \* history: the counters, had every recording begun been made
          finished,   \* history: the same for the recordings that have returned
          taking,     \* the snapshot being taken: the fields read, and what they may not miss
          taken       \* the last snapshot

logVars == <<shared, poisoned, log, admitted, outcomes, accepted>>
metricVars == <<counters, recorders, begun, finished, taking, taken>>
dgVars == <<shared, poisoned, log, admitted, outcomes, accepted,
            counters, recorders, begun, finished, taking, taken>>

-----------------------------------------------------------------------------
(* Validation                                                              *)

SchemaVersion == 1
NoText == -1                                  \* a value that is not a text

\* Mutant: a blank path is a path.
AnyPath(source, path) ==
  IF source = "PhysicalMeasurement" THEN path # None ELSE path = None

\* validate_truth_source_evidence; path is the length of the text under
\* physical_signal_path, NoText for another value, None where there is none.
TruthSourceEvidence(source, path) ==
  IF source = "PhysicalMeasurement" THEN path \notin {None, NoText, 0} ELSE path = None

EventValid(event) ==
  /\ event.schema = SchemaVersion
  /\ event.component # 0
  /\ \A i \in DOMAIN event.fields : event.fields[i].key # 0
  /\ TruthSourceEvidence(event.source, event.path)

\* DiagnosticSnapshot::validate
SnapshotValid(s) ==
  /\ s.schema = SchemaVersion /\ s.renderer # 0
  /\ s.occupancy <= s.capacity /\ s.retained <= s.retainable
  /\ s.platform # 0 /\ s.version # 0 /\ s.commit # 0
  /\ TruthSourceEvidence(s.source, s.path)

\* DiagnosticReport::validate
ReportValid(r) ==
  /\ r.schema = SchemaVersion /\ r.component # 0
  /\ r.operation # 0 /\ r.scenario # 0 /\ r.recommendation # 0
  /\ r.source = "DeterministicSimulation" => r.seed # None
  /\ TruthSourceEvidence(r.source, r.path)

DocumentValid(d) == IF d.type = "snapshot" THEN SnapshotValid(d) ELSE ReportValid(d)

\* estimated_size_bytes: fixed overheads for the event and for each field
EstimatedSize(event) ==
  MapThenFoldSet(LAMBDA a, b : a + b, 128 + event.component,
                 LAMBDA i : 64 + event.fields[i].key + event.fields[i].value,
                 LAMBDA S : CHOOSE i \in S : TRUE, DOMAIN event.fields)

-----------------------------------------------------------------------------
(* The log                                                                 *)

EmptyLog(minimum) ==
  [events |-> <<>>, minimum |-> minimum, dropped |-> 0, filtered |-> 0, oversized |-> 0,
   invalid |-> 0]

Dispositions ==
  {"Retained", "RetainedAfterEviction", "Filtered", "RejectedOversized", "RejectedInvalid"}

LogInit ==
  /\ shared \in BOOLEAN /\ poisoned = FALSE
  /\ \E minimum \in Severities : log = EmptyLog(minimum)
  /\ admitted = <<>> /\ outcomes = [d \in Dispositions |-> 0] /\ accepted = None

Saturating(n) == IF n < MostCounted THEN n + 1 ELSE n

Disposition(event) ==
  IF ~EventValid(event) THEN "RejectedInvalid"
  ELSE IF event.severity < log.minimum THEN "Filtered"
  ELSE IF EstimatedSize(event) > MaxEventBytes THEN "RejectedOversized"
  ELSE IF Len(log.events) = Capacity THEN "RetainedAfterEviction" ELSE "Retained"

\* Mutant: the newest event makes room.
EvictsNewest(event, disposition) ==
  IF disposition = "RetainedAfterEviction"
  THEN [log EXCEPT !.events = Append(SubSeq(@, 1, Len(@) - 1), event), !.dropped = Saturating(@)]
  ELSE [log EXCEPT !.events = Append(@, event)]

\* The log after an event was retained.
Retaining(event, disposition) ==
  IF disposition = "RetainedAfterEviction"
  THEN [log EXCEPT !.events = Append(Tail(@), event), !.dropped = Saturating(@)]
  ELSE [log EXCEPT !.events = Append(@, event)]

\* push, by an owner or through the shared handle, whose poisoned lock changes nothing
Push(event) ==
  LET disposition == Disposition(event)
      retained == disposition \in {"Retained", "RetainedAfterEviction"}
  IN /\ ~poisoned /\ Len(admitted) < MaxPushes /\ outcomes[disposition] < MaxPushes
     /\ log' = CASE disposition = "RejectedInvalid" -> [log EXCEPT !.invalid = Saturating(@)]
                 [] disposition = "Filtered" -> [log EXCEPT !.filtered = Saturating(@)]
                 [] disposition = "RejectedOversized" -> [log EXCEPT !.oversized = Saturating(@)]
                 [] retained -> Retaining(event, disposition)
     /\ admitted' = IF retained THEN Append(admitted, event) ELSE admitted
     /\ outcomes' = [outcomes EXCEPT ![disposition] = @ + 1]
     /\ UNCHANGED <<shared, poisoned, accepted>>

\* The shared handle lends the log to be read only.
SetMinimumSeverity(severity) ==
  /\ ~shared
  /\ log' = [log EXCEPT !.minimum = severity]
  /\ UNCHANGED <<shared, poisoned, admitted, outcomes, accepted>>

\* inspect with an operation that panics while it holds the lock
InspectPanics ==
  /\ shared
  /\ poisoned' = TRUE
  /\ UNCHANGED <<shared, log, admitted, outcomes, accepted>>

Validate(document) ==
  /\ accepted' = IF DocumentValid(document) THEN document ELSE None
  /\ UNCHANGED <<shared, poisoned, log, admitted, outcomes>>

-----------------------------------------------------------------------------
(* The counters                                                            *)

Timing == {"count", "total", "max"}
Gauge == {"occupancy", "peak"}
Fields == Timing \union Gauge
Cumulative == Fields \ {"occupancy"}

Larger(a, b) == IF a > b THEN a ELSE b

Zeroed == [f \in Fields |-> 0]
Idle == [value |-> 0, pending |-> {}]

MetricInit ==
  /\ counters = Zeroed
  /\ recorders = [r \in Recorders |-> Idle]
  /\ begun = Zeroed /\ finished = Zeroed
  /\ taking = None
  /\ taken = Zeroed

\* Mutant: the maximum is stored, not raised.
StoresMaximum(before, field, value) ==
  CASE field = "count" -> before + 1
    [] field = "total" -> before + value
    [] field \in {"max", "occupancy", "peak"} -> value

\* One atomic operation of increment_timing or record_queue_occupancy.
Updated(before, field, value) ==
  CASE field = "count" -> before + 1
    [] field = "total" -> before + value
    [] field \in {"max", "peak"} -> Larger(before, value)
    [] field = "occupancy" -> value

\* What a whole call adds; in the place of the gauge, the calls.
Recorded(before, fields, value) ==
  IF fields = Timing
  THEN [before EXCEPT !["count"] = @ + 1, !["total"] = @ + value, !["max"] = Larger(@, value)]
  ELSE [before EXCEPT !["occupancy"] = @ + 1, !["peak"] = Larger(@, value)]

\* record_callback_execution and its like, and record_queue_occupancy
Begin(r, fields, value) ==
  /\ recorders[r].pending = {} /\ begun["count"] + begun["occupancy"] < MaxRecordings
  /\ recorders' = [recorders EXCEPT ![r] = [value |-> value, pending |-> fields]]
  /\ begun' = Recorded(begun, fields, value)
  /\ UNCHANGED <<counters, finished, taking, taken>>

FieldsOf(pending) == IF pending \subseteq Timing THEN Timing ELSE Gauge

Update(r, field) ==
  LET rest == recorders[r].pending \ {field}
  IN /\ field \in recorders[r].pending
     /\ counters' = [counters EXCEPT ![field] = Updated(@, field, recorders[r].value)]
     /\ recorders' = [recorders EXCEPT ![r].pending = rest]
     /\ finished' = IF rest = {}
                    THEN Recorded(finished, FieldsOf({field}), recorders[r].value) ELSE finished
     /\ UNCHANGED <<begun, taking, taken>>

\* snapshot: what has been recorded or seen before may not be missed
BeginSnapshot ==
  /\ taking = None
  /\ taking' = [read |-> {}, values |-> Zeroed,
                floor |-> [f \in Fields |-> Larger(finished[f], taken[f])]]
  /\ UNCHANGED <<counters, recorders, begun, finished, taken>>

Load(field) ==
  /\ taking # None /\ field \notin taking.read
  /\ taking' = [taking EXCEPT !.read = @ \union {field}, !.values[field] = counters[field]]
  /\ UNCHANGED <<counters, recorders, begun, finished, taken>>

EndSnapshot ==
  /\ taking # None /\ taking.read = Fields
  /\ taken' = taking.values
  /\ taking' = None
  /\ UNCHANGED <<counters, recorders, begun, finished>>

-----------------------------------------------------------------------------
LogNext == \/ \E event \in Events : Push(event)
           \/ \E severity \in Severities : SetMinimumSeverity(severity)
           \/ InspectPanics
           \/ \E document \in SupportDocuments : Validate(document)

MetricNext == \/ \E r \in Recorders : \/ \E ns \in Durations : Begin(r, Timing, ns)
                                      \/ \E n \in Occupancies : Begin(r, Gauge, n)
                                      \/ \E field \in Fields : Update(r, field)
              \/ BeginSnapshot \/ EndSnapshot
              \/ \E field \in Fields : Load(field)

Init == LogInit /\ MetricInit
Next == (LogNext /\ UNCHANGED metricVars) \/ (MetricNext /\ UNCHANGED logVars)

Spec == Init /\ [][Next]_dgVars

-----------------------------------------------------------------------------
(* Properties                                                              *)

Saturated(n) == IF n < MostCounted THEN n ELSE MostCounted

TypeOK ==
  /\ shared \in BOOLEAN /\ poisoned \in BOOLEAN
  /\ admitted \in Seq(Events)
  /\ outcomes \in [Dispositions -> Nat]
  /\ log.events \in Seq(Events) /\ log.minimum \in Severities

\* NewestRetained: whatever was filtered, refused or evicted in between, and whatever the
\* threshold was, the log holds the newest events that were admitted, oldest first, and as
\* many as it has room for; its counters tell how many the others were, up to where they
\* saturate.  (push)
NewestRetained ==
  LET n == Len(admitted)
      k == Len(log.events)
  IN /\ k = IF n < Capacity THEN n ELSE Capacity
     /\ \A i \in 1 .. k : log.events[i] = admitted[n - k + i]
     /\ log.dropped = Saturated(n - k)
     /\ log.filtered = Saturated(outcomes["Filtered"])
     /\ log.oversized = Saturated(outcomes["RejectedOversized"])
     /\ log.invalid = Saturated(outcomes["RejectedInvalid"])

\* TruthDocumented: no event that is retained and no support document that validates claims
\* a physical measurement without a documented path, or a path for anything else.
\* (validate_truth_source_evidence)
TruthDocumented ==
  \A d \in {log.events[i] : i \in DOMAIN log.events} \union ({accepted} \ {None}) :
    IF d.source = "PhysicalMeasurement" THEN d.path \notin {None, NoText, 0} ELSE d.path = None

\* SnapshotBracketed: a snapshot taken while callbacks record, however the loads and the
\* updates fall, misses nothing that had been recorded or seen when it began and counts
\* nothing that had not begun when it ended.  (snapshot, increment_timing)
SnapshotBracketed ==
  taking # None => \A f \in Cumulative \intersect taking.read :
                     taking.floor[f] <= taking.values[f] /\ taking.values[f] <= begun[f]
=============================================================================
