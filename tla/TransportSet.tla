---------------------------- MODULE TransportSet ----------------------------
(***************************************************************************)
(* ModuleNetworkTransportSet of the modular speaker fabric (lib.rs): one   *)
(* worker drives the transports of all detachable modules on one media     *)
(* timeline, with the fan-out in front of them.  EspAvbTransportSet        *)
(* (coordinator.rs) has the same control.                                  *)
(*                                                                         *)
(* A transport is a simulated one (its queue may be full) or a GenAVB one  *)
(* (it checks the timeline itself and any native call may fail).  The      *)
(* set's methods take the set exclusively, so each is one action.  Time is *)
(* counted in blocks and stands for the sequence number too; samples and   *)
(* formats, checked when the set is built, are left out.                   *)
(***************************************************************************)
EXTENDS Naturals

CONSTANTS N,         \* number of routes
          Kind,      \* the implementation behind each route
          QueueCap,  \* capacity_blocks of the simulated transport
          LastTime,  \* the last time whose successor is representable
          Absent     \* None

Routes == 1 .. N
Kinds  == {"sim", "genavb"}

ASSUME TransportSetAssumption ==
  /\ N \in Nat \ {0} /\ Kind \in [Routes -> Kinds]
  /\ QueueCap \in Nat \ {0} /\ LastTime \in Nat /\ Absent \notin Nat

VARIABLES life,    \* ModuleNetworkLifecycle
          next,    \* the fan-out's next_sequence and next_timestamp
          tr,      \* the transports: [life, expected, queue]
          heard,   \* history: the last block of this stream each route took
          now      \* the media clock of the worker's input

vars == <<life, next, tr, heard, now>>

Times      == 0 .. LastTime + 1
MaybeTime  == Times \cup {Absent}
Transports == [life : {"loaded", "prepared", "started"}, expected : MaybeTime,
               queue : 0 .. QueueCap]
Silent     == [r \in Routes |-> Absent]

Init ==
  /\ life = "new" /\ next = Absent
  /\ tr = [r \in Routes |-> [life |-> "loaded", expected |-> Absent, queue |-> 0]]
  /\ heard = Silent /\ now = 0

-----------------------------------------------------------------------------
(* The transports; bad is the set of routes whose native calls fail while  *)
(* one method of the set runs.                                             *)

Native(r, bad) == Kind[r] = "sim" \/ r \notin bad

CanPrepare(r, bad) == (Kind[r] = "sim" \/ tr[r].life # "started") /\ Native(r, bad)
CanStart(r, bad)   == tr[r].life = "prepared" /\ Native(r, bad)

\* Mutant: a full queue is not noticed.
SubmitsFull(r, t, bad) ==
  /\ tr[r].life = "started" /\ Native(r, bad)
  /\ Kind[r] = "genavb" => tr[r].expected \in {Absent, t}

\* submit: the simulated queue is bounded, GenAVB keeps its own timeline
CanSubmit(r, t, bad) ==
  /\ tr[r].life = "started" /\ Native(r, bad)
  /\ Kind[r] = "sim" => tr[r].queue < QueueCap
  /\ Kind[r] = "genavb" => tr[r].expected \in {Absent, t}

Prepared    == [life |-> "prepared", expected |-> Absent, queue |-> 0]
Started(s)  == [s EXCEPT !.life = "started", !.expected = Absent]
Submitted(r, t) ==
  IF Kind[r] = "sim" THEN [tr[r] EXCEPT !.queue = @ + 1]
                     ELSE [tr[r] EXCEPT !.expected = t + 1]

\* reset: both implementations stop a started stream, so a reset after a stop,
\* failed or not, leaves a transport that is not started.
ResetOf(s) == [life |-> IF s.life = "started" THEN "prepared" ELSE s.life,
               expected |-> Absent, queue |-> 0]

\* A method that goes through the routes in order fails first at f.
FirstFailing(f, able) == f \notin able /\ 1 .. f - 1 \subseteq able

-----------------------------------------------------------------------------
(* prepare, with the roll-back of the routes prepared so far               *)

Prepare ==
  /\ life # "started"
  /\ \E bad \in SUBSET Routes :
       /\ \A r \in Routes : CanPrepare(r, bad)
       /\ tr' = [r \in Routes |-> Prepared]
  /\ next' = Absent /\ life' = "prepared"
  /\ UNCHANGED <<heard, now>>

PrepareFailed ==
  /\ life # "started"
  /\ \E bad \in SUBSET Routes, f \in Routes :
       /\ FirstFailing(f, {r \in Routes : CanPrepare(r, bad)})
       /\ tr' = [r \in Routes |-> IF r < f THEN ResetOf(Prepared) ELSE tr[r]]
  /\ next' = Absent /\ life' = "new"
  /\ UNCHANGED <<heard, now>>

(* start, with the roll-back of a partial start                            *)

Start ==
  /\ life = "prepared"
  /\ \E bad \in SUBSET Routes :
       /\ \A r \in Routes : CanStart(r, bad)
       /\ tr' = [r \in Routes |-> Started(tr[r])]
  /\ next' = Absent /\ life' = "started" /\ heard' = Silent
  /\ UNCHANGED now

\* Mutant: the routes started before the failing one are left running.
StartNoRollback ==
  /\ life = "prepared"
  /\ \E bad \in SUBSET Routes, f \in Routes :
       /\ FirstFailing(f, {r \in Routes : CanStart(r, bad)})
       /\ tr' = [r \in Routes |-> IF r < f THEN Started(tr[r]) ELSE tr[r]]
  /\ next' = Absent
  /\ UNCHANGED <<life, heard, now>>

StartFailed ==
  /\ life = "prepared"
  /\ \E bad \in SUBSET Routes, f \in Routes :
       /\ FirstFailing(f, {r \in Routes : CanStart(r, bad)})
       /\ tr' = [r \in Routes |-> IF r < f THEN ResetOf(Started(tr[r])) ELSE tr[r]]
  /\ next' = Absent
  /\ UNCHANGED <<life, heard, now>>

-----------------------------------------------------------------------------
(* submit.  The input's clock goes on whether or not a block is accepted.  *)

Input(t) == t \in {now, now + 1} \cap Times /\ now' = IF t <= LastTime THEN t + 1 ELSE t

\* Mutant: the fan-out takes a block after a gap.
SplitsAny(t) == t <= LastTime

\* split: the block continues the timeline and has a successor.  A block whose timestamp has
\* none is refused with next_sequence already one ahead of next_timestamp; `next' stands for
\* the latter, which refuses alone whatever comes on this clock until it is set back.
Splits(t) == next \in {Absent, t} /\ t <= LastTime

SubmitRefused ==
  /\ life = "started"
  /\ \E t \in Times : Input(t) /\ ~Splits(t)
  /\ UNCHANGED <<life, next, tr, heard>>

Submit ==
  /\ life = "started"
  /\ \E t \in Times, bad \in SUBSET Routes :
       /\ Input(t) /\ Splits(t)
       /\ \A r \in Routes : CanSubmit(r, t, bad)
       /\ tr' = [r \in Routes |-> Submitted(r, t)]
       /\ next' = t + 1 /\ heard' = [r \in Routes |-> t]
  /\ UNCHANGED life

\* Mutant: the failing route is only reported.
SubmitSkipped ==
  /\ life = "started"
  /\ \E t \in Times, bad \in SUBSET Routes, f \in Routes :
       /\ Input(t) /\ Splits(t)
       /\ FirstFailing(f, {r \in Routes : CanSubmit(r, t, bad)})
       /\ tr' = [r \in Routes |-> IF r < f THEN Submitted(r, t) ELSE tr[r]]
       /\ heard' = [r \in Routes |-> IF r < f THEN t ELSE heard[r]]
       /\ next' = t + 1
  /\ UNCHANGED life

\* abort_stream: one failing route stops them all.
SubmitAborted ==
  /\ life = "started"
  /\ \E t \in Times, bad \in SUBSET Routes, f \in Routes :
       /\ Input(t) /\ Splits(t)
       /\ FirstFailing(f, {r \in Routes : CanSubmit(r, t, bad)})
       /\ heard' = [r \in Routes |-> IF r < f THEN t ELSE heard[r]]
  /\ tr' = [r \in Routes |-> ResetOf(tr[r])]
  /\ next' = Absent /\ life' = "new"

(* stop tries every route and reports the first error; reset               *)

Stop ==
  /\ life = "started"
  /\ tr' = [r \in Routes |-> ResetOf(tr[r])]
  /\ next' = Absent /\ life' = "prepared"
  /\ UNCHANGED <<heard, now>>

\* Mutant: only the transports are reset.
ResetTransports ==
  /\ tr' = [r \in Routes |-> ResetOf(tr[r])]
  /\ UNCHANGED <<life, next, heard, now>>

Reset ==
  /\ tr' = [r \in Routes |-> ResetOf(tr[r])]
  /\ next' = Absent
  /\ UNCHANGED <<life, heard, now>>

\* A simulated network takes a block out of its queue (drain_one).
DrainOne ==
  /\ \E r \in Routes : /\ Kind[r] = "sim" /\ tr[r].queue > 0
                       /\ tr' = [tr EXCEPT ![r].queue = @ - 1]
  /\ UNCHANGED <<life, next, heard, now>>

Next == \/ Prepare \/ PrepareFailed \/ Start \/ StartFailed
        \/ SubmitRefused \/ Submit \/ SubmitAborted
        \/ Stop \/ Reset \/ DrainOne

Spec == Init /\ [][Next]_vars

-----------------------------------------------------------------------------
\* Type correctness; a simulated queue never exceeds its capacity.
TypeOK ==
  /\ life \in {"new", "prepared", "started"} /\ next \in MaybeTime
  /\ tr \in [Routes -> Transports] /\ heard \in [Routes -> MaybeTime] /\ now \in Times

\* "Starts all module transports atomically with rollback on partial start",
\* and every failure "invalidates the complete set rather than allowing one
\* detached speaker to continue on a stale epoch": unless the set is started
\* no transport is, whichever route failed in whichever method.
NoStraggler == life # "started" => \A r \in Routes : tr[r].life # "started"

\* "All module transports share the same Aurora input timeline": as long as
\* the set is started every module has taken exactly the same blocks.
InStep == life = "started" => \A q, r \in Routes : heard[q] = heard[r]

\* The fan-out and the transports that keep a timeline of their own agree on
\* the next block, so that a stop, a reset or an abort never leaves a started
\* set that one of its routes will refuse for ever.
TimelineShared ==
  life = "started" =>
    \A r \in Routes : Kind[r] = "genavb" => tr[r].expected = next

\* SetSafe: the routes of a set run, and have heard and expect, the same.
SetSafe == TypeOK /\ NoStraggler /\ InStep /\ TimelineShared

\* "Sequence and presentation timestamp must be exactly continuous inside one
\* stream epoch": a module that hears two blocks of a stream hears them in a
\* row, however the set was stopped, reset or aborted in between.
NoGapHeard ==
  [][\A r \in Routes : heard'[r] \notin {heard[r], Absent} /\ heard[r] # Absent
       => heard'[r] = heard[r] + 1]_vars
=============================================================================
