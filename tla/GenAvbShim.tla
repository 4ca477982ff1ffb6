----------------------------- MODULE GenAvbShim -----------------------------
(***************************************************************************)
(* The native GenAVB shim (aurora_genavb_shim.c): talker streams and the   *)
(* AVDECC control handle share one process-wide GenAVB runtime, its AVTP   *)
(* clock and, while streams are started, one presentation anchor.  Each    *)
(* handle is used by one thread at a time; only what runs under            *)
(* runtime_mutex or anchor_mutex is shared, so an action is one locked     *)
(* section with the private work before or after it.                       *)
(*                                                                         *)
(* Any call of the GenAVB library may fail.  Media time and AVTP time are  *)
(* counted in blocks.  The stream parameters a CONNECT caches are those of *)
(* AvbRuntime; a failed lock and the overflow of 64 bits are left out.     *)
(***************************************************************************)
EXTENDS Integers, FiniteSets

CONSTANTS Talkers,    \* stream handles
          Ctl,        \* the AVDECC handle
          Clocks,     \* AVTP clock ids
          Latencies,  \* target_latency_ns the callers ask for
          Offset,     \* presentation_offset_ns
          LastFrame,  \* bound: media frame of a block
          LastNow,    \* bound: AVTP time
          MaxInits,   \* bound: calls of genavb_init
          None

GenAvbShimAssumption ==
  /\ IsFiniteSet(Talkers) /\ Ctl \notin Talkers
  /\ Latencies \subseteq Nat \ {0} /\ Offset \in Nat
  /\ LastFrame \in Nat /\ LastNow \in Nat /\ MaxInits \in Nat
  /\ None \notin Clocks /\ None \notin [frame : Nat, at : Nat]

VARIABLES genavb,       \* runtime_genavb: the number of its genavb_init, 0 is NULL
          inits,        \* calls of genavb_init that succeeded
          users,        \* runtime_users
          avtpClock,    \* runtime_avtp_clock, None when it is not valid
          startedUsers, \* started_users
          anchor,       \* anchor_media_frame and anchor_avtp_ns, None when not valid
          latency,      \* started_target_latency_ns
          now,          \* the AVTP clock
          task,         \* the call a handle is in: [at, then, lib]
          acquired,     \* handles with runtime_acquired
          prepared, started,    \* streams with these flags
          stream, clock, target, \* the runtime a stream is of, its clock and latency
          control,      \* the runtime the control handle is of, 0 is NULL
          sent          \* history: the last block of a started stream

runtime == <<genavb, inits, users, avtpClock>>
anchored == <<startedUsers, anchor, latency>>
talkers == <<prepared, started, stream, clock, target, sent>>
vars == <<runtime, anchored, now, task, acquired, talkers, control>>

Handles == Talkers \cup {Ctl}
Idle == [at |-> "idle", then |-> "idle", lib |-> 0]

Init ==
  /\ genavb = 0 /\ inits = 0 /\ users = 0 /\ avtpClock = None
  /\ startedUsers = 0 /\ anchor = None /\ latency = 0 /\ now = 0
  /\ task = [x \in Handles |-> Idle] /\ acquired = {} /\ prepared = {} /\ started = {}
  /\ stream = [s \in Talkers |-> 0] /\ clock = [s \in Talkers |-> None]
  /\ target = [s \in Talkers |-> 0] /\ sent = [s \in Talkers |-> None]
  /\ control = 0

At(x, step) == task[x].at = step
Goto(x, step) == task' = [task EXCEPT ![x] = [Idle EXCEPT !.at = step]]

\* stream_cleanup goes on with the call that needed it
Cleanup(s, then) == task' = [task EXCEPT ![s] = [at |-> "halt", then |-> then, lib |-> 0]]

-----------------------------------------------------------------------------
(* The runtime shared by all handles                                       *)

\* runtime_acquire: the first user initialises the library
Acquire(x) ==
  /\ At(x, "acquire")
  /\ \/ genavb = 0 /\ Goto(x, "idle") /\ UNCHANGED <<runtime, acquired>>
     \/ /\ \/ genavb = 0 /\ inits < MaxInits /\ inits' = inits + 1 /\ genavb' = inits'
           \/ genavb # 0 /\ UNCHANGED <<genavb, inits>>
        /\ users' = users + 1 /\ acquired' = acquired \cup {x} /\ UNCHANGED avtpClock
        /\ task' = [task EXCEPT ![x] = [at |-> "open", then |-> "idle", lib |-> genavb']]
  /\ UNCHANGED <<anchored, now, talkers, control>>

\* Mutant: the library is exited while one user is left.
ExitEarly(x) ==
  /\ At(x, "release") /\ Goto(x, task[x].then)
  /\ IF x \in acquired
     THEN /\ users' = users - 1 /\ UNCHANGED inits
          /\ IF users <= 2 THEN genavb' = 0 /\ avtpClock' = None ELSE UNCHANGED <<genavb, avtpClock>>
     ELSE UNCHANGED runtime
  /\ acquired' = acquired \ {x} /\ prepared' = prepared \ {x}
  /\ UNCHANGED <<anchored, now, started, stream, clock, target, sent, control>>

\* runtime_release: the last user exits the library and forgets its clock
Release(x) ==
  /\ At(x, "release") /\ Goto(x, task[x].then)
  /\ IF x \in acquired
     THEN /\ users' = users - 1 /\ UNCHANGED inits
          /\ IF users = 1 THEN genavb' = 0 /\ avtpClock' = None ELSE UNCHANGED <<genavb, avtpClock>>
     ELSE UNCHANGED runtime
  /\ acquired' = acquired \ {x} /\ prepared' = prepared \ {x}
  /\ UNCHANGED <<anchored, now, started, stream, clock, target, sent, control>>

-----------------------------------------------------------------------------
(* prepare_from_params                                                     *)

\* A stream that is prepared again first gives up what it has.
Prepare(s) ==
  /\ At(s, "idle") /\ Cleanup(s, "acquire")
  /\ UNCHANGED <<runtime, anchored, now, acquired, talkers, control>>

\* genavb_stream_create, with the library runtime_acquire returned
CreateStream(s) ==
  /\ At(s, "open")
  /\ \/ /\ stream' = [stream EXCEPT ![s] = task[s].lib]
        /\ \E c \in Clocks, l \in Latencies : clock' = [clock EXCEPT ![s] = c]
                                              /\ target' = [target EXCEPT ![s] = l]
        /\ Goto(s, "register")
     \/ Cleanup(s, "idle") /\ UNCHANGED <<stream, clock, target>>
  /\ UNCHANGED <<runtime, anchored, now, acquired, prepared, started, sent, control>>

\* Mutant: a stream on another clock is accepted.
RegisterAnyClock(s) ==
  /\ At(s, "register")
  /\ avtpClock' = IF avtpClock = None THEN clock[s] ELSE avtpClock
  /\ IF target[s] >= Offset
     THEN Goto(s, "idle") /\ prepared' = prepared \cup {s}
     ELSE Cleanup(s, "idle") /\ UNCHANGED prepared
  /\ UNCHANGED <<genavb, inits, users, anchored, now, acquired, started, stream, clock, target,
                 sent, control>>

\* runtime_register_clock, and the latency has to cover the presentation offset
RegisterClock(s) ==
  /\ At(s, "register")
  /\ avtpClock' = IF avtpClock = None THEN clock[s] ELSE avtpClock
  /\ IF avtpClock' = clock[s] /\ target[s] >= Offset
     THEN Goto(s, "idle") /\ prepared' = prepared \cup {s}
     ELSE Cleanup(s, "idle") /\ UNCHANGED prepared
  /\ UNCHANGED <<genavb, inits, users, anchored, now, acquired, started, stream, clock, target,
                 sent, control>>

-----------------------------------------------------------------------------
(* start, submit, stop, destroy                                            *)

\* Mutant: every stop drops the anchor.
AnchorDropped(s) ==
  IF s \in started
  THEN startedUsers' = startedUsers - 1 /\ anchor' = None /\ UNCHANGED latency
  ELSE UNCHANGED anchored

\* anchor_stop: the last started stream takes the anchor with it
AnchorStop(s) ==
  IF s \in started
  THEN /\ startedUsers' = startedUsers - 1
       /\ IF startedUsers = 1 THEN anchor' = None /\ latency' = 0 ELSE UNCHANGED <<anchor, latency>>
  ELSE UNCHANGED anchored

\* stream_cleanup up to runtime_release
Halt(s) ==
  /\ At(s, "halt") /\ task' = [task EXCEPT ![s].at = "release"]
  /\ AnchorStop(s) /\ started' = started \ {s} /\ sent' = [sent EXCEPT ![s] = None]
  /\ stream' = [stream EXCEPT ![s] = 0]
  /\ UNCHANGED <<runtime, now, acquired, prepared, clock, target, control>>

\* anchor_start: the first stream chooses the latency, the others must share it
Start(s) ==
  /\ At(s, "idle") /\ s \in prepared \ started
  /\ \/ startedUsers = 0 /\ anchor' = None /\ latency' = target[s]
     \/ startedUsers # 0 /\ latency = target[s] /\ UNCHANGED <<anchor, latency>>
  /\ startedUsers' = startedUsers + 1 /\ started' = started \cup {s}
  /\ UNCHANGED <<runtime, now, task, acquired, prepared, stream, clock, target, sent, control>>

\* anchor_presentation_time: the first block anchors media time to the AVTP clock
Anchored(s, frame) ==
  IF anchor = None THEN [frame |-> frame, at |-> now + target[s]] ELSE anchor

\* A block before the anchor, too late for its offset, or refused by the library is not sent; a
\* clock that cannot be read leaves everything as it was.
Submit(s, frame) ==
  /\ At(s, "idle") /\ s \in started
  /\ anchor' = Anchored(s, frame)
  /\ \/ /\ frame >= anchor'.frame /\ anchor'.at + (frame - anchor'.frame) >= now + Offset
        /\ sent' = [sent EXCEPT ![s] =
                      [frame |-> frame, at |-> anchor'.at + (frame - anchor'.frame)]]
     \/ UNCHANGED sent
  /\ UNCHANGED <<runtime, startedUsers, latency, now, task, acquired, prepared, started,
                 stream, clock, target, control>>

Stop(s) ==
  /\ At(s, "idle") /\ s \in prepared
  /\ AnchorStop(s) /\ started' = started \ {s} /\ sent' = [sent EXCEPT ![s] = None]
  /\ UNCHANGED <<runtime, now, task, acquired, prepared, stream, clock, target, control>>

\* The freed handle and the next one created are alike.
Destroy(s) ==
  /\ At(s, "idle") /\ Cleanup(s, "idle")
  /\ UNCHANGED <<runtime, anchored, now, acquired, talkers, control>>

-----------------------------------------------------------------------------
(* The AVDECC handle                                                       *)

Open ==
  /\ At(Ctl, "idle") /\ control = 0 /\ Ctl \notin acquired /\ Goto(Ctl, "acquire")
  /\ UNCHANGED <<runtime, anchored, now, acquired, talkers, control>>

ControlOpen ==
  /\ At(Ctl, "open")
  /\ \/ control' = task[Ctl].lib /\ Goto(Ctl, "idle")
     \/ UNCHANGED control /\ Goto(Ctl, "release")
  /\ UNCHANGED <<runtime, anchored, now, acquired, talkers>>

\* genavb_control_close may fail; the handle is given up all the same
Close ==
  /\ At(Ctl, "idle") /\ control' = 0 /\ Goto(Ctl, "release")
  /\ UNCHANGED <<runtime, anchored, now, acquired, talkers>>

Tick == now < LastNow /\ now' = now + 1
        /\ UNCHANGED <<runtime, anchored, task, acquired, talkers, control>>

Talker(s) ==
  \/ Prepare(s) \/ CreateStream(s) \/ RegisterClock(s) \/ Halt(s) \/ Start(s) \/ Stop(s)
  \/ Destroy(s) \/ \E frame \in 0 .. LastFrame : Submit(s, frame)

Next == \/ \E x \in Handles : Acquire(x) \/ Release(x)
        \/ \E s \in Talkers : Talker(s)
        \/ Open \/ ControlOpen \/ Close \/ Tick

Spec == Init /\ [][Next]_vars

-----------------------------------------------------------------------------
Tasks == [at : {"idle", "acquire", "open", "register", "halt", "release"},
          then : {"idle", "acquire"}, lib : Nat]
Points == [frame : Nat, at : Nat]

TypeOK ==
  /\ genavb \in Nat /\ inits \in Nat /\ users \in Nat /\ startedUsers \in Nat
  /\ avtpClock \in Clocks \cup {None} /\ anchor \in Points \cup {None} /\ latency \in Nat /\ now \in Nat
  /\ task \in [Handles -> Tasks] /\ acquired \subseteq Handles
  /\ prepared \subseteq Talkers /\ started \subseteq Talkers
  /\ stream \in [Talkers -> Nat] /\ clock \in [Talkers -> Clocks \cup {None}]
  /\ target \in [Talkers -> Nat] /\ sent \in [Talkers -> Points \cup {None}] /\ control \in Nat

\* The library is initialised exactly while a handle holds it, however the calls of the
\* handles interleave.  (runtime_acquire, runtime_release)
RuntimeCounted == users = Cardinality(acquired) /\ (genavb = 0 <=> acquired = {})

\* No stream and no control handle outlives the runtime it was created in, and none is created
\* in a runtime that was exited.
NativeAlive ==
  /\ \A s \in Talkers : stream[s] # 0 => stream[s] = genavb
  /\ control # 0 => control = genavb
  /\ \A x \in Handles : At(x, "open") => task[x].lib = genavb

\* Whoever prepares, fails and stops in between: the prepared streams run on one AVTP clock and
\* the started ones ask for one latency, so one anchor serves them all.
OneClock ==
  /\ \A s \in prepared : clock[s] = avtpClock
  /\ \A s \in started : target[s] = latency

\* No anchor is left behind, and all started streams present a media frame at the same AVTP
\* time, also when one of them stops and starts again.  (anchor_start, anchor_stop)
OneTimeline ==
  /\ started = {} => anchor = None
  /\ \A s, r \in started : sent[s] # None /\ sent[r] # None =>
       sent[s].at - sent[s].frame = sent[r].at - sent[r].frame

ShimSafe == TypeOK /\ RuntimeCounted /\ NativeAlive /\ OneClock /\ OneTimeline
=============================================================================
