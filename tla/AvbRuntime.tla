----------------------------- MODULE AvbRuntime -----------------------------
(***************************************************************************)
(* SixStreamGenAvbRuntime: the AVDECC control handle, the session that     *)
(* collects the CONNECT indications of all streams, the GenAVB talkers and *)
(* the fan-out, driven by one worker.  The native control handle caches    *)
(* the parameters of each connected stream, and a talker is prepared from  *)
(* that cache, not from the session.                                       *)
(*                                                                         *)
(* Any native call may fail.  Time is counted in blocks and stands for the *)
(* sequence number too; samples are left out.                              *)
(***************************************************************************)
EXTENDS Naturals, FiniteSets

CONSTANTS N,           \* endpoints of the fan-out, streams of the session
          Indexes,     \* AVDECC stream indexes
          Params,      \* identities of streams: [sid, mac, port]
          Zero,        \* the all-zero stream id or address
          Plans,       \* fan-out plans the caller may load
          Tables,      \* tables of expected streams the caller may load
          LastTime,    \* the last time whose successor is representable
          None

AvbAssumption ==
  /\ N \in Nat \ {0} /\ LastTime \in Nat
  /\ None \notin Nat /\ None \notin Params /\ None \notin Indexes
  /\ \A t \in Tables : t \in [1 .. N -> Indexes]

VARIABLES phase,    \* RuntimeLifecycle, "none" before load
          control,  \* lifecycle of GenAvbAvdeccControl, or "dead": it says Open
                    \* but the native handle is gone
          cache,    \* the stream parameters cached in the native handle
          table,    \* expected: the stream index of each slot
          conn,     \* connected
          count,    \* connected_count
          talk,     \* the talkers: [life, params, expected]
          next,     \* the fan-out's next block
          now       \* the media clock of the worker's input

vars == <<phase, control, cache, table, conn, count, talk, next, now>>
session == <<table, conn, count>>

Slots   == 1 .. N
Times   == 0 .. LastTime + 1
Talkers == [life : {"loaded", "prepared", "started"}, params : Params \cup {None},
            expected : Times \cup {None}]
Nobody  == [s \in Slots |-> None]

Init ==
  /\ phase = "none" /\ control = "loaded" /\ cache = [i \in Indexes |-> None]
  /\ table = Nobody /\ conn = Nobody /\ count = 0
  /\ talk = [s \in Slots |-> [life |-> "loaded", params |-> None, expected |-> None]]
  /\ next = None /\ now = 0

-----------------------------------------------------------------------------
(* load                                                                    *)

\* EspAvbFanoutPlan::validate: every channel once, identities unique
ValidPlan(plan) ==
  /\ \A e, f \in Slots : e # f => plan[e].id # plan[f].id /\ plan[e].stream # plan[f].stream
  /\ \A e, f \in Slots, i, j \in 1 .. 2 :
       plan[e].channels[i] = plan[f].channels[j] => e = f /\ i = j
  /\ UNION {{plan[e].channels[1], plan[e].channels[2]} : e \in Slots} = 0 .. 2 * N - 1

\* validate_fanout_order: endpoint e carries the e-th canonical pair of roles
CanonicalOrder(plan) == \A e \in Slots : plan[e].channels = <<2 * e - 2, 2 * e - 1>>

\* SixStreamAvdeccSession::new: the roles are distinct by the type of the table
ValidTable(t) == \A s, r \in Slots : t[s] = t[r] => s = r

\* load: one library for the control handle and one per talker, all of which
\* may fail to open; a failed load leaves no runtime behind
Load ==
  /\ phase = "none"
  /\ \E plan \in Plans, t \in Tables :
       ValidPlan(plan) /\ CanonicalOrder(plan) /\ ValidTable(t) /\ table' = t
  /\ phase' = "loaded"
  /\ UNCHANGED <<control, cache, conn, count, talk, next, now>>

-----------------------------------------------------------------------------
(* The data plane                                                          *)

\* GenAvbNetworkTransport::reset, after a stop that may have failed
ResetTalker(t) ==
  [t EXCEPT !.life = IF @ = "started" THEN "prepared" ELSE @, !.expected = None]

\* abort_data_plane
AbortDataPlane == talk' = [s \in Slots |-> ResetTalker(talk[s])] /\ next' = None

FirstFailing(f, able) == f \notin able /\ 1 .. f - 1 \subseteq able

\* Mutant: the counter survives the reset.
ResetKeepsCount == conn' = Nobody /\ UNCHANGED <<table, count>>

\* SixStreamAvdeccSession::reset
ResetSession == conn' = Nobody /\ count' = 0 /\ UNCHANGED table

-----------------------------------------------------------------------------
(* The control plane                                                       *)

\* open_control; a control that says Open is not opened again
OpenControl ==
  /\ phase \in {"loaded", "open"}
  /\ phase' = "open" /\ control' = IF control = "loaded" THEN "open" ELSE control
  /\ UNCHANGED <<cache, session, talk, next, now>>

\* role_for_index and connect.  Rate, channels and depth of an indication are
\* constants of the native handle, which refuses other streams itself.
Connects(s, i, p) ==
  /\ p.sid # Zero /\ p.mac # Zero
  /\ table[s] = i /\ conn[s] = None
  /\ \A r \in Slots : conn[r] # None => conn[r].sid # p.sid /\ conn[r].mac # p.mac

\* disconnect; the indication has no destination address
Disconnects(s, i, p) ==
  /\ table[s] = i /\ conn[s] # None
  /\ conn[s].sid = p.sid /\ conn[s].port = p.port

\* aurora_genavb_avdecc_receive: a CONNECT with a supported format is cached under its index, a
\* DISCONNECT has to name the stream that is cached there and clears it.
Received(kind, i, p) ==
  /\ kind = "disconnect" => cache[i] # None /\ cache[i].sid = p.sid
  /\ cache' = [cache EXCEPT ![i] = IF kind = "connect" THEN p ELSE None]

\* GenAvbAvdeccControl::receive.  Anything else the native handle answers with an error or
\* nothing, and no state changes.
Indicated(kind, i, p) == control = "open" /\ Received(kind, i, p)

\* receive_control: a CONNECT the session accepts
ReceiveConnect ==
  /\ phase \notin {"none", "loaded"}
  /\ \E i \in Indexes, p \in Params, s \in Slots :
       /\ Indicated("connect", i, p) /\ Connects(s, i, p)
       /\ conn' = [conn EXCEPT ![s] = p] /\ count' = count + 1
  /\ UNCHANGED <<phase, control, table, talk, next, now>>

\* Mutant: the talkers of a disconnected session go on.
DisconnectOnly ==
  /\ phase \notin {"none", "loaded"}
  /\ \E i \in Indexes, p \in Params, s \in Slots :
       /\ Indicated("disconnect", i, p) /\ Disconnects(s, i, p)
       /\ conn' = [conn EXCEPT ![s] = None] /\ count' = count - 1
  /\ phase' = "open" /\ UNCHANGED <<talk, next>>
  /\ UNCHANGED <<control, table, now>>

\* receive_control: a valid DISCONNECT aborts all streams
ReceiveDisconnect ==
  /\ phase \notin {"none", "loaded"}
  /\ \E i \in Indexes, p \in Params, s \in Slots :
       /\ Indicated("disconnect", i, p) /\ Disconnects(s, i, p)
       /\ conn' = [conn EXCEPT ![s] = None] /\ count' = count - 1
  /\ phase' = "open" /\ AbortDataPlane
  /\ UNCHANGED <<control, table, now>>

\* receive_control: an indication the session refuses fails closed
ReceiveRefused ==
  /\ phase \notin {"none", "loaded"}
  /\ \E kind \in {"connect", "disconnect"}, i \in Indexes, p \in Params :
       /\ Indicated(kind, i, p)
       /\ \A s \in Slots : IF kind = "connect" THEN ~Connects(s, i, p) ELSE ~Disconnects(s, i, p)
  /\ phase' = "open" /\ AbortDataPlane /\ ResetSession
  /\ UNCHANGED <<control, now>>

\* aurora_genavb_avdecc_close, first of all
ForgetCache == cache' = [i \in Indexes |-> None]

\* close_control: the data plane and the session go first.  The native close
\* forgets the cache and its handle also when it reports a failure, which
\* leaves both lifecycles as they were; closing a dead handle succeeds.
CloseControl ==
  /\ phase \notin {"none", "loaded"}
  /\ AbortDataPlane /\ ResetSession /\ ForgetCache
  /\ \/ phase' = "loaded" /\ control' = "loaded"
     \/ control = "open" /\ control' = "dead" /\ UNCHANGED phase
  /\ UNCHANGED now

-----------------------------------------------------------------------------
(* prepare_complete, start, submit, stop                                   *)

\* require_complete, the gate of playback: it looks at the counter only
Complete == count = N

\* aurora_genavb_prepare_avdecc: the stream of a slot is the one cached under its index
Cached(s) == cache[table[s]]

\* prepare_from_avdecc
CanPrepare(s, bad) == s \notin bad /\ control = "open" /\ Cached(s) # None

PrepareComplete ==
  /\ phase = "open" /\ Complete
  /\ \E bad \in SUBSET Slots :
       \/ /\ \A s \in Slots : CanPrepare(s, bad)
          /\ talk' = [s \in Slots |-> [life |-> "prepared", params |-> Cached(s),
                                       expected |-> None]]
          /\ phase' = "prepared"
       \/ \E f \in Slots :
            /\ FirstFailing(f, {s \in Slots : CanPrepare(s, bad)})
            /\ talk' = [s \in Slots |->
                 ResetTalker(IF s < f THEN [talk[s] EXCEPT !.life = "prepared",
                                                           !.params = Cached(s)]
                                      ELSE talk[s])]
            /\ UNCHANGED phase
  /\ next' = None
  /\ UNCHANGED <<control, cache, session, now>>

Start ==
  /\ phase = "prepared"
  /\ \E bad \in SUBSET Slots :
       LET able == {s \in Slots : s \notin bad /\ talk[s].life = "prepared"}
       IN  \/ /\ able = Slots
              /\ talk' = [s \in Slots |-> [talk[s] EXCEPT !.life = "started", !.expected = None]]
              /\ phase' = "started"
           \/ /\ \E f \in Slots : FirstFailing(f, able)
              /\ talk' = [s \in Slots |-> ResetTalker(talk[s])] /\ phase' = "open"
  /\ next' = None
  /\ UNCHANGED <<control, cache, session, now>>

Input(t) == t \in {now, now + 1} \cap Times /\ now' = IF t <= LastTime THEN t + 1 ELSE t
Splits(t) == next \in {None, t} /\ t <= LastTime

\* submit: a block the fan-out or any talker refuses ends the epoch
Submit ==
  /\ phase = "started"
  /\ \E t \in Times, bad \in SUBSET Slots :
       /\ Input(t)
       /\ LET able == {s \in Slots : /\ Splits(t) /\ s \notin bad /\ talk[s].life = "started"
                                     /\ talk[s].expected \in {None, t}}
          IN  \/ /\ able = Slots
                 /\ talk' = [s \in Slots |-> [talk[s] EXCEPT !.expected = t + 1]]
                 /\ next' = t + 1 /\ UNCHANGED phase
              \/ able # Slots /\ AbortDataPlane /\ phase' = "open"
  /\ UNCHANGED <<control, cache, session>>

\* stop: a talker whose native stop fails stays started
Stop ==
  /\ phase = "started"
  /\ \E bad \in SUBSET Slots :
       talk' = [s \in Slots |->
         IF talk[s].life = "started" /\ s \in bad THEN talk[s] ELSE ResetTalker(talk[s])]
  /\ next' = None /\ phase' = "prepared"
  /\ UNCHANGED <<control, cache, session, now>>

ResetDataPlane ==
  /\ phase # "none" /\ AbortDataPlane
  /\ phase' = IF phase = "loaded" THEN phase ELSE "open"
  /\ UNCHANGED <<control, cache, session, now>>

Next == \/ Load \/ OpenControl \/ ReceiveConnect \/ ReceiveDisconnect \/ ReceiveRefused
        \/ CloseControl \/ PrepareComplete \/ Start \/ Submit \/ Stop \/ ResetDataPlane

Spec == Init /\ [][Next]_vars

-----------------------------------------------------------------------------
TypeOK ==
  /\ phase \in {"none", "loaded", "open", "prepared", "started"}
  /\ control \in {"loaded", "open", "dead"} /\ cache \in [Indexes -> Params \cup {None}]
  /\ table \in [Slots -> Indexes \cup {None}] /\ conn \in [Slots -> Params \cup {None}]
  /\ count \in 0 .. N /\ talk \in [Slots -> Talkers]
  /\ next \in Times \cup {None} /\ now \in Times

\* require_complete unwraps every slot on the strength of connected_count
\* ("complete count guarantees slot 0"): whatever indications are refused,
\* repeated or crossed by a reset, the counter is the number of occupied slots.
GateCounts == count = Cardinality({s \in Slots : conn[s] # None})

\* "Prepares all six GenAVB talkers from the exact AVDECC CONNECT parameters",
\* and require_complete is "the explicit start gate for immersive playback": a
\* talker that transmits does so with the parameters the session has connected.
OnConnected == \A s \in Slots : talk[s].life = "started" => talk[s].params = conn[s]

\* "A valid DISCONNECT aborts all active/prepared audio streams": as long as no
\* close has failed, a talker that transmits, even one whose stop failed, does so
\* with the parameters the session has connected, although it took them from the
\* cache of another object and the session may have changed since.
TalksOnConnected == control # "dead" => OnConnected

\* AvbSafe: the gate counts what is connected, and only that is transmitted.
AvbSafe == TypeOK /\ GateCounts /\ TalksOnConnected
=============================================================================
