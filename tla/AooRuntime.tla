----------------------------- MODULE AooRuntime -----------------------------
(***************************************************************************)
(* AooNetworkTransport and the native shim below it (aurora_aoo_shim.c).   *)
(* "The pinned AOO runtime has process-global initialization semantics, so *)
(* adapter v1 permits only one loaded instance at a time": threads load,   *)
(* use and drop transports, and the flag AOO_LIBRARY_ACTIVE is all they    *)
(* share.  A prepared native handle runs two socket threads on its client. *)
(*                                                                         *)
(* Any native call may fail.  Time is counted in blocks and stands for the *)
(* sequence number too; the address of the sink and the planar buffers are *)
(* left out.                                                               *)
(***************************************************************************)
EXTENDS Naturals, Sequences

CONSTANTS Threads, EventCapacity, LastTime, None

AooAssumption == EventCapacity \in Nat \ {0} /\ LastTime \in Nat /\ None \notin Nat

VARIABLES flag,   \* AOO_LIBRARY_ACTIVE
          pc,     \* where a thread is in load, use or drop
          tp,     \* its transport: [life, expected, events]
          native  \* the AuroraAooHandle of the transport

vars == <<flag, pc, tp, native>>

Events == {"Prepared", "Started", "Stopped"}
Sockets == {"send", "receive"}
Times == 0 .. LastTime + 1
Fresh == [life |-> "loaded", expected |-> None, events |-> <<>>]

\* base is the media frame of the time base, net the socket threads that run, running is
\* network_threads_running, dying marks a cleanup that aurora_aoo_destroy makes
Cleared == [client |-> FALSE, source |-> FALSE, registered |-> FALSE, running |-> FALSE,
            prepared |-> FALSE, started |-> FALSE, base |-> None, net |-> {}, dying |-> FALSE]

Init ==
  /\ flag = FALSE /\ pc = [t \in Threads |-> "idle"] /\ tp = [t \in Threads |-> Fresh]
  /\ native = [t \in Threads |-> Cleared]

Goto(t, from, to) == pc[t] = from /\ pc' = [pc EXCEPT ![t] = to]

-----------------------------------------------------------------------------
(* load and drop                                                           *)

\* SharedLibrary::open claims the flag before the loader runs ...
Claim(t) == ~flag /\ Goto(t, "idle", "claimed") /\ flag' = TRUE /\ UNCHANGED <<tp, native>>

\* ... and gives it back when the loader fails.
LibraryOpened(t) ==
  /\ \/ Goto(t, "claimed", "opened") /\ UNCHANGED flag
     \/ Goto(t, "claimed", "idle") /\ flag' = FALSE
  /\ UNCHANGED <<tp, native>>

\* load: a wrong ABI, a missing symbol or a null handle drops the library
Created(t) ==
  /\ \/ Goto(t, "opened", "live") /\ tp' = [tp EXCEPT ![t] = Fresh]
     \/ Goto(t, "opened", "closing") /\ UNCHANGED tp
  /\ UNCHANGED <<flag, native>>

\* drop of the transport: the native handle goes first
Destroy(t) ==
  /\ Goto(t, "live", "cleanup") /\ native' = [native EXCEPT ![t].dying = TRUE]
  /\ UNCHANGED <<flag, tp>>

\* Mutant: the flag is given back before the library is closed.
CloseLast(t) == Goto(t, "closing", "closed") /\ flag' = FALSE /\ UNCHANGED <<tp, native>>

\* drop of SharedLibrary: dlclose, then the flag
Close(t) == Goto(t, "closing", "closed") /\ UNCHANGED <<flag, tp, native>>
Release(t) == Goto(t, "closed", "idle") /\ flag' = FALSE /\ UNCHANGED <<tp, native>>

-----------------------------------------------------------------------------
(* aurora_aoo_prepare and aurora_aoo_cleanup_runtime                       *)

\* push_event drops the oldest event of a full ring
Push(q, e) == IF Len(q) = EventCapacity THEN Append(Tail(q), e) ELSE Append(q, e)

Becomes(t, life, e) ==
  tp' = [tp EXCEPT ![t] = [life |-> life, expected |-> None, events |-> Push(tp[t].events, e)]]

\* The shim refuses a handle that is prepared already.
Prepare(t) ==
  /\ tp[t].life # "started" /\ ~native[t].prepared /\ Goto(t, "live", "allocate")
  /\ UNCHANGED <<flag, tp, native>>

\* Buffers, source and client, and their setup
Allocate(t) ==
  /\ \E client, source \in BOOLEAN :
       /\ native' = [native EXCEPT ![t].client = client, ![t].source = source]
       /\ \/ client /\ source /\ Goto(t, "allocate", "register")
          \/ Goto(t, "allocate", "cleanup")
  /\ UNCHANGED <<flag, tp>>

\* AooClient_addSource; the sink that is then added may not resolve
Register(t) ==
  /\ \E added \in BOOLEAN :
       /\ native' = [native EXCEPT ![t].registered = added]
       /\ \/ added /\ Goto(t, "register", "spawnSend")
          \/ Goto(t, "register", "cleanup")
  /\ UNCHANGED <<flag, tp>>

SpawnSend(t) ==
  /\ \/ /\ Goto(t, "spawnSend", "spawnReceive")
        /\ native' = [native EXCEPT ![t].net = @ \cup {"send"}]
     \/ Goto(t, "spawnSend", "cleanup") /\ UNCHANGED native
  /\ UNCHANGED <<flag, tp>>

\* The second thread completes the preparation; without it the first is stopped and joined.
SpawnReceive(t) ==
  /\ \/ /\ Goto(t, "spawnReceive", "live")
        /\ native' = [native EXCEPT ![t].net = @ \cup {"receive"}, ![t].running = TRUE,
                                    ![t].prepared = TRUE]
        /\ Becomes(t, "prepared", "Prepared")
     \/ Goto(t, "spawnReceive", "joinSend") /\ UNCHANGED <<native, tp>>
  /\ UNCHANGED flag

JoinSend(t) ==
  native[t].net = {} /\ Goto(t, "joinSend", "cleanup") /\ UNCHANGED <<flag, tp, native>>

\* Mutant: the client is freed without joining its threads.
CleanupUnjoined(t) ==
  /\ Goto(t, "cleanup", "free")
  /\ native' = [native EXCEPT ![t].started = FALSE] /\ UNCHANGED <<flag, tp>>

\* cleanup_runtime: the stream is stopped, then the threads
Cleanup(t) ==
  /\ Goto(t, "cleanup", IF native[t].running THEN "join" ELSE "free")
  /\ native' = [native EXCEPT ![t].started = FALSE] /\ UNCHANGED <<flag, tp>>

Join(t) ==
  /\ native[t].net = {} /\ Goto(t, "join", "free")
  /\ native' = [native EXCEPT ![t].running = FALSE] /\ UNCHANGED <<flag, tp>>

\* Client and source are freed; a failed prepare leaves the transport as it was, loaded.
Free(t) ==
  /\ Goto(t, "free", IF native[t].dying THEN "closing" ELSE "live")
  /\ native' = [native EXCEPT ![t] = [Cleared EXCEPT !.net = native[t].net]]
  /\ UNCHANGED <<flag, tp>>

\* A socket thread returns when its client is stopped or its socket fails.
ThreadReturns(t) ==
  /\ \E n \in native[t].net : native' = [native EXCEPT ![t].net = @ \ {n}]
  /\ UNCHANGED <<flag, pc, tp>>

-----------------------------------------------------------------------------
(* The transport of a live thread                                          *)

\* aurora_aoo_start
NativeStart(t) ==
  /\ native[t].prepared /\ ~native[t].started
  /\ native' = [native EXCEPT ![t].started = TRUE, ![t].base = None]

Start(t) == tp[t].life = "prepared" /\ NativeStart(t) /\ Becomes(t, "started", "Started")

\* The first block sets the time base, also when it is then refused.
TimeBase(t, time) == IF native[t].base = None THEN time ELSE native[t].base

\* aurora_aoo_submit
NativeSubmit(t, time) ==
  native[t].started /\ native' = [native EXCEPT ![t].base = TimeBase(t, time)]

\* submit computes the successors before the native call, so that a block
\* without a successor is not sent at all
Submit(t) ==
  \E time \in 0 .. LastTime :
    /\ tp[t].life = "started" /\ tp[t].expected \in {None, time} /\ NativeSubmit(t, time)
    /\ \/ time >= TimeBase(t, time) /\ tp' = [tp EXCEPT ![t].expected = time + 1]
       \/ UNCHANGED tp

\* Mutant: the native stream is not stopped.
NativeRunsOn(t) == UNCHANGED native

\* aurora_aoo_stop
NativeStop(t) == native' = [native EXCEPT ![t].started = FALSE, ![t].base = None]

\* stop calls the shim only for a started transport
Stop(t) ==
  /\ tp[t].life # "loaded" /\ Becomes(t, "prepared", "Stopped")
  /\ IF tp[t].life = "started" THEN NativeStop(t) ELSE UNCHANGED native

\* aurora_aoo_reset: the time base goes only if the source could be reset
NativeReset(t) == native' \in {native, [native EXCEPT ![t].base = None]}

\* reset forgets the timeline; a started transport stays started
Reset(t) == tp' = [tp EXCEPT ![t].expected = None] /\ NativeReset(t)

PollEvent(t) ==
  tp[t].events # <<>> /\ tp' = [tp EXCEPT ![t].events = Tail(@)] /\ UNCHANGED native

Uses(t) ==
  /\ pc[t] = "live"
  /\ Start(t) \/ Submit(t) \/ Stop(t) \/ Reset(t) \/ PollEvent(t)
  /\ UNCHANGED <<flag, pc>>

Loads(t) == Claim(t) \/ LibraryOpened(t) \/ Created(t) \/ Destroy(t) \/ Close(t) \/ Release(t)
Prepares(t) == Prepare(t) \/ Allocate(t) \/ Register(t) \/ SpawnSend(t) \/ SpawnReceive(t) \/ JoinSend(t)
Cleans(t) == Cleanup(t) \/ Join(t) \/ Free(t) \/ ThreadReturns(t)

Next == \E t \in Threads : Loads(t) \/ Prepares(t) \/ Cleans(t) \/ Uses(t)

Spec == Init /\ [][Next]_vars

-----------------------------------------------------------------------------
Preparing == {"allocate", "register", "spawnSend", "spawnReceive", "joinSend"}
Cleaning == {"cleanup", "join", "free"}
Mapped == {"opened", "live", "closing"} \cup Preparing \cup Cleaning

Transports == [life : {"loaded", "prepared", "started"}, expected : Nat \cup {None}, events : Seq(Events)]
NativeHandles ==
  [client : BOOLEAN, source : BOOLEAN, registered : BOOLEAN, running : BOOLEAN, prepared : BOOLEAN,
   started : BOOLEAN, base : Nat \cup {None}, net : SUBSET Sockets, dying : BOOLEAN]

TypeOK ==
  /\ flag \in BOOLEAN /\ pc \in [Threads -> Mapped \cup {"idle", "claimed", "closed"}]
  /\ tp \in [Threads -> Transports] /\ native \in [Threads -> NativeHandles]
  /\ \A t \in Threads : Len(tp[t].events) <= EventCapacity

\* Only one AOO library is mapped at a time, also while one thread's failed
\* load or drop is still closing it and another thread starts to load.
OneRuntime == \A t, u \in Threads : pc[t] \in Mapped /\ pc[u] \in Mapped => t = u

\* "The C shim owns its own socket threads and synchronizes destruction by joining them before
\* the shared library is unloaded": while a socket thread runs, its client is not freed and the
\* library is mapped, also when the second thread could not be created.
ThreadsJoined ==
  \A t \in Threads : native[t].net # {} => native[t].client /\ pc[t] \in Mapped

\* Between calls the adapter and the shim agree on the lifecycle, and the block the adapter
\* expects is never before the shim's time base: a block the adapter expects the shim does not
\* refuse as out of state or out of time, whichever calls failed before.  (After a failed reset
\* of the shim the adapter expects no block, and takes the first one unchecked.)
LifecyclesAgree ==
  \A t \in Threads : pc[t] = "live" =>
    /\ native[t].prepared <=> tp[t].life # "loaded"
    /\ native[t].started <=> tp[t].life = "started"
    /\ tp[t].expected # None => native[t].base # None /\ native[t].base < tp[t].expected

AooSafe == TypeOK /\ OneRuntime /\ ThreadsJoined /\ LifecyclesAgree
=============================================================================
