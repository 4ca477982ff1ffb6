--------------------------- MODULE MCTransportSet ---------------------------
(***************************************************************************)
(* The network worker's side of the transports: a module transport set,    *)
(* the set of ESP end points, the AVDECC-driven GenAVB runtime, the native *)
(* shim below it and the AOO adapter.  They share no state but what one    *)
(* call answers another, and each property is about one of them, so in     *)
(* every behaviour the component named by `focus' moves alone.             *)
(*                                                                         *)
(* The set has four routes of alternating kinds, so that for each kind of  *)
(* failing route there are routes of the other kind before and after it.   *)
(***************************************************************************)
EXTENDS TransportSet

CONSTANTS Streams, Indexes, Params, Zero, Plans, Tables, LastBlock,
          Transmitters, Ctl, Clocks, Latencies, Offset, LastFrame, LastNow, MaxInits,
          Threads, EventCapacity, EspLast

VARIABLES focus,
          phase, control, cache, table, conn, count, talk, split, clock,
          genavb, inits, users, avtpClock, startedUsers, anchor, latency, avtpNow, task, acquired,
          prepared, started, stream, streamClock, target, opened, sent,
          flag, pc, tp, native,
          built, espLife, espNext, espTr, espHeard, espNow

avbVars == <<phase, control, cache, table, conn, count, talk, split, clock>>
shimVars == <<genavb, inits, users, avtpClock, startedUsers, anchor, latency, avtpNow, task,
              acquired, prepared, started, stream, streamClock, target, opened, sent>>
aooVars == <<flag, pc, tp, native>>
espVars == <<built, espLife, espNext, espTr, espHeard, espNow>>

MCKind == [r \in 1 .. 4 |-> IF r % 2 = 1 THEN "sim" ELSE "genavb"]

Endpoint(id, channels) == [id |-> id, stream |-> id, channels |-> channels]

\* The canonical plan, one with the pairs exchanged and one that repeats a channel.
MCPlans == {<<Endpoint(1, <<0, 1>>), Endpoint(2, <<2, 3>>)>>,
            <<Endpoint(1, <<2, 3>>), Endpoint(2, <<0, 1>>)>>,
            <<Endpoint(1, <<0, 1>>), Endpoint(2, <<1, 2>>)>>}

Stream(sid, mac, port) == [sid |-> sid, mac |-> mac, port |-> port]

\* Two good streams, one that shares the address of the first, one that only
\* differs in its port and one without an identity.
MCParams == {Stream("a", "x", 0), Stream("b", "y", 0), Stream("b", "x", 0),
             Stream("a", "x", 1), Stream(Zero, "y", 0)}

MCTables == {<<1, 0>>, <<1, 1>>}

Avb == INSTANCE AvbRuntime WITH
  N <- Streams, LastTime <- LastBlock, None <- Absent, next <- split, now <- clock

Shim == INSTANCE GenAvbShim WITH
  Talkers <- Transmitters, None <- Absent, now <- avtpNow, clock <- streamClock, control <- opened

Aoo == INSTANCE AooRuntime WITH LastTime <- LastBlock, None <- Absent

ASSUME LinkAssumption ==
  Avb!AvbAssumption /\ Shim!GenAvbShimAssumption /\ Aoo!AooAssumption /\ EspLast \in Nat

Caps(family, channels, adaptive) ==
  [family |-> family, channels |-> channels, scheduled |-> TRUE, adaptive |-> adaptive]

\* The capabilities of the transports a caller may hand over.
Offers == [1 .. 2 -> {Caps("AvbTsn", 2, FALSE), Caps("PeerUdp", 8, FALSE)}]

-----------------------------------------------------------------------------
(* EspAvbTransportSet (coordinator.rs): the stereo AVB transports of the   *)
(* ESP end points, here two.  Its methods roll back, abort and reset       *)
(* exactly as those of the module transport set do, so each action is one, *)
(* or two with the failure, of that specification; what differs is which   *)
(* transports it accepts and that it takes no block before it is built.    *)

Esp == INSTANCE TransportSet WITH N <- 2, Kind <- <<"sim", "genavb">>, LastTime <- EspLast,
         life <- espLife, next <- espNext, tr <- espTr, heard <- espHeard, now <- espNow

Accepted(c) == c.family = "AvbTsn" /\ c.channels >= 2 /\ c.scheduled /\ ~c.adaptive

\* new: every transport is AVB/TSN, wide enough, scheduled and not adaptive
EspNew ==
  /\ ~built
  /\ \E offer \in Offers : \A r \in DOMAIN offer : Accepted(offer[r])
  /\ built' = TRUE
  /\ UNCHANGED <<espLife, espNext, espTr, espHeard, espNow>>

Built == built /\ UNCHANGED built

\* prepare with a latency other than zero
EspPrepare == Built /\ (Esp!Prepare \/ Esp!PrepareFailed)
EspStart == Built /\ (Esp!Start \/ Esp!StartFailed)

\* Mutant: an end point that refuses a block is skipped.
EspSubmitSkips == Built /\ (Esp!Submit \/ Esp!SubmitRefused \/ Esp!SubmitSkipped)

EspSubmit == Built /\ (Esp!Submit \/ Esp!SubmitRefused \/ Esp!SubmitAborted)
EspStop == Built /\ Esp!Stop
EspReset == Built /\ Esp!Reset
EspDrainOne == Built /\ Esp!DrainOne

EspMethod == EspNew \/ EspPrepare \/ EspStart \/ EspSubmit \/ EspStop \/ EspReset \/ EspDrainOne

-----------------------------------------------------------------------------
MCInit ==
  /\ focus \in {"set", "avb", "shim", "aoo", "esp"}
  /\ Init /\ Avb!Init /\ Shim!Init /\ Aoo!Init /\ built = FALSE /\ Esp!Init

SetMoves == focus = "set" /\ Next /\ UNCHANGED <<focus, avbVars, shimVars, aooVars, espVars>>
AvbMoves == focus = "avb" /\ Avb!Next /\ UNCHANGED <<focus, vars, shimVars, aooVars, espVars>>
ShimMoves == focus = "shim" /\ Shim!Next /\ UNCHANGED <<focus, vars, avbVars, aooVars, espVars>>
AooMoves == focus = "aoo" /\ Aoo!Next /\ UNCHANGED <<focus, vars, avbVars, shimVars, espVars>>
EspMoves == focus = "esp" /\ EspMethod /\ UNCHANGED <<focus, vars, avbVars, shimVars, aooVars>>

MCNext == SetMoves \/ AvbMoves \/ ShimMoves \/ AooMoves \/ EspMoves
MCSpec == MCInit /\ [][MCNext]_<<focus, vars, avbVars, shimVars, aooVars, espVars>>

-----------------------------------------------------------------------------
\* The AVDECC-driven runtime: the session's counter, which opens the start gate, is the number
\* of its occupied slots, and a talker transmits with the parameters the session has connected.
\* The native shim below it: the library is initialised while a handle holds it and no stream
\* outlives it, and the started streams share one clock, one latency and one timeline.
AvbSound == Avb!AvbSafe /\ Shim!ShimSafe

\* The AOO adapter maps one library at a time, its socket threads are joined before the client
\* they use is freed, and adapter and shim agree on the lifecycle.  "Any endpoint fault
\* invalidates the whole stream rather than silently allowing one speaker pair to diverge": the
\* pairs of an ESP set have taken the same blocks while it is started, and none goes on when it
\* is not.
LinksSound == Aoo!AooSafe /\ built \in BOOLEAN /\ Esp!TypeOK /\ Esp!InStep /\ Esp!NoStraggler
=============================================================================
