--------------------------- MODULE NetworkBridge ---------------------------
(***************************************************************************)
(* The bridge between the real-time callback and one network worker        *)
(* (network_bridge.rs) over the fixed block pool (transport.rs): PCM       *)
(* blocks and their metadata travel in two lock-free queues that only the  *)
(* order of the accesses keeps in step.                                    *)
(*                                                                         *)
(* Time is counted in blocks: timestamp t is the media time of the block   *)
(* that starts at frame t * block_frames, and the audio of a block is      *)
(* named by the time it was rendered for.  Shape and rate errors of a      *)
(* caller change nothing and are left out.                                 *)
(***************************************************************************)
EXTENDS Naturals, Sequences

CONSTANTS Capacity,    \* capacity_blocks
          SeqModulus,  \* the sequence number is a machine word
          LastTime,    \* the last timestamp whose successor is representable
          MaxResets,   \* bound: resets of the timeline
          Absent       \* no timestamp, no audio

ASSUME BridgeAssumption ==
  /\ Capacity \in Nat /\ Capacity >= 2
  /\ SeqModulus \in Nat \ {0} /\ LastTime \in Nat /\ MaxResets \in Nat /\ Absent \notin Nat

VARIABLES
  slots, head, tail,   \* BlockPool
  metadata,            \* the bounded ArrayQueue of [seq, time]
  nextSeq, expected,   \* next_sequence, expected_timestamp
  prod,                \* the producer's try_push in progress
  now,                 \* the callback's media clock
  worker,              \* the worker's try_submit_one in progress
  delivered,           \* the last block the transport accepted
  timeline,            \* history: resets so far
  broken               \* an outcome the code calls an internal failure

pool == <<slots, head, tail>>
vars == <<slots, head, tail, metadata, nextSeq, expected, prod, now, worker, delivered,
          timeline, broken>>

Times == 0 .. LastTime + 1
Meta == [seq : Nat, time : Times, line : Nat]

Idle == [op |-> "idle", time |-> 0]
NoWork == [op |-> "idle", seq |-> 0, time |-> 0, line |-> 0, audio |-> Absent]

Init ==
  /\ slots = [i \in 0 .. Capacity - 1 |-> Absent] /\ head = 0 /\ tail = 0
  /\ metadata = <<>> /\ nextSeq = 0 /\ expected = Absent
  /\ prod = Idle /\ now = 0 /\ worker = NoWork
  /\ delivered = [seq |-> 0, time |-> 0, line |-> 0, audio |-> Absent]
  /\ timeline = 0 /\ broken = FALSE

-----------------------------------------------------------------------------
(* The callback: try_push.                                                 *)

\* Mutant: a jump of the timeline is accepted.
Continues(t) == expected = Absent \/ t >= expected
FollowsOn(t) == expected = Absent \/ t = expected

\* A callback with audio for time t, at or after the last one; a refused
\* block is lost to the network.  Blocks past LastTime are all refused
\* (TimestampOverflow).
PushBegin ==
  /\ prod = Idle
  /\ \E t \in {now, now + 1} \cap Times :
       /\ now' = IF t <= LastTime THEN t + 1 ELSE t
       /\ IF FollowsOn(t) /\ t <= LastTime /\ Len(metadata) < Capacity
            THEN prod' = [op |-> "write", time |-> t] ELSE UNCHANGED prod
  /\ UNCHANGED <<pool, metadata, nextSeq, expected, worker, delivered, timeline, broken>>

\* Mutant: the pool takes a block too many.
PoolHasRoomPlus == head - tail <= Capacity
PoolHasRoom == head - tail < Capacity

\* Mutant: the pool's refusal is not looked at.
PushWriteUnchecked ==
  /\ prod.op = "write"
  /\ IF PoolHasRoom
       THEN /\ slots' = [slots EXCEPT ![head % Capacity] = prod.time]
            /\ prod' = [prod EXCEPT !.op = "publish"]
       ELSE prod' = [prod EXCEPT !.op = "announce"] /\ UNCHANGED slots
  /\ UNCHANGED <<head, tail, metadata, nextSeq, expected, now, worker, delivered,
                 timeline, broken>>

\* BlockPool::try_push may refuse although the metadata queue had room: the
\* worker pops the metadata first.
PushWrite ==
  /\ prod.op = "write"
  /\ IF PoolHasRoom
       THEN /\ slots' = [slots EXCEPT ![head % Capacity] = prod.time]
            /\ prod' = [prod EXCEPT !.op = "publish"]
       ELSE prod' = Idle /\ UNCHANGED slots
  /\ UNCHANGED <<head, tail, metadata, nextSeq, expected, now, worker, delivered,
                 timeline, broken>>

PushPublish ==
  /\ prod.op = "publish"
  /\ head' = head + 1 /\ prod' = [prod EXCEPT !.op = "announce"]
  /\ UNCHANGED <<slots, tail, metadata, nextSeq, expected, now, worker, delivered,
                 timeline, broken>>

\* Mutant: the sequence number is not a wrapping word.
AnnounceNoWrap ==
  /\ prod.op = "announce" /\ prod' = Idle
  /\ metadata' = Append(metadata, [seq |-> nextSeq, time |-> prod.time, line |-> timeline])
  /\ nextSeq' = nextSeq + 1 /\ expected' = prod.time + 1
  /\ UNCHANGED <<pool, now, worker, delivered, timeline, broken>>

\* The metadata queue is bounded: its push fails when it is full.
PushAnnounce ==
  /\ prod.op = "announce" /\ prod' = Idle
  /\ IF Len(metadata) < Capacity
       THEN /\ metadata' = Append(metadata, [seq |-> nextSeq, time |-> prod.time, line |-> timeline])
            /\ nextSeq' = (nextSeq + 1) % SeqModulus
            /\ expected' = prod.time + 1
            /\ UNCHANGED broken
       ELSE /\ broken' = TRUE
            /\ UNCHANGED <<metadata, nextSeq, expected>>
  /\ UNCHANGED <<pool, now, worker, delivered, timeline>>

\* is_empty and queued_samples: both queues are empty.
Drained == metadata = <<>> /\ head = tail

\* reset_timeline_if_empty, between two callbacks of the same owner
ResetTimeline ==
  /\ prod = Idle /\ Drained /\ timeline < MaxResets
  /\ nextSeq' \in 0 .. SeqModulus - 1
  /\ expected' = Absent /\ timeline' = timeline + 1
  /\ UNCHANGED <<pool, metadata, prod, now, worker, delivered, broken>>

-----------------------------------------------------------------------------
(* The worker: try_submit_one, which is try_pop and submit.                *)

PopMetadata ==
  /\ worker.op = "idle" /\ metadata # <<>>
  /\ worker' = [op |-> "read", seq |-> Head(metadata).seq, time |-> Head(metadata).time,
                line |-> Head(metadata).line, audio |-> Absent]
  /\ metadata' = Tail(metadata)
  /\ UNCHANGED <<pool, nextSeq, expected, prod, now, delivered, timeline, broken>>

\* BlockPool::try_pop; an empty pool is the Desynchronized error.
PopRead ==
  /\ worker.op = "read"
  /\ IF head = tail
       THEN broken' = TRUE /\ worker' = NoWork
       ELSE /\ worker' = [worker EXCEPT !.op = "release", !.audio = slots[tail % Capacity]]
            /\ UNCHANGED broken
  /\ UNCHANGED <<pool, metadata, nextSeq, expected, prod, now, delivered, timeline>>

PopRelease ==
  /\ worker.op = "release"
  /\ tail' = tail + 1 /\ worker' = [worker EXCEPT !.op = "submit"]
  /\ UNCHANGED <<slots, head, metadata, nextSeq, expected, prod, now, delivered,
                 timeline, broken>>

\* Mutant: a failed submission ends the worker.
SubmitOrStop ==
  /\ worker.op = "submit"
  /\ \/ /\ worker' = NoWork
        /\ delivered' = [seq |-> worker.seq, time |-> worker.time,
                         line |-> worker.line, audio |-> worker.audio]
     \/ worker' = [worker EXCEPT !.op = "stopped"] /\ UNCHANGED delivered
  /\ UNCHANGED <<pool, metadata, nextSeq, expected, prod, now, timeline, broken>>

\* The transport takes the block, or fails and the block is gone.
Submit ==
  /\ worker.op = "submit" /\ worker' = NoWork
  /\ delivered' \in {delivered, [seq |-> worker.seq, time |-> worker.time,
                                 line |-> worker.line, audio |-> worker.audio]}
  /\ UNCHANGED <<pool, metadata, nextSeq, expected, prod, now, timeline, broken>>

Callback == PushBegin \/ PushWrite \/ PushPublish \/ PushAnnounce \/ ResetTimeline
Worker == PopMetadata \/ PopRead \/ PopRelease \/ Submit
Next == Callback \/ Worker

Spec == Init /\ [][Next]_vars

\* The worker thread keeps running, a callback runs to its end.
FairSpec == Spec /\ WF_vars(Worker) /\ WF_vars(PushWrite \/ PushPublish \/ PushAnnounce)

-----------------------------------------------------------------------------
\* Type correctness of the bridge.
TypeOK ==
  /\ slots \in [0 .. Capacity - 1 -> Times \cup {Absent}] /\ head \in Nat /\ tail \in Nat
  /\ metadata \in Seq(Meta) /\ nextSeq \in 0 .. SeqModulus - 1
  /\ expected \in Times \cup {Absent} /\ now \in Times /\ timeline \in Nat
  /\ prod \in [op : {"idle", "write", "publish", "announce"}, time : Times]
  /\ worker \in [op : {"idle", "read", "release", "submit"}, seq : Nat, time : Times,
                 line : Nat, audio : Times \cup {Absent}]
  /\ delivered \in [seq : Nat, time : Times, line : Nat, audio : Times \cup {Absent}]
  /\ broken \in BOOLEAN

\* Blocks announced or in the worker's hands, blocks published or being so.
Announced == Len(metadata) + (IF worker.op \in {"read", "release"} THEN 1 ELSE 0)
Published == head - tail
InHand == IF prod.op = "announce" THEN 1 ELSE 0

\* The two queues stay in step: every published block has its metadata in the
\* queue, in the worker's hands or about to be announced, so a pop never finds
\* metadata without a block, and the pool never holds more than it can.
Lockstep == tail <= head /\ Published = Announced + InHand /\ Published <= Capacity

\* What the code calls a violated invariant never happens: the metadata push
\* after a published block ("this cannot occur") and the Desynchronized pop.
NeverBroken == ~broken

\* The block that leaves with a timestamp is the audio rendered for that
\* timestamp: none is read early, and the slot keeps it from the pop of the
\* metadata until the worker has copied it and releases the slot.
AudioMatchesTime ==
  /\ worker.op \in {"read", "release"} => slots[tail % Capacity] = worker.time
  /\ worker.op \in {"release", "submit"} => worker.audio = worker.time

\* BridgeSafe: the two queues describe the same blocks, and each leaves with the
\* audio of its timestamp.
BridgeSafe == TypeOK /\ Lockstep /\ NeverBroken /\ AudioMatchesTime

\* A gap is never hidden: within a timeline the receiver sees later and later
\* times, and the sequence numbers advance exactly as the times do, so that a
\* lost block shows; a reset never mixes blocks of two timelines.
GapsVisible ==
  [][delivered' # delivered /\ delivered.audio # Absent =>
       /\ delivered'.line >= delivered.line
       /\ delivered'.line = delivered.line =>
            /\ delivered'.time > delivered.time
            /\ delivered'.seq = (delivered.seq + (delivered'.time - delivered.time)) % SeqModulus]_vars

\* Accepted blocks do not stay: the worker drains what the callback published.
Drains == metadata # <<>> ~> metadata = <<>>
=============================================================================
