------------------------ MODULE NetworkBridgeProofs ------------------------
(***************************************************************************)
(* Proofs about the network bridge: the two queues stay in step, the       *)
(* failures the code calls impossible are impossible, and every block      *)
(* leaves with the audio that was rendered for its timestamp, for every    *)
(* capacity and every interleaving of callback and worker.  A second       *)
(* inductive invariant orders the blocks on their way and gives that no    *)
(* gap is hidden from the receiver.                                        *)
(***************************************************************************)
EXTENDS NetworkBridge, Integers, TLAPS

\* Two indices less than a capacity apart address different slots.
LEMMA SlotsApart ==
  ASSUME NEW m \in Nat \ {0}, NEW a \in Nat, NEW b \in Nat, a < b, b - a < m
  PROVE  a % m # b % m
<1> SUFFICES ASSUME a % m = b % m PROVE FALSE
  OBVIOUS
<1> DEFINE qa == a \div m
           qb == b \div m
<1>1. qa \in Int /\ qb \in Int
  OBVIOUS
<1>7. /\ a = (m * qa) + (a % m) /\ b = (m * qb) + (b % m)
      /\ a % m \in Int
  OBVIOUS
<1> HIDE DEF qa, qb
<1>2. b - a = m * (qb - qa)
  <2>1. m * (qb - qa) = m * qb - m * qa
    BY <1>1
  <2>2. m * qa \in Int /\ m * qb \in Int
    BY <1>1
  <2> QED BY <1>1, <1>7, <2>1, <2>2
<1>3. PICK z \in Int : z = qb - qa
  BY <1>1
<1>4. 0 < m * z /\ m * z < m
  BY <1>2, <1>3
<1>5. CASE z <= 0
  BY <1>4, <1>5
<1>6. CASE z >= 1
  <2>1. m * z = m + m * (z - 1) /\ m * (z - 1) >= 0
    BY <1>6
  <2> QED BY <1>4, <2>1
<1> QED BY <1>5, <1>6

-----------------------------------------------------------------------------
\* The block whose metadata the worker holds.
Held == IF worker.op \in {"read", "release"} THEN 1 ELSE 0

\* While a push is under way the metadata queue has room for it and the pool
\* has room for a block that is written but not published.
RoomKept ==
  /\ Len(metadata) <= Capacity
  /\ prod.op # "idle" => Len(metadata) < Capacity /\ prod.time <= LastTime
  /\ prod.op = "publish" => head - tail < Capacity

\* Every block announced, held or in the producer's hands lies in its slot.
SlotsFaithful ==
  /\ \A i \in 1 .. Len(metadata) : slots[(tail + Held + i - 1) % Capacity] = metadata[i].time
  /\ prod.op = "publish" => slots[head % Capacity] = prod.time
  /\ prod.op = "announce" => slots[(head - 1) % Capacity] = prod.time

\* The inductive invariant.
BridgeInv == TypeOK /\ Lockstep /\ NeverBroken /\ AudioMatchesTime /\ RoomKept /\ SlotsFaithful

-----------------------------------------------------------------------------
\* The bridge starts empty, so the inductive invariant holds of create's result.
LEMMA InitBridge == Init => BridgeInv
<1> SUFFICES ASSUME Init PROVE BridgeInv
  OBVIOUS
<1>1. TypeOK
  <2>1. 0 \in Times /\ <<>> \in Seq(Meta)
    BY BridgeAssumption DEF Times
  <2>2. /\ slots \in [0 .. Capacity - 1 -> Times \cup {Absent}]
        /\ nextSeq \in 0 .. SeqModulus - 1
    BY BridgeAssumption DEF Init
  <2> QED BY <2>1, <2>2 DEF Init, TypeOK, Idle, NoWork
<1>2. Lockstep
  BY BridgeAssumption DEF Init, Lockstep, Idle, NoWork, Announced, Published, InHand
<1>3. NeverBroken /\ AudioMatchesTime
  BY DEF Init, NeverBroken, AudioMatchesTime, NoWork
<1>4. RoomKept /\ SlotsFaithful
  BY BridgeAssumption DEF Init, RoomKept, SlotsFaithful, Idle
<1> QED BY <1>1, <1>2, <1>3, <1>4 DEF BridgeInv

\* Passing the checks of try_push (or being refused by them) keeps the invariant:
\* room in the metadata queue is what the publish and announce steps rely on.
LEMMA PushBeginKeeps ==
  ASSUME BridgeInv, PushBegin
  PROVE  BridgeInv'
<1>1. TypeOK'
  BY BridgeAssumption DEF BridgeInv, PushBegin, TypeOK, Times, Idle, pool
<1>0. InHand = 0 /\ InHand' = 0
  BY DEF PushBegin, InHand, Idle
<1>2. (Lockstep /\ NeverBroken /\ AudioMatchesTime)'
  BY <1>0 DEF BridgeInv, PushBegin, Lockstep, NeverBroken, AudioMatchesTime, Announced,
     Published, pool
<1>3. (RoomKept /\ SlotsFaithful)'
  BY DEF BridgeInv, PushBegin, RoomKept, SlotsFaithful, Held, Idle, pool
<1> QED BY <1>1, <1>2, <1>3 DEF BridgeInv

\* Writing the PCM into its pool slot keeps the invariant: the slot belongs to no
\* announced or held block, by SlotsApart.
LEMMA PushWriteKeeps ==
  ASSUME BridgeInv, PushWrite
  PROVE  BridgeInv'
<1>1. CASE ~PoolHasRoom
  <2>1. /\ prod' = Idle /\ prod.op = "write"
        /\ UNCHANGED <<slots, head, tail, metadata, nextSeq, expected, now, worker,
                       delivered, timeline, broken>>
    BY <1>1 DEF PushWrite
  <2>2. TypeOK'
    BY <2>1, BridgeAssumption DEF BridgeInv, TypeOK, Idle, Times
  <2>3. InHand = 0 /\ InHand' = 0
    BY <2>1 DEF InHand, Idle
  <2>4. (Lockstep /\ NeverBroken /\ AudioMatchesTime)'
    BY <2>1, <2>3 DEF BridgeInv, Lockstep, NeverBroken, AudioMatchesTime, Announced, Published
  <2>5. (RoomKept /\ SlotsFaithful)'
    BY <2>1 DEF BridgeInv, RoomKept, SlotsFaithful, Held, Idle
  <2> QED BY <2>2, <2>4, <2>5 DEF BridgeInv
<1>2. CASE PoolHasRoom
  <2>1. /\ slots' = [slots EXCEPT ![head % Capacity] = prod.time]
        /\ prod' = [op |-> "publish", time |-> prod.time] /\ prod.op = "write"
        /\ head' = head /\ tail' = tail /\ metadata' = metadata /\ worker' = worker
        /\ UNCHANGED <<nextSeq, expected, now, delivered, timeline, broken>>
    BY <1>2 DEF PushWrite, BridgeInv, TypeOK
  <2>2. /\ head \in Nat /\ tail \in Nat /\ tail <= head /\ head - tail < Capacity
        /\ Capacity \in Nat \ {0} /\ head % Capacity \in 0 .. Capacity - 1
        /\ slots \in [0 .. Capacity - 1 -> Times \cup {Absent}] /\ prod.time \in Times
        /\ metadata \in Seq(Meta)
    BY <1>2, BridgeAssumption DEF BridgeInv, TypeOK, Lockstep, PoolHasRoom
  <2>3. \A j \in Nat : tail <= j /\ j < head => slots'[j % Capacity] = slots[j % Capacity]
    <3> SUFFICES ASSUME NEW j \in Nat, tail <= j, j < head
                 PROVE  slots'[j % Capacity] = slots[j % Capacity]
      OBVIOUS
    <3>3. head - j < Capacity
      BY <2>2
    <3>1. (j % Capacity) # (head % Capacity)
      BY <2>2, <3>3, SlotsApart
    <3>2. j % Capacity \in 0 .. Capacity - 1
      BY <2>2
    <3> QED BY <2>1, <2>2, <3>1, <3>2
  <2>4. TypeOK'
    BY <2>1, <2>2 DEF BridgeInv, TypeOK
  <2>5. Lockstep' /\ NeverBroken'
    BY <2>1 DEF BridgeInv, Lockstep, NeverBroken, Announced, Published, InHand
  <2>6. head - tail = Len(metadata) + Held
    BY <2>1, <2>2 DEF BridgeInv, Lockstep, Announced, Published, InHand, Held
  <2>7. AudioMatchesTime'
    <3>1. worker.op \in {"read", "release"} => tail < head
      <4>1. Len(metadata) \in Nat
        BY <2>2
      <4>2. worker.op \in {"read", "release"} => Held = 1
        BY DEF Held
      <4> QED BY <2>2, <2>6, <4>1, <4>2
    <3>2. worker.op \in {"read", "release"} => slots'[tail % Capacity] = slots[tail % Capacity]
      BY <2>2, <2>3, <3>1
    <3> QED BY <2>1, <3>2 DEF BridgeInv, AudioMatchesTime
  <2>8. RoomKept'
    BY <2>1, <2>2 DEF BridgeInv, RoomKept
  <2>9. SlotsFaithful'
    <3>1. ASSUME NEW i \in 1 .. Len(metadata)
          PROVE  slots'[(tail + Held + i - 1) % Capacity] = metadata[i].time
      <4>1. PICK j \in Nat : j = tail + Held + i - 1
        BY <2>2 DEF Held
      <4>2. tail <= j /\ j < head
        BY <2>2, <2>6, <4>1 DEF Held
      <4>3. slots[(tail + Held + i - 1) % Capacity] = metadata[i].time
        BY DEF BridgeInv, SlotsFaithful
      <4> QED BY <2>3, <4>1, <4>2, <4>3
    <3>2. slots'[head % Capacity] = prod.time
      BY <2>1, <2>2
    <3> QED BY <2>1, <3>1, <3>2 DEF SlotsFaithful, Held
  <2> QED BY <2>4, <2>5, <2>7, <2>8, <2>9 DEF BridgeInv
<1> QED BY <1>1, <1>2

\* Publishing the pool's write index keeps the invariant.
LEMMA PushPublishKeeps ==
  ASSUME BridgeInv, PushPublish
  PROVE  BridgeInv'
<1>1. /\ prod' = [op |-> "announce", time |-> prod.time] /\ prod.op = "publish"
      /\ head' = head + 1
      /\ UNCHANGED <<slots, tail, metadata, nextSeq, expected, now, worker, delivered,
                     timeline, broken>>
  BY DEF PushPublish, BridgeInv, TypeOK
<1>2. TypeOK'
  BY <1>1 DEF BridgeInv, TypeOK
<1>3. (Lockstep /\ NeverBroken /\ AudioMatchesTime /\ RoomKept)'
  BY <1>1, BridgeAssumption DEF BridgeInv, TypeOK, Lockstep, NeverBroken, AudioMatchesTime, RoomKept,
     Announced, Published, InHand
<1>4. SlotsFaithful'
  <2>1. head' - 1 = head
    BY <1>1 DEF BridgeInv, TypeOK
  <2> QED BY <1>1, <2>1 DEF BridgeInv, SlotsFaithful, Held
<1> QED BY <1>2, <1>3, <1>4 DEF BridgeInv

\* Announcing the metadata of the published block keeps the invariant.
LEMMA PushAnnounceKeeps ==
  ASSUME BridgeInv, PushAnnounce
  PROVE  BridgeInv'
<1> DEFINE m == [seq |-> nextSeq, time |-> prod.time, line |-> timeline]
<1>1. /\ prod' = Idle /\ prod.op = "announce"
      /\ metadata' = Append(metadata, m)
      /\ nextSeq' = (nextSeq + 1) % SeqModulus
      /\ expected' = prod.time + 1
      /\ UNCHANGED <<slots, head, tail, now, worker, delivered, timeline, broken>>
  BY DEF PushAnnounce, BridgeInv, RoomKept, pool
<1>2. metadata \in Seq(Meta) /\ m \in Meta /\ m.time = prod.time
  BY DEF BridgeInv, TypeOK, Meta
<1> HIDE DEF m
<1>3. /\ metadata' \in Seq(Meta) /\ Len(metadata') = Len(metadata) + 1
      /\ \A i \in 1 .. Len(metadata) : metadata'[i] = metadata[i]
      /\ metadata'[Len(metadata) + 1] = m
  BY <1>1, <1>2
<1>4. TypeOK'
  <2>1. expected' \in Times
    <3>1. prod.time <= LastTime
      BY <1>1 DEF BridgeInv, RoomKept
    <3> QED BY <1>1, <3>1, BridgeAssumption DEF BridgeInv, TypeOK, Times
  <2>2. nextSeq' \in 0 .. SeqModulus - 1
    BY <1>1, BridgeAssumption DEF BridgeInv, TypeOK
  <2> QED BY <1>1, <1>3, <2>1, <2>2, BridgeAssumption DEF BridgeInv, TypeOK, Idle, Times
<1>5. (Lockstep /\ NeverBroken /\ AudioMatchesTime /\ RoomKept)'
  <2>1. InHand = 1 /\ InHand' = 0
    BY <1>1 DEF InHand, Idle
  <2>2. Len(metadata) \in Nat
    BY <1>2
  <2>6. Announced' = Announced + 1 /\ Announced \in Nat
    BY <1>1, <1>3, <2>2 DEF Announced
  <2>7. head \in Nat /\ tail \in Nat /\ tail <= head
        /\ head - tail = Announced + InHand /\ head - tail <= Capacity
    BY DEF BridgeInv, TypeOK, Lockstep, Published
  <2>8. head - tail = Announced' + InHand'
    BY <2>1, <2>6, <2>7
  <2>3. Lockstep'
    BY <1>1, <2>7, <2>8 DEF Lockstep, Published
  <2>4. NeverBroken' /\ AudioMatchesTime'
    BY <1>1 DEF BridgeInv, NeverBroken, AudioMatchesTime
  <2>5. RoomKept'
    BY <1>1, <1>3, <2>2, BridgeAssumption DEF BridgeInv, RoomKept, Idle
  <2> QED BY <2>3, <2>4, <2>5
<1>6. SlotsFaithful'
  <2>1. tail + Held + Len(metadata) = head - 1
    BY <1>1, <1>2 DEF BridgeInv, TypeOK, Lockstep, Announced, Published, InHand, Held
  <2>2. slots[(head - 1) % Capacity] = prod.time
    BY <1>1 DEF BridgeInv, SlotsFaithful
  <2>3. Len(metadata) \in Nat /\ tail \in Nat /\ Held \in Nat
    BY <1>2 DEF BridgeInv, TypeOK, Held
  <2>4. ASSUME NEW i \in 1 .. Len(metadata')
        PROVE  slots[(tail + Held + i - 1) % Capacity] = metadata'[i].time
    <3>1. CASE i \in 1 .. Len(metadata)
      BY <1>3, <3>1 DEF BridgeInv, SlotsFaithful
    <3>2. CASE i = Len(metadata) + 1
      <4>1. tail + Held + i - 1 = head - 1
        BY <2>1, <2>3, <3>2
      <4> QED BY <1>2, <1>3, <2>2, <3>2, <4>1
    <3> QED BY <1>3, <2>3, <3>1, <3>2
  <2> QED BY <1>1, <2>4 DEF SlotsFaithful, Held, Idle
<1> QED BY <1>4, <1>5, <1>6 DEF BridgeInv

\* reset_timeline_if_empty, which touches only the producer's expectations, keeps the
\* invariant.
LEMMA ResetKeeps ==
  ASSUME BridgeInv, ResetTimeline
  PROVE  BridgeInv'
<1>1. TypeOK'
  BY BridgeAssumption DEF BridgeInv, ResetTimeline, TypeOK, pool
<1>2. (Lockstep /\ NeverBroken /\ AudioMatchesTime)'
  BY DEF BridgeInv, ResetTimeline, Lockstep, NeverBroken, AudioMatchesTime, Announced,
     Published, InHand, pool
<1>3. (RoomKept /\ SlotsFaithful)'
  BY DEF BridgeInv, ResetTimeline, RoomKept, SlotsFaithful, Held, pool
<1> QED BY <1>1, <1>2, <1>3 DEF BridgeInv

-----------------------------------------------------------------------------
\* The worker's taking of the front metadata keeps the invariant: its slot becomes the
\* held one.
LEMMA PopMetadataKeeps ==
  ASSUME BridgeInv, PopMetadata
  PROVE  BridgeInv'
<1> DEFINE h == Head(metadata)
<1>1. /\ worker' = [op |-> "read", seq |-> h.seq, time |-> h.time, line |-> h.line,
                    audio |-> Absent]
      /\ metadata' = Tail(metadata) /\ worker.op = "idle" /\ metadata # <<>>
      /\ UNCHANGED <<slots, head, tail, nextSeq, expected, prod, now, delivered, timeline, broken>>
  BY DEF PopMetadata, pool
<1>2. metadata \in Seq(Meta)
  BY DEF BridgeInv, TypeOK
<1>3. /\ h \in Meta /\ h = metadata[1] /\ Len(metadata) \in Nat /\ Len(metadata) >= 1
      /\ metadata' \in Seq(Meta) /\ Len(metadata') = Len(metadata) - 1
      /\ \A i \in 1 .. Len(metadata') : metadata'[i] = metadata[i + 1]
  BY <1>1, <1>2
<1> HIDE DEF h
<1>4. Held = 0 /\ Held' = 1
  BY <1>1 DEF Held
<1>5. TypeOK'
  BY <1>1, <1>3 DEF BridgeInv, TypeOK, Meta
<1>6. Lockstep'
  <2>1. Announced = Len(metadata) /\ Announced' = Len(metadata') + 1
    BY <1>1, <1>3 DEF Announced
  <2> QED BY <1>1, <1>3, <2>1 DEF BridgeInv, Lockstep, Published, InHand
<1>7. NeverBroken' /\ AudioMatchesTime'
  <2>1. slots[(tail + 0 + 1 - 1) % Capacity] = metadata[1].time
    BY <1>3, <1>4 DEF BridgeInv, SlotsFaithful
  <2>2. tail + 0 + 1 - 1 = tail
    BY DEF BridgeInv, TypeOK
  <2>3. slots[tail % Capacity] = h.time
    BY <1>3, <2>1, <2>2
  <2> QED BY <1>1, <2>3 DEF BridgeInv, NeverBroken, AudioMatchesTime
<1>8. RoomKept'
  BY <1>1, <1>3, BridgeAssumption DEF BridgeInv, RoomKept
<1>9. SlotsFaithful'
  <2>1. ASSUME NEW i \in 1 .. Len(metadata')
        PROVE  slots[(tail + 1 + i - 1) % Capacity] = metadata'[i].time
    <3>1. i + 1 \in 1 .. Len(metadata)
      BY <1>3
    <3>2. slots[(tail + 0 + (i + 1) - 1) % Capacity] = metadata[i + 1].time
      BY <1>4, <3>1 DEF BridgeInv, SlotsFaithful
    <3>3. tail + 0 + (i + 1) - 1 = tail + 1 + i - 1
      BY DEF BridgeInv, TypeOK
    <3> QED BY <1>3, <3>2, <3>3
  <2> QED BY <1>1, <1>4, <2>1 DEF BridgeInv, SlotsFaithful
<1> QED BY <1>5, <1>6, <1>7, <1>8, <1>9 DEF BridgeInv

\* Reading the held slot yields the block its metadata names, and keeps the invariant.
LEMMA PopReadKeeps ==
  ASSUME BridgeInv, PopRead
  PROVE  BridgeInv'
<1>1. head # tail
  <2>1. Announced >= 1
    BY DEF BridgeInv, TypeOK, PopRead, Announced
  <2>2. InHand \in Nat /\ Announced \in Nat
    BY DEF BridgeInv, TypeOK, Announced, InHand
  <2> QED BY <2>1, <2>2 DEF BridgeInv, TypeOK, Lockstep, Published
<1>2. /\ worker.op = "read"
      /\ worker' = [op |-> "release", seq |-> worker.seq, time |-> worker.time,
                    line |-> worker.line, audio |-> slots[tail % Capacity]]
      /\ UNCHANGED <<slots, head, tail, metadata, nextSeq, expected, prod, now, delivered,
                     timeline, broken>>
  BY <1>1 DEF PopRead, BridgeInv, TypeOK, pool
<1>3. slots[tail % Capacity] = worker.time
  BY <1>2 DEF BridgeInv, AudioMatchesTime
<1>4. TypeOK'
  BY <1>2, <1>3 DEF BridgeInv, TypeOK
<1>5. Held' = Held /\ Announced' = Announced
  BY <1>2 DEF Held, Announced
<1>6. (Lockstep /\ NeverBroken /\ AudioMatchesTime)'
  BY <1>2, <1>3, <1>5 DEF BridgeInv, Lockstep, NeverBroken, AudioMatchesTime, Published, InHand
<1>7. (RoomKept /\ SlotsFaithful)'
  BY <1>2, <1>5 DEF BridgeInv, RoomKept, SlotsFaithful
<1> QED BY <1>4, <1>6, <1>7 DEF BridgeInv

\* Releasing the held slot to the producer keeps the invariant.
LEMMA PopReleaseKeeps ==
  ASSUME BridgeInv, PopRelease
  PROVE  BridgeInv'
<1>1. /\ worker.op = "release" /\ tail' = tail + 1
      /\ worker' = [op |-> "submit", seq |-> worker.seq, time |-> worker.time,
                    line |-> worker.line, audio |-> worker.audio]
      /\ UNCHANGED <<slots, head, metadata, nextSeq, expected, prod, now, delivered,
                     timeline, broken>>
  BY DEF PopRelease, BridgeInv, TypeOK
<1>2. TypeOK'
  BY <1>1 DEF BridgeInv, TypeOK
<1>3. /\ Held = 1 /\ Held' = 0 /\ Announced = Len(metadata) + 1 /\ Announced' = Len(metadata)
      /\ InHand' = InHand /\ InHand \in Nat /\ Len(metadata) \in Nat
      /\ head \in Nat /\ tail \in Nat
  BY <1>1 DEF BridgeInv, TypeOK, Held, Announced, InHand
<1>4. Lockstep'
  BY <1>1, <1>3, BridgeAssumption DEF BridgeInv, Lockstep, Published
<1>5. NeverBroken' /\ AudioMatchesTime'
  BY <1>1 DEF BridgeInv, NeverBroken, AudioMatchesTime
<1>6. RoomKept'
  BY <1>1, <1>3, BridgeAssumption DEF BridgeInv, RoomKept
<1>7. SlotsFaithful'
  <2>1. tail' + Held' = tail + Held
    BY <1>1, <1>3
  <2> QED BY <1>1, <2>1 DEF BridgeInv, SlotsFaithful
<1> QED BY <1>2, <1>4, <1>5, <1>6, <1>7 DEF BridgeInv

\* Handing the popped block to the transport keeps the invariant.
LEMMA SubmitKeeps ==
  ASSUME BridgeInv, Submit
  PROVE  BridgeInv'
<1>1. /\ worker.op = "submit" /\ worker' = NoWork
      /\ UNCHANGED <<slots, head, tail, metadata, nextSeq, expected, prod, now, timeline, broken>>
      /\ delivered' \in {delivered, [seq |-> worker.seq, time |-> worker.time,
                                     line |-> worker.line, audio |-> worker.audio]}
  BY DEF Submit, pool
<1>2. TypeOK'
  BY <1>1, BridgeAssumption DEF BridgeInv, TypeOK, NoWork, Times
<1>3. Held' = Held /\ Announced' = Announced
  BY <1>1 DEF Held, Announced, NoWork
<1>4. (Lockstep /\ NeverBroken /\ AudioMatchesTime)'
  BY <1>1, <1>3 DEF BridgeInv, Lockstep, NeverBroken, AudioMatchesTime, Published, InHand, NoWork
<1>5. (RoomKept /\ SlotsFaithful)'
  BY <1>1, <1>3 DEF BridgeInv, RoomKept, SlotsFaithful
<1> QED BY <1>2, <1>4, <1>5 DEF BridgeInv

-----------------------------------------------------------------------------
\* Every step of the bridge, and stuttering, keeps the inductive invariant.
LEMMA NextKeeps == BridgeInv /\ [Next]_vars => BridgeInv'
<1> SUFFICES ASSUME BridgeInv, [Next]_vars PROVE BridgeInv'
  OBVIOUS
<1>1. CASE Callback
  BY <1>1, PushBeginKeeps, PushWriteKeeps, PushPublishKeeps, PushAnnounceKeeps, ResetKeeps
     DEF Callback
<1>2. CASE Worker
  BY <1>2, PopMetadataKeeps, PopReadKeeps, PopReleaseKeeps, SubmitKeeps DEF Worker
<1>3. CASE UNCHANGED vars
  <2>1. TypeOK'
    BY <1>3 DEF BridgeInv, TypeOK, vars
  <2>2. (Lockstep /\ NeverBroken /\ AudioMatchesTime)'
    BY <1>3 DEF BridgeInv, vars, Lockstep, NeverBroken, AudioMatchesTime, Announced,
       Published, InHand
  <2>3. (RoomKept /\ SlotsFaithful)'
    BY <1>3 DEF BridgeInv, vars, RoomKept, SlotsFaithful, Held
  <2> QED BY <2>1, <2>2, <2>3 DEF BridgeInv
<1> QED BY <1>1, <1>2, <1>3 DEF Next

\* The inductive invariant holds in every reachable state.
THEOREM BridgeInvariant == Spec => []BridgeInv
BY InitBridge, NextKeeps, PTL DEF Spec

\* The PCM pool and the metadata queue of network_bridge.rs stay in step and
\* within the capacity, whatever the interleaving.
THEOREM BridgeLockstep == Spec => []Lockstep
<1>1. BridgeInv => Lockstep
  BY DEF BridgeInv
<1> QED BY <1>1, BridgeInvariant, PTL

\* The two internal failures of try_push and try_pop never happen.
THEOREM BridgeNeverBroken == Spec => []NeverBroken
<1>1. BridgeInv => NeverBroken
  BY DEF BridgeInv
<1> QED BY <1>1, BridgeInvariant, PTL

\* A block leaves with the audio rendered for its timestamp, and its slot is
\* not written while the worker copies it.
THEOREM BridgeAudio == Spec => []AudioMatchesTime
<1>1. BridgeInv => AudioMatchesTime
  BY DEF BridgeInv
<1> QED BY <1>1, BridgeInvariant, PTL

\* BridgeSafe: for every capacity, sequence width and interleaving the pool and
\* the metadata queue of the bridge describe the same blocks, and a block leaves
\* with the audio rendered for its timestamp.
THEOREM BridgeSafety == Spec => []BridgeSafe
<1>1. BridgeInv => BridgeSafe
  BY DEF BridgeInv, BridgeSafe
<1> QED BY <1>1, BridgeInvariant, PTL

-----------------------------------------------------------------------------
\* Block b comes after block a: on a later timeline, or later on the same one
\* with a sequence number as far ahead as its time.
Follows(a, b) ==
  /\ a.line <= b.line
  /\ a.line = b.line => /\ a.time < b.time
                        /\ b.seq = (a.seq + (b.time - a.time)) % SeqModulus

\* What the next accepted block will carry, if the timeline has begun.
UpNext == [seq |-> nextSeq, time |-> expected, line |-> timeline]

\* Block x comes before every block that is still to be accepted.
Earlier(x) ==
  /\ x.line <= timeline
  /\ x.line = timeline => expected # Absent /\ Follows(x, UpNext)

\* The blocks on their way, from the delivered one over the worker's and the
\* queued ones to the one the producer expects, follow each other; only what
\* has left the queues may be of an older timeline.
InOrder ==
  /\ prod.op # "idle" => expected = Absent \/ prod.time = expected
  /\ \A i \in 1 .. Len(metadata) : metadata[i].line = timeline /\ Earlier(metadata[i])
  /\ \A i, j \in 1 .. Len(metadata) : i < j => Follows(metadata[i], metadata[j])
  /\ worker.op # "idle" =>
       Earlier(worker) /\ \A i \in 1 .. Len(metadata) : Follows(worker, metadata[i])
  /\ delivered.audio # Absent =>
       /\ Earlier(delivered)
       /\ worker.op # "idle" => Follows(delivered, worker)
       /\ \A i \in 1 .. Len(metadata) : Follows(delivered, metadata[i])

\* The next sequence number counts one further, also over the wrap of the word.
LEMMA NextNumber ==
  ASSUME NEW m \in Nat \ {0}, NEW a \in Int
  PROVE  ((a % m) + 1) % m = (a + 1) % m
<1> DEFINE q == a \div m
<1>1. q \in Int /\ a % m \in 0 .. m - 1 /\ a = m * q + (a % m)
  OBVIOUS
<1> HIDE DEF q
<1>2. PICK r \in 0 .. m - 1 : r = a % m
  BY <1>1
<1>3. a + 1 = m * q + (r + 1)
  BY <1>1, <1>2
<1>4. CASE r + 1 < m
  <2>1. (r + 1) % m = r + 1
    BY <1>4
  <2>2. (m * q + (r + 1)) % m = r + 1
    BY <1>1, <1>4
  <2> QED BY <1>2, <1>3, <2>1, <2>2
<1>5. CASE r + 1 = m
  <2>1. (r + 1) % m = 0
    BY <1>5
  <2>2. m * q + m = m * (q + 1) + 0
    BY <1>1
  <2>3. (m * (q + 1) + 0) % m = 0
    BY <1>1
  <2> QED BY <1>2, <1>3, <1>5, <2>1, <2>2, <2>3
<1> QED BY <1>4, <1>5

\* Steps that neither announce, pop nor deliver keep the order.
LEMMA SameOrder ==
  ASSUME InOrder, UNCHANGED <<metadata, nextSeq, expected, timeline, delivered>>,
         prod'.op # "idle" => expected = Absent \/ prod'.time = expected,
         worker'.op # "idle" =>
           /\ worker.op # "idle" /\ worker'.seq = worker.seq
           /\ worker'.time = worker.time /\ worker'.line = worker.line
  PROVE  InOrder'
<1>1. UpNext' = UpNext
  BY DEF UpNext
<1>2. worker'.op # "idle" => Earlier(worker)' /\ \A i \in 1 .. Len(metadata) : Follows(worker, metadata[i])'
  BY <1>1 DEF InOrder, Earlier, Follows
<1>3. delivered.audio # Absent /\ worker'.op # "idle" => Follows(delivered, worker)'
  BY DEF InOrder, Follows
<1>4. \A i \in 1 .. Len(metadata) : Earlier(metadata[i])' /\ metadata[i].line = timeline
  BY <1>1 DEF InOrder, Earlier, Follows
<1>5. delivered.audio # Absent => Earlier(delivered)'
  BY <1>1 DEF InOrder, Earlier, Follows
<1> QED BY <1>2, <1>3, <1>4, <1>5 DEF InOrder, Follows

\* A callback that begins, and is admitted only with the expected time, keeps
\* the order.
LEMMA BeginInOrder ==
  ASSUME BridgeInv, InOrder, PushBegin
  PROVE  InOrder'
<1>1. prod'.op # "idle" => expected = Absent \/ prod'.time = expected
  BY DEF PushBegin, FollowsOn, Idle
<1> QED BY <1>1, SameOrder DEF PushBegin

\* Writing and publishing the samples of the admitted block keep the order.
LEMMA WriteInOrder ==
  ASSUME BridgeInv, InOrder, PushWrite \/ PushPublish
  PROVE  InOrder'
<1>1. prod'.op # "idle" => prod.op # "idle" /\ prod'.time = prod.time
  BY DEF PushWrite, PushPublish, Idle, BridgeInv, TypeOK
<1>2. prod'.op # "idle" => expected = Absent \/ prod'.time = expected
  BY <1>1 DEF InOrder
<1>3. UNCHANGED <<metadata, nextSeq, expected, timeline, delivered, worker>>
  BY DEF PushWrite, PushPublish
<1> QED BY <1>2, <1>3, SameOrder

\* The announced block follows all that went before and precedes the next one.
LEMMA AnnounceInOrder ==
  ASSUME BridgeInv, InOrder, PushAnnounce
  PROVE  InOrder'
<1> DEFINE m == [seq |-> nextSeq, time |-> prod.time, line |-> timeline]
<1>1. /\ prod' = Idle /\ prod.op = "announce"
      /\ metadata' = Append(metadata, m)
      /\ nextSeq' = (nextSeq + 1) % SeqModulus
      /\ expected' = prod.time + 1
      /\ UNCHANGED <<worker, delivered, timeline>>
  BY DEF PushAnnounce, BridgeInv, RoomKept
<1>2. /\ metadata \in Seq(Meta) /\ m \in Meta /\ m.time = prod.time
      /\ m.line = timeline /\ m.seq = nextSeq /\ prod.time \in Nat /\ timeline \in Nat
      /\ nextSeq \in 0 .. SeqModulus - 1 /\ SeqModulus \in Nat \ {0}
  BY BridgeAssumption DEF BridgeInv, TypeOK, Meta, Times
<1>3. /\ Len(metadata) \in Nat /\ Len(metadata') = Len(metadata) + 1
      /\ \A i \in 1 .. Len(metadata) : metadata'[i] = metadata[i] /\ metadata[i] \in Meta
      /\ metadata'[Len(metadata) + 1] = m
  BY <1>1, <1>2
<1>4. expected = Absent \/ prod.time = expected
  BY <1>1 DEF InOrder
<1>5. /\ UpNext'.seq = (nextSeq + 1) % SeqModulus /\ UpNext'.time = prod.time + 1
      /\ UpNext'.line = timeline /\ expected' # Absent
  BY <1>1, <1>2, BridgeAssumption DEF UpNext
<1> HIDE DEF m
<1>6. ASSUME NEW x, x.seq \in Nat, x.time \in Nat, x.line \in Nat, Earlier(x)
      PROVE  Follows(x, m) /\ (x.line <= timeline /\ Follows(x, UpNext'))
  <2>1. CASE x.line = timeline
    <3>1. /\ expected = prod.time /\ x.time < prod.time
          /\ nextSeq = (x.seq + (prod.time - x.time)) % SeqModulus
      BY <1>4, <2>1, <1>6 DEF Earlier, Follows, UpNext
    <3>2. x.seq + (prod.time - x.time) \in Int
      BY <1>2, <1>6
    <3>3. (nextSeq + 1) % SeqModulus = (x.seq + (prod.time - x.time) + 1) % SeqModulus
      BY <1>2, <3>1, <3>2, NextNumber
    <3>4. x.seq + (prod.time - x.time) + 1 = x.seq + ((prod.time + 1) - x.time)
      BY <1>2, <1>6
    <3> QED BY <1>2, <1>5, <1>6, <2>1, <3>1, <3>3, <3>4 DEF Follows
  <2>2. CASE x.line < timeline
    BY <1>2, <1>5, <1>6, <2>2 DEF Follows
  <2> QED BY <1>2, <1>6, <2>1, <2>2 DEF Earlier
<1>7. Follows(m, UpNext')
  <2>1. m.seq + (UpNext'.time - m.time) = nextSeq + 1
    BY <1>2, <1>5
  <2> QED BY <1>2, <1>5, <2>1 DEF Follows
<1>8. \A i \in 1 .. Len(metadata) :
        /\ metadata[i].line = timeline /\ metadata[i].line <= timeline
        /\ Follows(metadata[i], m) /\ Follows(metadata[i], UpNext')
  BY <1>3, <1>6 DEF InOrder, Meta, Times
<1>9. \A i \in 1 .. Len(metadata') : (metadata[i].line = timeline /\ Earlier(metadata[i]))'
  <2>1. ASSUME NEW i \in 1 .. Len(metadata)
        PROVE  (metadata[i].line = timeline /\ Earlier(metadata[i]))'
    BY <1>1, <1>3, <1>5, <1>8 DEF Earlier, Follows
  <2> QED BY <1>1, <1>2, <1>3, <1>5, <1>7, <2>1 DEF Earlier, Follows
<1>10. \A i, j \in 1 .. Len(metadata') : i < j => Follows(metadata[i], metadata[j])'
  <2> SUFFICES ASSUME NEW i \in 1 .. Len(metadata'), NEW j \in 1 .. Len(metadata'), i < j
               PROVE  Follows(metadata[i], metadata[j])'
    BY <1>3 DEF Follows
  <2>1. i \in 1 .. Len(metadata)
    BY <1>3
  <2>2. CASE j = Len(metadata) + 1
    BY <1>3, <1>8, <2>1, <2>2 DEF Follows
  <2>3. CASE j \in 1 .. Len(metadata)
    <3>1. Follows(metadata[i], metadata[j])
      BY <2>1, <2>3 DEF InOrder
    <3> QED BY <1>3, <2>1, <2>3, <3>1 DEF Follows
  <2> QED BY <1>3, <2>2, <2>3
<1>11. worker'.op # "idle" =>
         Earlier(worker)' /\ \A i \in 1 .. Len(metadata') : Follows(worker, metadata[i])'
  <2> SUFFICES ASSUME worker.op # "idle"
               PROVE  Earlier(worker)' /\ \A i \in 1 .. Len(metadata') : Follows(worker, metadata[i])'
    BY <1>1
  <2>1. worker.seq \in Nat /\ worker.time \in Nat /\ worker.line \in Nat
    BY DEF BridgeInv, TypeOK, Times
  <2>2. Follows(worker, m) /\ worker.line <= timeline /\ Follows(worker, UpNext')
    BY <1>6, <2>1 DEF InOrder
  <2> QED BY <1>1, <1>3, <1>5, <2>2 DEF InOrder, Earlier, Follows
<1>12. delivered'.audio # Absent =>
         /\ Earlier(delivered)'
         /\ worker'.op # "idle" => Follows(delivered, worker)'
         /\ \A i \in 1 .. Len(metadata') : Follows(delivered, metadata[i])'
  <2> SUFFICES ASSUME delivered.audio # Absent
               PROVE  /\ Earlier(delivered)'
                      /\ worker.op # "idle" => Follows(delivered, worker)'
                      /\ \A i \in 1 .. Len(metadata') : Follows(delivered, metadata[i])'
    BY <1>1
  <2>1. delivered.seq \in Nat /\ delivered.time \in Nat /\ delivered.line \in Nat
    BY DEF BridgeInv, TypeOK, Times
  <2>2. Follows(delivered, m) /\ delivered.line <= timeline /\ Follows(delivered, UpNext')
    BY <1>6, <2>1 DEF InOrder
  <2> QED BY <1>1, <1>3, <1>5, <2>2 DEF InOrder, Earlier, Follows
<1> QED BY <1>1, <1>9, <1>10, <1>11, <1>12 DEF InOrder, Idle

\* reset_timeline_if_empty: nothing is queued, and what has left the queue is of
\* an older timeline from now on.
LEMMA ResetInOrder ==
  ASSUME BridgeInv, InOrder, ResetTimeline
  PROVE  InOrder'
<1>1. /\ metadata' = <<>> /\ metadata = <<>> /\ timeline' = timeline + 1 /\ prod' = Idle
      /\ UNCHANGED <<worker, delivered>>
  BY DEF ResetTimeline, Drained
<1>2. timeline \in Nat /\ worker.line \in Nat /\ delivered.line \in Nat
  BY DEF BridgeInv, TypeOK
<1>3. worker.op # "idle" => Earlier(worker)'
  BY <1>1, <1>2 DEF InOrder, Earlier
<1>4. delivered.audio # Absent => Earlier(delivered)'
  BY <1>1, <1>2 DEF InOrder, Earlier
<1>5. 1 .. Len(metadata') = {}
  BY <1>1
<1> QED BY <1>1, <1>3, <1>4, <1>5 DEF InOrder, Idle, Follows

\* The front block passes from the queue to the worker in its place.
LEMMA PopInOrder ==
  ASSUME BridgeInv, InOrder, PopMetadata
  PROVE  InOrder'
<1>1. /\ worker'.seq = metadata[1].seq /\ worker'.time = metadata[1].time
      /\ worker'.line = metadata[1].line /\ worker'.op = "read"
      /\ metadata' = Tail(metadata) /\ metadata # <<>> /\ metadata \in Seq(Meta)
      /\ UNCHANGED <<nextSeq, expected, prod, delivered, timeline>>
  BY DEF PopMetadata, BridgeInv, TypeOK
<1>2. /\ Len(metadata) \in Nat /\ Len(metadata) >= 1 /\ Len(metadata') = Len(metadata) - 1
      /\ \A i \in 1 .. Len(metadata') : metadata'[i] = metadata[i + 1]
  BY <1>1
<1>3. \A i \in 1 .. Len(metadata') : i + 1 \in 1 .. Len(metadata)
  BY <1>2
<1>4. UpNext' = UpNext /\ 1 \in 1 .. Len(metadata)
  BY <1>1, <1>2 DEF UpNext
<1>5. \A i \in 1 .. Len(metadata') : (metadata[i].line = timeline /\ Earlier(metadata[i]))'
  BY <1>1, <1>2, <1>3, <1>4 DEF InOrder, Earlier, Follows
<1>6. \A i, j \in 1 .. Len(metadata') : i < j => Follows(metadata[i], metadata[j])'
  <2> SUFFICES ASSUME NEW i \in 1 .. Len(metadata'), NEW j \in 1 .. Len(metadata'), i < j
               PROVE  Follows(metadata[i], metadata[j])'
    BY <1>2 DEF Follows
  <2>1. Follows(metadata[i + 1], metadata[j + 1])
    <3>1. i + 1 < j + 1
      BY <1>2
    <3> QED BY <1>3, <3>1 DEF InOrder
  <2> QED BY <1>2, <2>1 DEF Follows
<1>7. Earlier(worker)' /\ \A i \in 1 .. Len(metadata') : Follows(worker, metadata[i])'
  <2>1. Earlier(worker)'
    BY <1>1, <1>4 DEF InOrder, Earlier, Follows
  <2>2. ASSUME NEW i \in 1 .. Len(metadata')
        PROVE  Follows(worker, metadata[i])'
    <3>1. Follows(metadata[1], metadata[i + 1])
      BY <1>2, <1>3, <1>4 DEF InOrder
    <3> QED BY <1>1, <1>2, <3>1 DEF Follows
  <2> QED BY <2>1, <2>2
<1>8. delivered'.audio # Absent =>
         /\ Earlier(delivered)' /\ Follows(delivered, worker)'
         /\ \A i \in 1 .. Len(metadata') : Follows(delivered, metadata[i])'
  BY <1>1, <1>2, <1>3, <1>4 DEF InOrder, Earlier, Follows
<1> QED BY <1>1, <1>5, <1>6, <1>7, <1>8 DEF InOrder

\* Copying the samples and releasing the slot keep the order.
LEMMA ReadInOrder ==
  ASSUME BridgeInv, InOrder, PopRead \/ PopRelease
  PROVE  InOrder'
<1>1. UNCHANGED <<metadata, nextSeq, expected, timeline, delivered, prod>>
  BY DEF PopRead, PopRelease
<1>2. worker'.op # "idle" =>
        /\ worker.op # "idle" /\ worker'.seq = worker.seq
        /\ worker'.time = worker.time /\ worker'.line = worker.line
  <2>1. worker.op \in {"read", "release"}
    BY DEF PopRead, PopRelease
  <2>2. CASE PopRead
    <3>1. CASE head = tail
      BY <2>2, <3>1 DEF PopRead, NoWork
    <3>2. CASE head # tail
      <4>1. worker' = [worker EXCEPT !.op = "release", !.audio = slots[tail % Capacity]]
        BY <2>2, <3>2 DEF PopRead
      <4> QED BY <2>1, <4>1 DEF BridgeInv, TypeOK
    <3> QED BY <3>1, <3>2
  <2>3. CASE PopRelease
    BY <2>1, <2>3 DEF PopRelease, BridgeInv, TypeOK
  <2> QED BY <2>2, <2>3
<1>3. prod'.op # "idle" => expected = Absent \/ prod'.time = expected
  BY <1>1 DEF InOrder
<1> QED BY <1>1, <1>2, <1>3, SameOrder

\* The submitted block takes the place of the delivered one, or is lost.
LEMMA SubmitInOrder ==
  ASSUME BridgeInv, InOrder, Submit
  PROVE  InOrder'
<1>1. /\ worker.op = "submit" /\ worker'.op = "idle"
      /\ UNCHANGED <<metadata, nextSeq, expected, timeline, prod>>
  BY DEF Submit, NoWork
<1>2. CASE delivered' = delivered
  BY <1>1, <1>2, SameOrder DEF InOrder
<1>3. CASE delivered' = [seq |-> worker.seq, time |-> worker.time,
                         line |-> worker.line, audio |-> worker.audio]
  <2>1. UpNext' = UpNext
    BY <1>1 DEF UpNext
  <2>2. /\ delivered'.seq = worker.seq /\ delivered'.time = worker.time
        /\ delivered'.line = worker.line
    BY <1>3
  <2>3. Earlier(delivered)' /\ \A i \in 1 .. Len(metadata') : Follows(delivered, metadata[i])'
    BY <1>1, <2>1, <2>2 DEF InOrder, Earlier, Follows
  <2>4. \A i \in 1 .. Len(metadata') : (metadata[i].line = timeline /\ Earlier(metadata[i]))'
    BY <1>1, <2>1 DEF InOrder, Earlier, Follows
  <2> QED BY <1>1, <2>3, <2>4 DEF InOrder, Follows
<1> QED BY <1>2, <1>3 DEF Submit

\* Every step of callback and worker keeps the blocks in order.
LEMMA NextInOrder == BridgeInv /\ InOrder /\ [Next]_vars => InOrder'
<1> SUFFICES ASSUME BridgeInv, InOrder, [Next]_vars PROVE InOrder'
  OBVIOUS
<1>1. CASE Callback
  BY <1>1, BeginInOrder, WriteInOrder, AnnounceInOrder, ResetInOrder DEF Callback
<1>2. CASE Worker
  BY <1>2, PopInOrder, ReadInOrder, SubmitInOrder DEF Worker
<1>3. CASE UNCHANGED vars
  BY <1>3, SameOrder DEF vars, InOrder
<1> QED BY <1>1, <1>2, <1>3 DEF Next

\* Only a submission delivers, and what it delivers follows what was delivered.
LEMMA DeliveryFollows ==
  ASSUME BridgeInv, InOrder, [Next]_vars, delivered' # delivered, delivered.audio # Absent
  PROVE  Follows(delivered, delivered')
<1>1. Submit
  BY DEF Next, Callback, Worker, PushBegin, PushWrite, PushPublish, PushAnnounce,
     ResetTimeline, PopMetadata, PopRead, PopRelease, vars
<1>2. /\ worker.op = "submit"
      /\ delivered'.seq = worker.seq /\ delivered'.time = worker.time
      /\ delivered'.line = worker.line
  BY <1>1 DEF Submit
<1> QED BY <1>2 DEF InOrder, Follows

\* GapsVisible, for every capacity, sequence width, run length and number of
\* resets: within a timeline the transport receives later and later times, with
\* sequence numbers that advance exactly as far, whatever submissions fail.
THEOREM BridgeGapsVisible == Spec => GapsVisible
<1>1. Init => InOrder
  BY DEF Init, InOrder, Idle, NoWork
<1>2. BridgeInv /\ InOrder /\ [Next]_vars =>
        [delivered' # delivered /\ delivered.audio # Absent =>
           /\ delivered'.line >= delivered.line
           /\ delivered'.line = delivered.line =>
                /\ delivered'.time > delivered.time
                /\ delivered'.seq = (delivered.seq + (delivered'.time - delivered.time)) % SeqModulus]_vars
  <2> SUFFICES ASSUME BridgeInv, InOrder, [Next]_vars,
                      delivered' # delivered, delivered.audio # Absent
               PROVE  /\ delivered'.line >= delivered.line
                      /\ delivered'.line = delivered.line =>
                           /\ delivered'.time > delivered.time
                           /\ delivered'.seq =
                                (delivered.seq + (delivered'.time - delivered.time)) % SeqModulus
    OBVIOUS
  <2>1. Follows(delivered, delivered')
    BY DeliveryFollows
  <2>2. (TypeOK /\ TypeOK')
    BY NextKeeps DEF BridgeInv
  <2>3. /\ delivered.line \in Nat /\ delivered'.line \in Nat
        /\ delivered.time \in Nat /\ delivered'.time \in Nat
    BY <2>2 DEF TypeOK, Times
  <2> QED BY <2>1, <2>3 DEF Follows
<1>3. BridgeInv /\ InOrder /\ [Next]_vars => InOrder'
  BY NextInOrder
<1> QED BY <1>1, <1>2, <1>3, BridgeInvariant, PTL DEF Spec, GapsVisible
=============================================================================
