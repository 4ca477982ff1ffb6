------------------------------ MODULE SpscRing ------------------------------
(***************************************************************************)
(* SpscSampleRing of the real-time engine (transport.rs): a lock-free ring *)
(* of samples shared by one producer thread and one consumer thread.  head *)
(* and tail are free-running machine words that wrap at Modulus; a slot is *)
(* addressed by the word modulo the capacity.                              *)
(*                                                                         *)
(* Between a call's index load and its index store the other thread runs:  *)
(* a call is a begin step (the two loads and the length check), one step   *)
(* per slot access, and a finish step (the release store of the index).    *)
(* The release/acquire pairs of the code make the slot writes before a     *)
(* store visible to whoever loads the stored index, which is what the      *)
(* interleaving of these steps expresses.                                  *)
(***************************************************************************)
EXTENDS Integers, Sequences

CONSTANTS Sample,     \* the sample values
          Silence,    \* the value every slot is created with
          Cap,        \* capacity_samples
          Modulus,    \* 2^w for a machine word (usize) of w bits
          MaxBlock    \* longest block a caller hands over or asks for

\* capacity_samples = 0 is refused by new, and an allocation never exceeds
\* half of the address space.
ASSUME RingAssumption ==
  /\ Cap \in Nat \ {0} /\ Modulus \in Nat /\ 2 * Cap <= Modulus
  /\ MaxBlock \in Nat \ {0} /\ Silence \in Sample

VARIABLES slots,      \* samples: the cells, 0 .. Cap-1
          head, tail, \* the two published indices
          prod,       \* the producer's call in progress
          cons,       \* the consumer's call in progress
          pushed,     \* the last try_push_samples: its result and, if
                      \* accepted, its input
          taken       \* what the last consumer call returned

vars == <<slots, head, tail, prod, cons, pushed, taken>>

Slot     == 0 .. Cap - 1
Word     == 0 .. Modulus - 1
Blocks   == UNION {[1..n -> Sample] : n \in 1..MaxBlock}
\* Mutant: an index that does not wrap with the machine word.
NoWrap(x) == x
Wrap(x)  == x % Modulus

SlotOf(x) == Wrap(x) % Cap

\* head.wrapping_sub(tail), the number of published samples
Used == Wrap(head - tail)

Idle   == "idle"
NoCall == [op |-> Idle, block |-> <<>>, done |-> 0]
NoTake == [op |-> Idle, want |-> 0, out |-> <<>>]

Init ==
  /\ slots = [i \in Slot |-> Silence]
  /\ head = 0 /\ tail = 0
  /\ prod = NoCall /\ cons = NoTake
  /\ pushed = [ok |-> FALSE, block |-> <<>>]
  /\ taken = [ok |-> FALSE, out |-> <<>>]

-----------------------------------------------------------------------------
(* The producer: try_push_samples.                                         *)

\* Mutant: one sample too many is accepted.
FitsOneTooMany(n) == n <= Cap + 1 - Used

\* The block (never empty) fits into the Cap.saturating_sub(used) free slots.
Fits(n) == n <= Cap - Used

PushBegin ==
  /\ prod.op = Idle
  /\ \E block \in Blocks :
       /\ Fits(Len(block))
       /\ prod' = [op |-> "push", block |-> block, done |-> 0]
  /\ UNCHANGED <<slots, head, tail, cons, pushed, taken>>

PushRefused ==
  /\ prod.op = Idle
  /\ \E n \in 1..MaxBlock : ~Fits(n)
  /\ pushed' = [ok |-> FALSE, block |-> <<>>]
  /\ UNCHANGED <<slots, head, tail, prod, cons, taken>>

PushWrite ==
  /\ prod.op = "push" /\ prod.done < Len(prod.block)
  /\ slots' = [slots EXCEPT ![SlotOf(head + prod.done)] = prod.block[prod.done + 1]]
  /\ prod' = [prod EXCEPT !.done = @ + 1]
  /\ UNCHANGED <<head, tail, cons, pushed, taken>>

\* Mutant: the new head is stored before the last sample is written.
PublishEarly ==
  /\ prod.op = "push" /\ prod.done + 1 = Len(prod.block)
  /\ head' = Wrap(head + Len(prod.block))
  /\ prod' = NoCall
  /\ pushed' = [ok |-> TRUE, block |-> prod.block]
  /\ UNCHANGED <<slots, tail, cons, taken>>

PushPublish ==
  /\ prod.op = "push" /\ prod.done = Len(prod.block)
  /\ head' = Wrap(head + Len(prod.block))
  /\ prod' = NoCall
  /\ pushed' = [ok |-> TRUE, block |-> prod.block]
  /\ UNCHANGED <<slots, tail, cons, taken>>

-----------------------------------------------------------------------------
(* The consumer: try_pop_samples, peek_samples and discard_samples.        *)

TakeBegin ==
  /\ cons.op = Idle
  /\ \E op \in {"pop", "peek", "discard"}, n \in 1..MaxBlock :
       /\ n <= Used
       /\ cons' = [op |-> op, want |-> n, out |-> <<>>]
  /\ UNCHANGED <<slots, head, tail, prod, pushed, taken>>

TakeRefused ==
  /\ cons.op = Idle
  /\ \E n \in 1..MaxBlock : n > Used
  /\ taken' = [ok |-> FALSE, out |-> <<>>]
  /\ UNCHANGED <<slots, head, tail, prod, cons, pushed>>

TakeRead ==
  /\ cons.op \in {"pop", "peek"} /\ Len(cons.out) < cons.want
  /\ cons' = [cons EXCEPT !.out = Append(@, slots[SlotOf(tail + Len(@))])]
  /\ UNCHANGED <<slots, head, tail, prod, pushed, taken>>

TakeFinish ==
  /\ \/ cons.op \in {"pop", "peek"} /\ Len(cons.out) = cons.want
     \/ cons.op = "discard"
  /\ tail' = IF cons.op = "peek" THEN tail ELSE Wrap(tail + cons.want)
  /\ taken' = [ok |-> TRUE, out |-> cons.out]
  /\ cons' = NoTake
  /\ UNCHANGED <<slots, head, prod, pushed>>

Producer == PushBegin \/ PushRefused \/ PushWrite \/ PushPublish
Consumer == TakeBegin \/ TakeRefused \/ TakeRead \/ TakeFinish
Next == Producer \/ Consumer

Spec == Init /\ [][Next]_vars

-----------------------------------------------------------------------------
\* Type correctness of the ring's cells, indices and calls in progress.
TypeOK ==
  /\ slots \in [Slot -> Sample]
  /\ head \in Word /\ tail \in Word
  /\ prod \in [op : {Idle, "push"}, block : Seq(Sample), done : Nat]
  /\ prod.done <= Len(prod.block)
  /\ cons \in [op : {Idle, "pop", "peek", "discard"}, want : Nat, out : Seq(Sample)]
  /\ Len(cons.out) <= cons.want
  /\ pushed \in [ok : BOOLEAN, block : Seq(Sample)]
  /\ taken \in [ok : BOOLEAN, out : Seq(Sample)]

\* The cells the producer's call in progress may write, and those the
\* consumer's call in progress may read.
WriteSet == {SlotOf(head + i) : i \in 0 .. Len(prod.block) - 1}
ReadSet  == IF cons.op = "discard" THEN {}
            ELSE {SlotOf(tail + i) : i \in 0 .. cons.want - 1}

\* The safety comment of the unsafe impl Sync: "The producer writes only
\* unpublished slots; the consumer reads only published slots."  The cells of
\* the two calls in progress are disjoint, so no access races another.
NoSharedSlot == WriteSet \cap ReadSet = {}

\* The inductive invariant behind NoSharedSlot: the check made when a call
\* began still holds while the other thread moves its own index, because a push
\* only needs the published part not to grow and a take not to shrink.
CallsFit ==
  /\ Used + Len(prod.block) <= Cap
  /\ cons.want <= Used

\* RingSafe: the two sides of AudioBlockRing never meet in a cell, and why not.
RingSafe == TypeOK /\ CallsFit /\ NoSharedSlot

\* The ring is a bounded FIFO whatever the interleaving: the published cells,
\* oldest first, are the abstract queue, and every call returns what the
\* atomic channel would return.
Published == [i \in 1..Used |-> slots[SlotOf(tail + i - 1)]]
Fifo == INSTANCE SampleFifo WITH queue <- Published
ImplementsFifo == Fifo!Spec
=============================================================================
