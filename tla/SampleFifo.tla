----------------------------- MODULE SampleFifo -----------------------------
(***************************************************************************)
(* What the single-producer single-consumer sample ring promises: a        *)
(* bounded first-in first-out channel.  Every call is one atomic step and  *)
(* reports whether it was accepted.                                        *)
(***************************************************************************)
EXTENDS Naturals, Sequences

CONSTANTS Sample,     \* the sample values
          Cap,        \* capacity of the channel, in samples
          MaxBlock    \* longest block a caller hands over or asks for

VARIABLES queue,      \* samples accepted and not yet consumed
          pushed,     \* the last push: its result and the accepted block
          taken       \* what the last consumer call returned

vars == <<queue, pushed, taken>>

\* The result of a push that found too little room.
Refused == [ok |-> FALSE, block |-> <<>>]

\* The result of a consumer call that found too few samples.
NoSamples == [ok |-> FALSE, out |-> <<>>]

Init == queue = <<>> /\ pushed = Refused /\ taken = NoSamples

Push == \E n \in 1..MaxBlock : \E block \in [1..n -> Sample] :
          /\ Len(queue) + n <= Cap
          /\ queue' = queue \o block
          /\ pushed' = [ok |-> TRUE, block |-> block]
          /\ UNCHANGED taken

PushFull == \E n \in 1..MaxBlock :
              /\ Len(queue) + n > Cap
              /\ pushed' = Refused
              /\ UNCHANGED <<queue, taken>>

\* Pop returns and removes the n oldest samples; peek keeps them; discard
\* removes them without returning any.
Take == \E n \in 1..MaxBlock : \E remove, return \in BOOLEAN :
          /\ n <= Len(queue)
          /\ queue' = IF remove THEN SubSeq(queue, n + 1, Len(queue)) ELSE queue
          /\ taken' = [ok |-> TRUE,
                       out |-> IF return THEN SubSeq(queue, 1, n) ELSE <<>>]
          /\ UNCHANGED pushed

TakeEmpty == \E n \in 1..MaxBlock :
               /\ n > Len(queue)
               /\ taken' = NoSamples
               /\ UNCHANGED <<queue, pushed>>

Next == Push \/ PushFull \/ Take \/ TakeEmpty

Spec == Init /\ [][Next]_vars
=============================================================================
