------------------------------ MODULE AudioFifo -----------------------------
(***************************************************************************)
(* What the audio ring promises its two ends: the blocks the emulation     *)
(* makes are heard whole, once, and in the order they were made.  A block  *)
(* that finds no room is left out as a whole.                              *)
(***************************************************************************)
EXTENDS Naturals, Sequences

CONSTANT Capacity

VARIABLES
  queue,   \* blocks made and not heard yet, by number
  made,    \* number of the block being made
  heard    \* the last block heard

fifo == <<queue, made, heard>>

Init == queue = <<>> /\ made = 1 /\ heard = 0

Publish ==
  /\ Len(queue) < Capacity
  /\ queue' = Append(queue, made) /\ made' = made + 1
  /\ UNCHANGED heard

Drop == made' = made + 1 /\ UNCHANGED <<queue, heard>>

Play ==
  /\ queue # <<>>
  /\ heard' = Head(queue) /\ queue' = Tail(queue)
  /\ UNCHANGED made

\* The sink is closed or started again: what is queued is given up.
Flush ==
  /\ queue' = <<>> /\ made' \in {made, made + 1}
  /\ UNCHANGED heard

Next == Publish \/ Drop \/ Play \/ Flush

Spec == Init /\ [][Next]_fifo

=============================================================================
