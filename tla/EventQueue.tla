----------------------------- MODULE EventQueue -----------------------------
(***************************************************************************)
(* What the input layer promises the main loop: a bounded first-in         *)
(* first-out queue of key events that loses an event only when it is full, *)
(* delivers everything it accepted, and may hang for good, but only once   *)
(* it has accepted something.                                              *)
(***************************************************************************)
EXTENDS Naturals, Sequences

CONSTANTS Event,     \* the events a driver may push
          Capacity   \* how many accepted events the queue can hold

VARIABLES queue,      \* accepted events, oldest first
          delivered,  \* events handed to the consumer so far
          lost,       \* how many events were refused
          alive       \* FALSE once the machine hangs

vars == <<queue, delivered, lost, alive>>

Init == /\ queue = <<>>
        /\ delivered = <<>>
        /\ lost = 0
        /\ alive = TRUE

Accept(e) == /\ alive
             /\ Len(queue) < Capacity
             /\ queue' = Append(queue, e)
             /\ UNCHANGED <<delivered, lost, alive>>

Lose == /\ alive
        /\ Len(queue) = Capacity
        /\ lost' = lost + 1
        /\ UNCHANGED <<queue, delivered, alive>>

Deliver == /\ alive
           /\ queue # <<>>
           /\ delivered' = Append(delivered, Head(queue))
           /\ queue' = Tail(queue)
           /\ UNCHANGED <<lost, alive>>

Hang == /\ alive
        /\ queue # <<>> \/ delivered # <<>>
        /\ alive' = FALSE
        /\ UNCHANGED <<queue, delivered, lost>>

Next == (\E e \in Event : Accept(e)) \/ Lose \/ Deliver \/ Hang

\* A live queue that holds an event eventually delivers one.
Spec == Init /\ [][Next]_vars /\ WF_vars(Deliver)
=============================================================================
