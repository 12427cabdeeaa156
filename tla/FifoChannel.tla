---------------------------- MODULE FifoChannel ----------------------------
(***************************************************************************)
(* What the worker threads of the client expect of the queue they talk     *)
(* through: messages, numbered in the order they are written, come out     *)
(* once each and in that order.  It is the promise SPSCQueue implements    *)
(* and the reason why the other modules model a queue as a plain sequence. *)
(***************************************************************************)
EXTENDS Naturals, Sequences

CONSTANT MaxWrites      \* bound: messages ever written

VARIABLES
    queue,              \* written and not yet taken
    delivered           \* taken by the consumer, oldest first

vars == <<queue, delivered>>

Written == Len(queue) + Len(delivered)

Init ==
    /\ queue = << >>
    /\ delivered = << >>

Put ==
    /\ Written < MaxWrites
    /\ queue' = Append(queue, Written + 1)
    /\ UNCHANGED delivered

Get ==
    /\ queue # << >>
    /\ delivered' = Append(delivered, Head(queue))
    /\ queue' = Tail(queue)

Next == Put \/ Get

Spec == Init /\ [][Next]_vars /\ WF_vars(Get)
=============================================================================
