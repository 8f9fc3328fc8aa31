---------------------------- MODULE BoundedFifo ----------------------------
(***************************************************************************)
(* What BoundedQueue<T> (include/bounded_queue.h) promises its callers,    *)
(* without its mutex and condition variables: every push, pop and close    *)
(* takes effect at one instant on a bounded, closable first-in first-out   *)
(* list.  BoundedQueue.tla is shown to implement this module, and          *)
(* ConcurrentDpiEngine.tla uses the same atomic operations.                *)
(*                                                                         *)
(* A producer pushes items numbered 1, 2, ... until it has pushed          *)
(* ItemsPerProducer of them or a push is refused; a consumer pops until a  *)
(* pop fails.  That is how ConcurrentDpiEngine::processFile drives it.     *)
(***************************************************************************)
EXTENDS Naturals, Sequences

CONSTANTS
    Producers,        \* the threads that call push()
    Consumers,        \* the threads that call pop() in a loop
    Capacity,         \* capacity_
    ItemsPerProducer  \* bound on the items a producer wants to push

VARIABLES
    queue,    \* queue_: the items pushed and not yet popped
    closed,   \* closed_
    sent,     \* sent[p]: how many of p's pushes returned true
    taken,    \* the items popped so far, in the order they left the queue
    refused,  \* producers whose push returned false
    drained   \* consumers whose pop returned false

vars == <<queue, closed, sent, taken, refused, drained>>

\* The k-th item of producer p.
Item == Producers \X (Nat \ {0})

Init ==
    /\ queue = <<>>
    /\ closed = FALSE
    /\ sent = [p \in Producers |-> 0]
    /\ taken = <<>>
    /\ refused = {}
    /\ drained = {}

\* push() returns true.
Push(p) ==
    /\ sent[p] < ItemsPerProducer
    /\ ~closed
    /\ Len(queue) < Capacity
    /\ queue' = Append(queue, <<p, sent[p] + 1>>)
    /\ sent' = [sent EXCEPT ![p] = @ + 1]
    /\ UNCHANGED <<closed, taken, refused, drained>>

\* push() returns false: the queue was closed before space opened up.
Refuse(p) ==
    /\ sent[p] < ItemsPerProducer
    /\ closed
    /\ refused' = refused \cup {p}
    /\ UNCHANGED <<queue, closed, sent, taken, drained>>

\* pop() returns true, closed or not: a closed queue is still drained.
Pop(c) ==
    /\ c \notin drained
    /\ queue # <<>>
    /\ queue' = Tail(queue)
    /\ taken' = Append(taken, Head(queue))
    /\ UNCHANGED <<closed, sent, refused, drained>>

\* pop() returns false: closed and drained.
Drain(c) ==
    /\ closed
    /\ queue = <<>>
    /\ drained' = drained \cup {c}
    /\ UNCHANGED <<queue, closed, sent, taken, refused>>

Close ==
    /\ closed' = TRUE
    /\ UNCHANGED <<queue, sent, taken, refused, drained>>

Next ==
    \/ \E p \in Producers : Push(p) \/ Refuse(p)
    \/ \E c \in Consumers : Pop(c) \/ Drain(c)
    \/ Close

Spec == Init /\ [][Next]_vars
=============================================================================
