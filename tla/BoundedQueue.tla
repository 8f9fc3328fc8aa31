---------------------------- MODULE BoundedQueue ----------------------------
(***************************************************************************)
(* The threads inside BoundedQueue<T> (include/bounded_queue.h): one       *)
(* mutex, the condition variables not_empty_ and not_full_, and the calls  *)
(* push(), pop() and close() as the sequence of steps at which another     *)
(* thread can run.                                                         *)
(*                                                                         *)
(*   pc[t]     thread t ...                                                *)
(*   "idle"    is outside a call, or just about to lock the mutex          *)
(*   "held"    holds the mutex and is about to evaluate its predicate      *)
(*   "asleep"  sleeps in condition_variable::wait, mutex released          *)
(*   "woken"   was notified, or woke spuriously, and must lock again       *)
(*   "notify"  has changed the queue, has unlocked, has yet to notify_one  *)
(*   "refused" / "drained"  got false from push() / pop()                  *)
(*   "wakePop", "wakePush", "done"  the closer inside and after close()    *)
(*                                                                         *)
(* A consumer only ever waits on not_empty_ and a producer on not_full_,   *)
(* so the waiters of each are the sleeping threads of that kind.           *)
(***************************************************************************)
EXTENDS Naturals, Sequences, FiniteSets

CONSTANTS
    Producers,         \* the threads that call push()
    Consumers,         \* the threads that call pop() in a loop
    Closer,            \* the thread that calls close(), once, at any time
    Capacity,          \* capacity_
    ItemsPerProducer,  \* bound on the items a producer wants to push
    MaxSpurious,       \* bound on the spurious wakeups of a behaviour
    Free               \* the value of an unlocked mutex

ASSUME QueueAssumption ==
    /\ Producers # {} /\ IsFiniteSet(Producers)
    /\ Consumers # {} /\ IsFiniteSet(Consumers)
    /\ Producers \cap Consumers = {}
    /\ Closer \notin Producers \cup Consumers
    /\ Free \notin Producers \cup Consumers \cup {Closer}
    /\ Capacity \in Nat \ {0}
    /\ ItemsPerProducer \in Nat
    /\ MaxSpurious \in Nat

Threads == Producers \cup Consumers \cup {Closer}

VARIABLES
    mutex,     \* mutex_: the thread that holds it, or Free
    queue,     \* queue_
    closed,    \* closed_
    pc,        \* where each thread is, see above
    sent,      \* sent[p]: how many of p's pushes returned true
    taken,     \* history: the items popped, in the order they left queue_
    spurious   \* how many spurious wakeups have happened

vars == <<mutex, queue, closed, pc, sent, taken, spurious>>

Item == Producers \X (Nat \ {0})

\* The threads of S blocked in their condition variable.
Waiting(S) == {t \in S : pc[t] = "asleep"}

\* The threads of S inside a call that will look at their predicate again.
Looking(S) == {t \in S : pc[t] \in {"held", "woken"}}

\* The threads of S that still owe a notify_one.
Notifying(S) == {t \in S : pc[t] = "notify"}

Init ==
    /\ mutex = Free
    /\ queue = <<>>
    /\ closed = FALSE
    /\ pc = [t \in Threads |-> "idle"]
    /\ sent = [p \in Producers |-> 0]
    /\ taken = <<>>
    /\ spurious = 0

-----------------------------------------------------------------------------
\* std::unique_lock / std::lock_guard, and the re-lock at the end of wait().
Lock(t) ==
    /\ pc[t] \in {"idle", "woken"}
    /\ t \in Producers => sent[t] < ItemsPerProducer
    /\ mutex = Free
    /\ mutex' = t
    /\ pc' = [pc EXCEPT ![t] = "held"]
    /\ UNCHANGED <<queue, closed, sent, taken, spurious>>

\* A thread leaves the critical section, and the queue as it was.
Leave(t, place) ==
    /\ mutex' = Free
    /\ pc' = [pc EXCEPT ![t] = place]
    /\ UNCHANGED <<queue, closed, sent, taken, spurious>>

\* not_full_.wait, predicate false: release the mutex and sleep.
PushWait(p) == pc[p] = "held" /\ Len(queue) >= Capacity /\ ~closed /\ Leave(p, "asleep")

\* The wait is over and the queue is closed: push() returns false.
PushRefused(p) == pc[p] = "held" /\ closed /\ Leave(p, "refused")

\* p's next item goes to the back, and p out of the critical section.
Enqueue(p) ==
    /\ queue' = Append(queue, <<p, sent[p] + 1>>)
    /\ sent' = [sent EXCEPT ![p] = @ + 1]
    /\ mutex' = Free
    /\ pc' = [pc EXCEPT ![p] = "notify"]
    /\ UNCHANGED <<closed, taken, spurious>>

\* Mutants: the capacity is compared with <=; closed_ is not looked at after
\* the wait.
PushItem_OneTooMany(p) == pc[p] = "held" /\ Len(queue) <= Capacity /\ ~closed /\ Enqueue(p)
PushItem_AfterClose(p) == pc[p] = "held" /\ Len(queue) < Capacity /\ Enqueue(p)

\* There is room: enqueue and unlock; the notification follows.
PushItem(p) == pc[p] = "held" /\ Len(queue) < Capacity /\ ~closed /\ Enqueue(p)

\* not_empty_.wait, predicate false: release the mutex and sleep.
PopWait(c) == pc[c] = "held" /\ queue = <<>> /\ ~closed /\ Leave(c, "asleep")

\* Mutant: pop() fails as soon as the queue is closed, drained or not.
PopDrained_BeforeEmpty(c) == pc[c] = "held" /\ closed /\ Leave(c, "drained")

\* The wait is over and nothing is left: pop() returns false.
PopDrained(c) == pc[c] = "held" /\ queue = <<>> /\ closed /\ Leave(c, "drained")

\* c takes the front, and rest is what remains.
Dequeue(c, rest) ==
    /\ queue # <<>>
    /\ queue' = rest
    /\ taken' = Append(taken, Head(queue))
    /\ mutex' = Free
    /\ pc' = [pc EXCEPT ![c] = "notify"]
    /\ UNCHANGED <<closed, sent, spurious>>

\* Mutant: the front is read but not removed.
PopItem_FrontKept(c) == pc[c] = "held" /\ Dequeue(c, queue)

\* Dequeue and unlock; the notification follows.
PopItem(c) == pc[c] = "held" /\ Dequeue(c, Tail(queue))

\* Thread t runs notify_one on the condition variable the threads of S
\* wait on, outside the mutex, and returns from its call.
NotifyOne(t, S) ==
    /\ pc[t] = "notify"
    /\ \/ /\ Waiting(S) = {}
          /\ pc' = [pc EXCEPT ![t] = "idle"]
       \/ \E w \in Waiting(S) : pc' = [pc EXCEPT ![t] = "idle", ![w] = "woken"]
    /\ UNCHANGED <<mutex, queue, closed, sent, taken, spurious>>

\* Mutants: a push, a pop returns without notifying anybody.
PushNotify_Nobody(p) == NotifyOne(p, {})
PopNotify_Nobody(c) == NotifyOne(c, {})

PushNotify(p) == NotifyOne(p, Consumers)
PopNotify(c) == NotifyOne(c, Producers)

\* close(): set closed_ and leave the lock_guard's scope.
CloseSet ==
    /\ pc[Closer] = "held"
    /\ closed' = TRUE
    /\ mutex' = Free
    /\ pc' = [pc EXCEPT ![Closer] = "wakePop"]
    /\ UNCHANGED <<queue, sent, taken, spurious>>

\* The closer runs notify_all on the condition variable of the threads in S.
NotifyAll(S, from, to) ==
    /\ pc[Closer] = from
    /\ pc' = [t \in Threads |-> IF t = Closer THEN to
                                ELSE IF t \in Waiting(S) THEN "woken" ELSE pc[t]]
    /\ UNCHANGED <<mutex, queue, closed, sent, taken, spurious>>

\* Mutants: close() notifies the consumers only, the producers only.
CloseWakePop_Nobody == NotifyAll({}, "wakePop", "wakePush")
CloseWakePush_Nobody == NotifyAll({}, "wakePush", "done")

CloseWakePop == NotifyAll(Consumers, "wakePop", "wakePush")
CloseWakePush == NotifyAll(Producers, "wakePush", "done")

\* A condition variable may wake a thread nobody notified.
SpuriousWake(t) ==
    /\ pc[t] = "asleep"
    /\ spurious < MaxSpurious
    /\ spurious' = spurious + 1
    /\ pc' = [pc EXCEPT ![t] = "woken"]
    /\ UNCHANGED <<mutex, queue, closed, sent, taken>>

PushStep(p) ==
    \/ PushWait(p) \/ PushRefused(p) \/ PushItem(p) \/ PushNotify(p)

PopStep(c) ==
    \/ PopWait(c) \/ PopDrained(c) \/ PopItem(c) \/ PopNotify(c)

CloseStep == CloseSet \/ CloseWakePop \/ CloseWakePush

\* Every call has returned and no thread will make another one.
AllReturned ==
    /\ \A p \in Producers : \/ pc[p] = "refused"
                            \/ pc[p] = "idle" /\ sent[p] = ItemsPerProducer
    /\ \A c \in Consumers : pc[c] = "drained"
    /\ pc[Closer] = "done"

Terminated == AllReturned /\ UNCHANGED vars

Next ==
    \/ \E t \in Threads : Lock(t)
    \/ \E p \in Producers : PushStep(p)
    \/ \E c \in Consumers : PopStep(c)
    \/ CloseStep
    \/ \E t \in Producers \cup Consumers : SpuriousWake(t)
    \/ Terminated

Spec == Init /\ [][Next]_vars

(***************************************************************************)
(* A thread that can take a step, and goes on being able to, takes one:    *)
(* the operating system runs every runnable thread, and gives a mutex that *)
(* stays free to a thread that wants it.  Nothing obliges the closer to    *)
(* begin its call: what has to happen before close() must happen without   *)
(* it.                                                                     *)
(***************************************************************************)
Fairness ==
    /\ \A t \in Producers \cup Consumers : WF_vars(Lock(t))
    /\ \A p \in Producers : WF_vars(PushStep(p))
    /\ \A c \in Consumers : WF_vars(PopStep(c))
    /\ WF_vars(CloseStep)

FairSpec == Spec /\ Fairness

-----------------------------------------------------------------------------
ProducerPlaces == {"idle", "held", "asleep", "woken", "notify", "refused"}
ConsumerPlaces == {"idle", "held", "asleep", "woken", "notify", "drained"}
CloserPlaces == {"idle", "held", "wakePop", "wakePush", "done"}

\* The variables have their types, and the queue never outgrows capacity_.
TypeOK ==
    /\ mutex \in Threads \cup {Free}
    /\ queue \in Seq(Item)
    /\ Len(queue) <= Capacity
    /\ closed \in BOOLEAN
    /\ pc \in [Threads -> ProducerPlaces \cup ConsumerPlaces \cup CloserPlaces]
    /\ \A p \in Producers : pc[p] \in ProducerPlaces
    /\ \A c \in Consumers : pc[c] \in ConsumerPlaces
    /\ pc[Closer] \in CloserPlaces
    /\ sent \in [Producers -> Nat]
    /\ taken \in Seq(Item)
    /\ spurious \in 0..MaxSpurious

\* The mutex is held by the one thread that is inside a critical section,
\* so no two threads ever look at queue_ and closed_ together.
MutexOwned == \A t \in Threads : pc[t] = "held" <=> mutex = t

\* Everything ever pushed, oldest first: what was popped, then what is queued.
History == taken \o queue

(***************************************************************************)
(* No item is lost, duplicated or overtaken: the history holds exactly the *)
(* items the producers were told were accepted, and each producer's items  *)
(* are in the order it pushed them.                                        *)
(***************************************************************************)
AcceptedExactlyOnce ==
    /\ \A p \in Producers : \A k \in 1..sent[p] :
          \E i \in DOMAIN History : History[i] = <<p, k>>
    /\ \A i \in DOMAIN History : History[i][2] <= sent[History[i][1]]
    /\ \A i, j \in DOMAIN History :
          i < j /\ History[i][1] = History[j][1] => History[i][2] < History[j][2]

\* A consumer that was told "closed and drained" was told the truth, and it
\* stays true: no item can still arrive behind its back.
DrainedIsFinal == (\E c \in Consumers : pc[c] = "drained") => closed /\ queue = <<>>

(***************************************************************************)
(* No wakeup is lost although notify_one runs after the mutex is released. *)
(* While a consumer sleeps, every queued item has a wakeup on its way: a   *)
(* producer yet to notify or a consumer about to look.  While a producer   *)
(* sleeps and the queue is open, so has every free slot.                   *)
(***************************************************************************)
NoLostWakeup ==
    /\ Waiting(Consumers) # {} =>
          Len(queue) <= Cardinality(Notifying(Producers)) + Cardinality(Looking(Consumers))
    /\ Waiting(Producers) # {} /\ ~closed =>
          Capacity - Len(queue) <= Cardinality(Notifying(Consumers)) + Cardinality(Looking(Producers))

\* After closed_ is set a thread sleeps only as long as the closer still owes
\* its notify_all: close() strands nobody who was already waiting.
CloseWakesEveryone ==
    closed => /\ Waiting(Consumers) # {} => pc[Closer] = "wakePop"
              /\ Waiting(Producers) # {} => pc[Closer] \in {"wakePop", "wakePush"}

\* The strengthening of the four invariants above that is inductive.
IndInv ==
    /\ TypeOK
    /\ MutexOwned
    /\ AcceptedExactlyOnce
    /\ closed <=> pc[Closer] \in {"wakePop", "wakePush", "done"}
    /\ \A p \in Producers : pc[p] = "refused" => closed
    /\ \A p \in Producers : pc[p] \in {"held", "asleep", "woken"} => sent[p] < ItemsPerProducer
    /\ DrainedIsFinal
    /\ NoLostWakeup
    /\ CloseWakesEveryone

-----------------------------------------------------------------------------
\* An accepted item is eventually popped, whether or not anybody closes.
AcceptedIsTaken ==
    \A p \in Producers, k \in 1..ItemsPerProducer :
        sent[p] >= k ~> \E i \in DOMAIN taken : taken[i] = <<p, k>>

\* Backpressure throttles a producer but never stops it for good.
ProducersReturn ==
    \A p \in Producers : <>(sent[p] = ItemsPerProducer \/ pc[p] = "refused")

\* Once the queue is closed every push() and pop() returns.
CloseReturnsEveryone == closed ~> AllReturned

-----------------------------------------------------------------------------
\* The atomic queue this one implements: a call takes effect in the critical
\* section that ends it.
Fifo == INSTANCE BoundedFifo
          WITH refused <- {p \in Producers : pc[p] = "refused"},
               drained <- {c \in Consumers : pc[c] = "drained"}

\* Every step of the threads is a step of the atomic queue or none.
ImplementsFifo == Fifo!Spec
=============================================================================
