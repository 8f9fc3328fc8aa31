------------------------- MODULE BoundedQueueProofs -------------------------
(***************************************************************************)
(* Proofs about BoundedQueue, for any finite number of producers and       *)
(* consumers, any capacity, any number of items and any number of spurious *)
(* wakeups.                                                                *)
(***************************************************************************)
EXTENDS BoundedQueue, FiniteSetTheorems, SequenceTheorems, TLAPS

-----------------------------------------------------------------------------
(* Counting the threads of a kind that are in certain places.              *)

\* How many threads of S are, according to f, in one of the places of V.
Count(f, S, V) == Cardinality({x \in S : f[x] \in V})

\* A count is a natural number, zero exactly when nobody is there.
LEMMA CountIsNat ==
    ASSUME NEW S, IsFiniteSet(S), NEW f, NEW V
    PROVE  /\ Count(f, S, V) \in Nat
           /\ Count(f, S, V) = 0 <=> {x \in S : f[x] \in V} = {}
<1>1. {x \in S : f[x] \in V} \in SUBSET S
  OBVIOUS
<1>2. IsFiniteSet({x \in S : f[x] \in V})
  BY <1>1, FS_Subset
<1>. QED
  BY <1>2, FS_CardinalityType, FS_EmptySet DEF Count

\* If one thread of S moves, into or out of V, the count changes by one.
LEMMA CountMove ==
    ASSUME NEW S, IsFiniteSet(S), NEW V, NEW f, NEW g, NEW t \in S,
           \A x \in S : x # t => g[x] = f[x]
    PROVE  Count(g, S, V) =
             IF g[t] \in V /\ f[t] \notin V THEN Count(f, S, V) + 1
             ELSE IF g[t] \notin V /\ f[t] \in V THEN Count(f, S, V) - 1
             ELSE Count(f, S, V)
<1>. DEFINE A == {x \in S : f[x] \in V}
            B == {x \in S : g[x] \in V}
<1>1. IsFiniteSet(A)
  BY FS_Subset, A \in SUBSET S
<1>2. CASE g[t] \in V /\ f[t] \notin V
  <2>1. B = A \cup {t} /\ t \notin A
    BY <1>2
  <2>2. Cardinality(A \cup {t}) = Cardinality(A) + 1
    BY <1>1, <2>1, FS_AddElement
  <2>. QED
    BY <1>2, <2>1, <2>2 DEF Count
<1>3. CASE g[t] \notin V /\ f[t] \in V
  <2>1. B = A \ {t} /\ t \in A
    BY <1>3
  <2>2. Cardinality(A \ {t}) = Cardinality(A) - 1
    BY <1>1, <2>1, FS_RemoveElement
  <2>. QED
    BY <1>3, <2>1, <2>2 DEF Count
<1>4. CASE g[t] \in V <=> f[t] \in V
  <2>1. B = A
    BY <1>4
  <2>. QED
    BY <1>4, <2>1 DEF Count
<1>. QED
  BY <1>2, <1>3, <1>4

-----------------------------------------------------------------------------
(* Type correctness.                                                       *)

\* What the assumptions say of the threads, in the form the proofs use.
LEMMA ThreadFacts ==
    /\ IsFiniteSet(Producers) /\ IsFiniteSet(Consumers)
    /\ Producers \subseteq Threads /\ Consumers \subseteq Threads /\ Closer \in Threads
    /\ \A p \in Producers : p \notin Consumers /\ p # Closer
    /\ \A c \in Consumers : c \notin Producers /\ c # Closer
    /\ \A t \in Threads : t # Free
    /\ \A t \in Threads : t \in Producers \/ t \in Consumers \/ t = Closer
    /\ Capacity \in Nat /\ Capacity > 0 /\ ItemsPerProducer \in Nat /\ MaxSpurious \in Nat
BY QueueAssumption DEF Threads

\* f is a typed program counter.
PcTyped(f) ==
    /\ f \in [Threads -> ProducerPlaces \cup ConsumerPlaces \cup CloserPlaces]
    /\ \A p \in Producers : f[p] \in ProducerPlaces
    /\ \A c \in Consumers : f[c] \in ConsumerPlaces
    /\ f[Closer] \in CloserPlaces

\* Moving a thread to a place it may be in keeps the program counters typed.
LEMMA PcMove ==
    ASSUME NEW f, PcTyped(f), NEW t \in Threads, NEW s,
           t \in Producers => s \in ProducerPlaces,
           t \in Consumers => s \in ConsumerPlaces,
           t = Closer => s \in CloserPlaces
    PROVE  PcTyped([f EXCEPT ![t] = s])
BY ThreadFacts DEF PcTyped

\* A notification keeps the program counters typed.
LEMMA NotifyType ==
    ASSUME PcTyped(pc), NEW t \in Producers \cup Consumers, NEW S \in {Producers, Consumers},
           NotifyOne(t, S)
    PROVE  PcTyped(pc')
<1>. DEFINE g == [pc EXCEPT ![t] = "idle"]
<1>0. t \in Threads /\ S \subseteq Producers \cup Consumers
  BY ThreadFacts
<1>1. PcTyped(g)
  BY <1>0, PcMove DEF ProducerPlaces, ConsumerPlaces, CloserPlaces
<1>2. CASE pc' = g
  BY <1>1, <1>2
<1>3. ASSUME NEW w \in Waiting(S), pc' = [pc EXCEPT ![t] = "idle", ![w] = "woken"]
      PROVE  PcTyped(pc')
  <2>1. w \in Threads /\ w # Closer
    BY <1>0, <1>3, ThreadFacts DEF Waiting
  <2>2. PcTyped([g EXCEPT ![w] = "woken"])
    BY <1>1, <2>1, PcMove DEF ProducerPlaces, ConsumerPlaces
  <2>. QED
    BY <1>3, <2>2
<1>. QED
  BY <1>2, <1>3 DEF NotifyOne

\* Every step keeps the types and the capacity.
LEMMA TypeStep == TypeOK /\ [Next]_vars => TypeOK'
<1>. SUFFICES ASSUME TypeOK, [Next]_vars PROVE TypeOK'
  OBVIOUS
<1>0. PcTyped(pc)
  BY DEF TypeOK, PcTyped
<1>a. ASSUME NEW t \in Threads, Lock(t) PROVE TypeOK'
  <2>1. PcTyped([pc EXCEPT ![t] = "held"])
    BY <1>0, PcMove DEF ProducerPlaces, ConsumerPlaces, CloserPlaces
  <2>. QED
    BY <1>a, <2>1 DEF Lock, TypeOK, PcTyped
<1>b. ASSUME NEW p \in Producers, PushStep(p) PROVE TypeOK'
  <2>. p \in Threads /\ p \notin Consumers /\ p # Closer
    BY ThreadFacts
  <2>1. \A s \in ProducerPlaces : PcTyped([pc EXCEPT ![p] = s])
    BY <1>0, PcMove
  <2>2. CASE PushWait(p) \/ PushRefused(p)
    BY <2>1, <2>2 DEF PushWait, PushRefused, TypeOK, PcTyped, ProducerPlaces, Leave
  <2>3. CASE PushItem(p)
    <3>1. PcTyped(pc')
      BY <2>1, <2>3 DEF PushItem, ProducerPlaces, Enqueue
    <3>2. <<p, sent[p] + 1>> \in Item /\ sent' \in [Producers -> Nat]
      BY <2>3 DEF PushItem, TypeOK, Item, Enqueue
    <3>3. queue' \in Seq(Item) /\ Len(queue') <= Capacity
      BY <2>3, <3>2, AppendProperties, LenProperties, ThreadFacts DEF PushItem, TypeOK, Enqueue
    <3>. QED
      BY <2>3, <3>1, <3>2, <3>3 DEF PushItem, TypeOK, PcTyped, Enqueue
  <2>4. CASE PushNotify(p)
    BY <1>0, <2>4, NotifyType DEF PushNotify, NotifyOne, TypeOK, PcTyped
  <2>. QED
    BY <1>b, <2>2, <2>3, <2>4 DEF PushStep
<1>c. ASSUME NEW c \in Consumers, PopStep(c) PROVE TypeOK'
  <2>. c \in Threads /\ c \notin Producers /\ c # Closer
    BY ThreadFacts
  <2>1. \A s \in ConsumerPlaces : PcTyped([pc EXCEPT ![c] = s])
    BY <1>0, PcMove
  <2>2. CASE PopWait(c) \/ PopDrained(c)
    BY <2>1, <2>2 DEF PopWait, PopDrained, TypeOK, PcTyped, ConsumerPlaces, Leave
  <2>3. CASE PopItem(c)
    <3>1. PcTyped(pc')
      BY <2>1, <2>3 DEF PopItem, ConsumerPlaces, Dequeue
    <3>2. queue' \in Seq(Item) /\ Head(queue) \in Item /\ Len(queue') = Len(queue) - 1
      BY <2>3, HeadTailProperties DEF PopItem, TypeOK, Dequeue
    <3>3. taken' \in Seq(Item)
      BY <2>3, <3>2, AppendProperties DEF PopItem, TypeOK, Dequeue
    <3>. QED
      BY <2>3, <3>1, <3>2, <3>3, LenProperties, ThreadFacts DEF PopItem, TypeOK, PcTyped, Dequeue
  <2>4. CASE PopNotify(c)
    BY <1>0, <2>4, NotifyType DEF PopNotify, NotifyOne, TypeOK, PcTyped
  <2>. QED
    BY <1>c, <2>2, <2>3, <2>4 DEF PopStep
<1>d. ASSUME CloseStep PROVE TypeOK'
  <2>. Closer \in Threads
    BY ThreadFacts
  <2>1. CASE CloseSet
    <3>1. PcTyped([pc EXCEPT ![Closer] = "wakePop"])
      BY <1>0, PcMove, ThreadFacts DEF CloserPlaces
    <3>. QED
      BY <2>1, <3>1 DEF CloseSet, TypeOK, PcTyped
  <2>2. ASSUME NEW S \in {Producers, Consumers}, NEW from, NEW to \in CloserPlaces,
               NotifyAll(S, from, to)
        PROVE  TypeOK'
    <3>1. \A t \in Threads : pc'[t] = IF t = Closer THEN to
                                      ELSE IF t \in Waiting(S) THEN "woken" ELSE pc[t]
      BY <2>2 DEF NotifyAll
    <3>2. \A t \in Producers \cup Consumers : pc'[t] = "woken" \/ pc'[t] = pc[t]
      BY <3>1, ThreadFacts
    <3>3. DOMAIN pc' = Threads /\ pc'[Closer] = to /\ pc' = [t \in Threads |-> pc'[t]]
      BY <2>2, <3>1 DEF NotifyAll
    <3>4. PcTyped(pc')
      <4>1. \A p \in Producers : pc'[p] \in ProducerPlaces
        BY <1>0, <3>2 DEF PcTyped, ProducerPlaces
      <4>2. \A c \in Consumers : pc'[c] \in ConsumerPlaces
        BY <1>0, <3>2 DEF PcTyped, ConsumerPlaces
      <4>. QED
        BY <3>3, <4>1, <4>2, <2>2, ThreadFacts DEF PcTyped
    <3>. QED
      BY <2>2, <3>4 DEF NotifyAll, TypeOK, PcTyped
  <2>3. CASE CloseWakePop \/ CloseWakePush
    BY <2>2, <2>3 DEF CloseWakePop, CloseWakePush, CloserPlaces
  <2>. QED
    BY <1>d, <2>1, <2>3 DEF CloseStep
<1>e. ASSUME NEW t \in Producers \cup Consumers, SpuriousWake(t) PROVE TypeOK'
  <2>1. PcTyped([pc EXCEPT ![t] = "woken"])
    BY <1>0, PcMove, ThreadFacts DEF ProducerPlaces, ConsumerPlaces
  <2>. QED
    BY <1>e, <2>1, ThreadFacts DEF SpuriousWake, TypeOK, PcTyped
<1>f. CASE UNCHANGED vars
  BY <1>f DEF vars, TypeOK
<1>. QED
  BY <1>a, <1>b, <1>c, <1>d, <1>e, <1>f DEF Next, Terminated

\* The initial states have their types.
LEMMA InitType == Init => TypeOK
<1>. SUFFICES ASSUME Init PROVE TypeOK
  OBVIOUS
<1>1. queue \in Seq(Item) /\ Len(queue) = 0 /\ taken \in Seq(Item)
  BY EmptySeq DEF Init
<1>2. /\ pc \in [Threads -> ProducerPlaces \cup ConsumerPlaces \cup CloserPlaces]
      /\ \A p \in Producers : pc[p] \in ProducerPlaces
      /\ \A c \in Consumers : pc[c] \in ConsumerPlaces
      /\ pc[Closer] \in CloserPlaces
  BY ThreadFacts DEF Init, ProducerPlaces, ConsumerPlaces, CloserPlaces
<1>3. mutex \in Threads \cup {Free} /\ closed \in BOOLEAN
  BY DEF Init
<1>4. sent \in [Producers -> Nat]
  BY DEF Init
<1>5. spurious \in 0..MaxSpurious /\ Len(queue) <= Capacity
  BY <1>1, ThreadFacts DEF Init
<1>. QED
  BY <1>1, <1>2, <1>3, <1>4, <1>5 DEF TypeOK

\* The variables keep their types and the queue its capacity.
THEOREM TypeCorrect == Spec => []TypeOK
BY InitType, TypeStep, PTL DEF Spec

-----------------------------------------------------------------------------
(* The inductive invariant, one lemma for each group of its conjuncts.     *)

\* How a notification moves the threads: the caller to "idle", and at most
\* one sleeper of S, if there is any, to "woken".
LEMMA NotifyMoves ==
    ASSUME TypeOK, NEW t \in Producers \cup Consumers, NEW S \in {Producers, Consumers},
           NotifyOne(t, S)
    PROVE  \/ /\ Waiting(S) = {}
              /\ \A x \in Threads : pc'[x] = IF x = t THEN "idle" ELSE pc[x]
           \/ \E w \in Waiting(S) :
                /\ w # t /\ w \in Producers \cup Consumers
                /\ \A x \in Threads : pc'[x] = IF x = t THEN "idle"
                                               ELSE IF x = w THEN "woken" ELSE pc[x]
<1>1. pc[t] = "notify" /\ t \in Threads /\ DOMAIN pc = Threads
  BY ThreadFacts DEF NotifyOne, TypeOK
<1>2. CASE Waiting(S) = {} /\ pc' = [pc EXCEPT ![t] = "idle"]
  BY <1>1, <1>2
<1>3. ASSUME NEW w \in Waiting(S), pc' = [pc EXCEPT ![t] = "idle", ![w] = "woken"]
      PROVE  /\ w # t /\ w \in Producers \cup Consumers
             /\ \A x \in Threads : pc'[x] = IF x = t THEN "idle"
                                            ELSE IF x = w THEN "woken" ELSE pc[x]
  <2>1. w # t /\ w \in Producers \cup Consumers /\ w \in Threads
    BY <1>1, <1>3, ThreadFacts DEF Waiting
  <2>. QED
    BY <1>1, <1>3, <2>1
<1>. QED
  BY <1>2, <1>3 DEF NotifyOne

\* The conjuncts of IndInv that say which thread is where.
Control ==
    /\ MutexOwned
    /\ closed <=> pc[Closer] \in {"wakePop", "wakePush", "done"}
    /\ \A p \in Producers : pc[p] = "refused" => closed
    /\ \A p \in Producers : pc[p] \in {"held", "asleep", "woken"} => sent[p] < ItemsPerProducer
    /\ DrainedIsFinal
    /\ CloseWakesEveryone

\* A notification preserves them.
LEMMA NotifyKeepsControl ==
    ASSUME TypeOK, Control, NEW t \in Producers \cup Consumers,
           NEW S \in {Producers, Consumers}, NotifyOne(t, S)
    PROVE  Control'
<1>0. pc[t] = "notify" /\ t # Closer /\ UNCHANGED <<mutex, queue, closed, sent>>
  BY ThreadFacts DEF NotifyOne
<1>1. \A x \in Threads : \/ pc'[x] = pc[x]
                         \/ pc'[x] = "idle" /\ x = t
                         \/ pc'[x] = "woken" /\ pc[x] = "asleep" /\ x # Closer
  <2>1. CASE \A x \in Threads : pc'[x] = IF x = t THEN "idle" ELSE pc[x]
    BY <2>1
  <2>2. ASSUME NEW w \in Waiting(S), w \in Producers \cup Consumers,
               \A x \in Threads : pc'[x] = IF x = t THEN "idle"
                                           ELSE IF x = w THEN "woken" ELSE pc[x]
        PROVE  \A x \in Threads : \/ pc'[x] = pc[x]
                                  \/ pc'[x] = "idle" /\ x = t
                                  \/ pc'[x] = "woken" /\ pc[x] = "asleep" /\ x # Closer
    BY <2>2, ThreadFacts DEF Waiting
  <2>. QED
    BY <2>1, <2>2, NotifyMoves
<1>2. MutexOwned'
  BY <1>0, <1>1 DEF Control, MutexOwned
<1>3. Waiting(Consumers)' \subseteq Waiting(Consumers) /\ Waiting(Producers)' \subseteq Waiting(Producers)
  BY <1>1, ThreadFacts DEF Waiting
<1>4. pc'[Closer] = pc[Closer]
  BY <1>0, <1>1, ThreadFacts
<1>5. (DrainedIsFinal /\ CloseWakesEveryone)'
  BY <1>0, <1>1, <1>3, <1>4, ThreadFacts DEF Control, DrainedIsFinal, CloseWakesEveryone
<1>6. \A p \in Producers : pc'[p] = "refused" => closed'
  BY <1>0, <1>1, ThreadFacts DEF Control
<1>7. \A p \in Producers : pc'[p] \in {"held", "asleep", "woken"} => sent'[p] < ItemsPerProducer
  BY <1>0, <1>1, ThreadFacts DEF Control
<1>. QED
  BY <1>0, <1>2, <1>4, <1>5, <1>6, <1>7 DEF Control

\* Every step preserves them.
LEMMA ControlStep == TypeOK /\ Control /\ [Next]_vars => Control'
<1>. SUFFICES ASSUME TypeOK, Control, [Next]_vars PROVE Control'
  OBVIOUS
<1>. USE DEF Control
<1>0. DOMAIN pc = Threads /\ DOMAIN sent = Producers /\ \A t \in Threads : t # Free
  BY ThreadFacts DEF TypeOK
<1>a. ASSUME NEW t \in Threads, Lock(t) PROVE Control'
  <2>1. \A x \in Threads : pc'[x] = IF x = t THEN "held" ELSE pc[x]
    BY <1>0, <1>a DEF Lock
  <2>2. MutexOwned'
    BY <1>0, <1>a, <2>1 DEF Lock, MutexOwned
  <2>3. Waiting(Consumers)' \subseteq Waiting(Consumers) /\ Waiting(Producers)' \subseteq Waiting(Producers)
    BY <2>1, ThreadFacts DEF Waiting
  <2>4. (DrainedIsFinal /\ CloseWakesEveryone)'
    BY <1>a, <2>1, <2>3, ThreadFacts DEF Lock, DrainedIsFinal, CloseWakesEveryone
  <2>. QED
    BY <1>a, <2>1, <2>2, <2>4, ThreadFacts DEF Lock
<1>b. ASSUME NEW p \in Producers, PushStep(p) PROVE Control'
  <2>0. p \in Threads /\ p \notin Consumers /\ p # Closer
    BY ThreadFacts
  <2>1. CASE PushWait(p)
    <3>1. \A x \in Threads : pc'[x] = IF x = p THEN "asleep" ELSE pc[x]
      BY <1>0, <2>1 DEF PushWait, Leave
    <3>2. MutexOwned'
      BY <1>0, <2>0, <2>1, <3>1 DEF PushWait, MutexOwned, Leave
    <3>3. (DrainedIsFinal /\ CloseWakesEveryone)'
      BY <2>0, <2>1, <3>1, ThreadFacts DEF PushWait, DrainedIsFinal, CloseWakesEveryone, Leave
    <3>. QED
      BY <2>0, <2>1, <3>1, <3>2, <3>3, ThreadFacts DEF PushWait, Leave
  <2>2. CASE PushRefused(p)
    <3>1. \A x \in Threads : pc'[x] = IF x = p THEN "refused" ELSE pc[x]
      BY <1>0, <2>2 DEF PushRefused, Leave
    <3>2. MutexOwned'
      BY <1>0, <2>0, <2>2, <3>1 DEF PushRefused, MutexOwned, Leave
    <3>3. Waiting(Consumers)' = Waiting(Consumers) /\ Waiting(Producers)' = Waiting(Producers)
      BY <2>0, <2>2, <3>1, ThreadFacts DEF Waiting, PushRefused, Leave
    <3>4. (DrainedIsFinal /\ CloseWakesEveryone)'
      BY <2>0, <2>2, <3>1, <3>3, ThreadFacts DEF PushRefused, DrainedIsFinal, CloseWakesEveryone, Leave
    <3>. QED
      BY <2>0, <2>2, <3>1, <3>2, <3>4, ThreadFacts DEF PushRefused, Leave
  <2>3. CASE PushItem(p)
    <3>1. \A x \in Threads : pc'[x] = IF x = p THEN "notify" ELSE pc[x]
      BY <1>0, <2>3 DEF PushItem, Enqueue
    <3>2. MutexOwned'
      BY <1>0, <2>0, <2>3, <3>1 DEF PushItem, MutexOwned, Enqueue
    <3>3. \A x \in Producers : x # p => sent'[x] = sent[x]
      BY <1>0, <2>3 DEF PushItem, Enqueue
    <3>4. (DrainedIsFinal /\ CloseWakesEveryone)'
      BY <2>0, <2>3, <3>1, ThreadFacts DEF PushItem, DrainedIsFinal, CloseWakesEveryone, Enqueue
    <3>. QED
      BY <2>0, <2>3, <3>1, <3>2, <3>3, <3>4, ThreadFacts DEF PushItem, Enqueue
  <2>4. CASE PushNotify(p)
    <3>. QED
      BY <2>4, NotifyKeepsControl DEF PushNotify
  <2>. QED
    BY <1>b, <2>1, <2>2, <2>3, <2>4 DEF PushStep
<1>c. ASSUME NEW c \in Consumers, PopStep(c) PROVE Control'
  <2>0. c \in Threads /\ c \notin Producers /\ c # Closer
    BY ThreadFacts
  <2>1. CASE PopWait(c)
    <3>1. \A x \in Threads : pc'[x] = IF x = c THEN "asleep" ELSE pc[x]
      BY <1>0, <2>1 DEF PopWait, Leave
    <3>2. MutexOwned'
      BY <1>0, <2>0, <2>1, <3>1 DEF PopWait, MutexOwned, Leave
    <3>3. (DrainedIsFinal /\ CloseWakesEveryone)'
      BY <2>0, <2>1, <3>1, ThreadFacts DEF PopWait, DrainedIsFinal, CloseWakesEveryone, Leave
    <3>. QED
      BY <2>0, <2>1, <3>1, <3>2, <3>3, ThreadFacts DEF PopWait, Leave
  <2>2. CASE PopDrained(c)
    <3>1. \A x \in Threads : pc'[x] = IF x = c THEN "drained" ELSE pc[x]
      BY <1>0, <2>2 DEF PopDrained, Leave
    <3>2. MutexOwned'
      BY <1>0, <2>0, <2>2, <3>1 DEF PopDrained, MutexOwned, Leave
    <3>3. Waiting(Consumers)' \subseteq Waiting(Consumers) /\ Waiting(Producers)' = Waiting(Producers)
      BY <2>0, <2>2, <3>1, ThreadFacts DEF Waiting, PopDrained, Leave
    <3>4. (DrainedIsFinal /\ CloseWakesEveryone)'
      BY <2>0, <2>2, <3>1, <3>3, ThreadFacts DEF PopDrained, DrainedIsFinal, CloseWakesEveryone, Leave
    <3>. QED
      BY <2>0, <2>2, <3>1, <3>2, <3>4, ThreadFacts DEF PopDrained, Leave
  <2>3. CASE PopItem(c)
    <3>1. \A x \in Threads : pc'[x] = IF x = c THEN "notify" ELSE pc[x]
      BY <1>0, <2>3 DEF PopItem, Dequeue
    <3>2. MutexOwned'
      BY <1>0, <2>0, <2>3, <3>1 DEF PopItem, MutexOwned, Dequeue
    <3>3. Waiting(Consumers)' \subseteq Waiting(Consumers) /\ Waiting(Producers)' = Waiting(Producers)
      BY <2>0, <2>3, <3>1, ThreadFacts DEF Waiting, PopItem, Dequeue
    <3>4. (DrainedIsFinal /\ CloseWakesEveryone)'
      BY <2>0, <2>3, <3>1, <3>3, ThreadFacts DEF PopItem, DrainedIsFinal, CloseWakesEveryone, Dequeue
    <3>. QED
      BY <2>0, <2>3, <3>1, <3>2, <3>4, ThreadFacts DEF PopItem, Dequeue
  <2>4. CASE PopNotify(c)
    BY <2>4, NotifyKeepsControl DEF PopNotify
  <2>. QED
    BY <1>c, <2>1, <2>2, <2>3, <2>4 DEF PopStep
<1>d. ASSUME CloseStep PROVE Control'
  <2>1. CASE CloseSet
    <3>1. \A x \in Threads : pc'[x] = IF x = Closer THEN "wakePop" ELSE pc[x]
      BY <1>0, <2>1 DEF CloseSet
    <3>2. MutexOwned'
      BY <1>0, <2>1, <3>1, ThreadFacts DEF CloseSet, MutexOwned
    <3>3. (DrainedIsFinal /\ CloseWakesEveryone)'
      BY <2>1, <3>1, ThreadFacts DEF CloseSet, DrainedIsFinal, CloseWakesEveryone
    <3>. QED
      BY <2>1, <3>1, <3>2, <3>3, ThreadFacts DEF CloseSet
  <2>2. ASSUME NEW S \in {Producers, Consumers}, NEW from, NEW to, NotifyAll(S, from, to)
        PROVE  \A x \in Threads : pc'[x] = IF x = Closer THEN to
                                           ELSE IF x \in Waiting(S) THEN "woken" ELSE pc[x]
    BY <2>2 DEF NotifyAll
  <2>3. CASE CloseWakePop
    <3>0. pc[Closer] = "wakePop" /\ UNCHANGED <<mutex, queue, closed, sent>>
      BY <2>3 DEF CloseWakePop, NotifyAll
    <3>1. \A x \in Threads : pc'[x] = IF x = Closer THEN "wakePush"
                                      ELSE IF x \in Waiting(Consumers) THEN "woken" ELSE pc[x]
      BY <2>2, <2>3 DEF CloseWakePop
    <3>2. MutexOwned'
      BY <3>0, <3>1, ThreadFacts DEF Waiting, MutexOwned
    <3>3. Waiting(Consumers)' = {}
      BY <3>1, ThreadFacts DEF Waiting
    <3>4. (DrainedIsFinal /\ CloseWakesEveryone)'
      BY <3>0, <3>1, <3>3, ThreadFacts DEF DrainedIsFinal, CloseWakesEveryone
    <3>. QED
      BY <3>0, <3>1, <3>2, <3>4, ThreadFacts DEF Waiting
  <2>4. CASE CloseWakePush
    <3>0. pc[Closer] = "wakePush" /\ UNCHANGED <<mutex, queue, closed, sent>>
      BY <2>4 DEF CloseWakePush, NotifyAll
    <3>1. \A x \in Threads : pc'[x] = IF x = Closer THEN "done"
                                      ELSE IF x \in Waiting(Producers) THEN "woken" ELSE pc[x]
      BY <2>2, <2>4 DEF CloseWakePush
    <3>2. MutexOwned'
      BY <3>0, <3>1, ThreadFacts DEF Waiting, MutexOwned
    <3>3. Waiting(Producers)' = {} /\ Waiting(Consumers)' \subseteq Waiting(Consumers)
      BY <3>1, ThreadFacts DEF Waiting
    <3>4. (DrainedIsFinal /\ CloseWakesEveryone)'
      BY <3>0, <3>1, <3>3, ThreadFacts DEF DrainedIsFinal, CloseWakesEveryone
    <3>. QED
      BY <3>0, <3>1, <3>2, <3>4, ThreadFacts DEF Waiting
  <2>. QED
    BY <1>d, <2>1, <2>3, <2>4 DEF CloseStep
<1>e. ASSUME NEW t \in Producers \cup Consumers, SpuriousWake(t) PROVE Control'
  <2>1. \A x \in Threads : pc'[x] = IF x = t THEN "woken" ELSE pc[x]
    BY <1>0, <1>e DEF SpuriousWake
  <2>2. MutexOwned'
    BY <1>0, <1>e, <2>1, ThreadFacts DEF SpuriousWake, MutexOwned
  <2>3. Waiting(Consumers)' \subseteq Waiting(Consumers) /\ Waiting(Producers)' \subseteq Waiting(Producers)
    BY <2>1, ThreadFacts DEF Waiting
  <2>4. (DrainedIsFinal /\ CloseWakesEveryone)'
    BY <1>e, <2>1, <2>3, ThreadFacts DEF SpuriousWake, DrainedIsFinal, CloseWakesEveryone
  <2>. QED
    BY <1>e, <2>1, <2>2, <2>4, ThreadFacts DEF SpuriousWake
<1>f. CASE UNCHANGED vars
  BY <1>f DEF vars, MutexOwned, DrainedIsFinal, CloseWakesEveryone, Waiting
<1>. QED
  BY <1>a, <1>b, <1>c, <1>d, <1>e, <1>f DEF Next, Terminated

-----------------------------------------------------------------------------
(* The history.                                                            *)

\* The history is a sequence of items with the indices one expects.
LEMMA HistoryIsSeq ==
    ASSUME TypeOK
    PROVE  /\ History \in Seq(Item)
           /\ DOMAIN History = 1..Len(History)
           /\ \A i \in DOMAIN History : History[i] \in Item
BY ConcatProperties, LenProperties, ElementOfSeq DEF History, TypeOK

\* A push appends its item to the history; no other step changes it.
LEMMA HistoryStep ==
    ASSUME TypeOK, [Next]_vars
    PROVE  \/ History' = History /\ sent' = sent
           \/ \E p \in Producers :
                /\ History' = Append(History, <<p, sent[p] + 1>>)
                /\ sent' = [sent EXCEPT ![p] = @ + 1]
<1>1. ASSUME NEW p \in Producers, PushItem(p)
      PROVE  /\ History' = Append(History, <<p, sent[p] + 1>>)
             /\ sent' = [sent EXCEPT ![p] = @ + 1]
  <2>. DEFINE e == <<p, sent[p] + 1>>
  <2>1. e \in Item /\ queue \in Seq(Item) /\ taken \in Seq(Item)
    BY DEF TypeOK, Item
  <2>. HIDE DEF e
  <2>2. taken \o Append(queue, e) = Append(taken \o queue, e)
    <3>1. /\ <<e>> \in Seq(Item)
          /\ Append(queue, e) = queue \o <<e>>
          /\ Append(taken \o queue, e) = (taken \o queue) \o <<e>>
      BY <2>1, AppendIsConcat, ConcatProperties
    <3>. QED
      BY <2>1, <3>1, ConcatAssociative
  <2>3. queue' = Append(queue, e) /\ taken' = taken /\ sent' = [sent EXCEPT ![p] = @ + 1]
    BY <1>1 DEF PushItem, e, Enqueue
  <2>. QED
    BY <2>2, <2>3 DEF History, e
<1>2. ASSUME NEW c \in Consumers, PopItem(c) PROVE History' = History /\ sent' = sent
  <2>1. queue \in Seq(Item) /\ taken \in Seq(Item) /\ queue # <<>>
    BY <1>2 DEF TypeOK, PopItem, Dequeue
  <2>2. Append(taken, Head(queue)) \o Tail(queue) = taken \o queue
    <3>1. Head(queue) \in Item /\ Tail(queue) \in Seq(Item) /\ <<Head(queue)>> \in Seq(Item)
      BY <2>1, HeadTailProperties
    <3>2. Append(taken, Head(queue)) = taken \o <<Head(queue)>>
      BY <2>1, <3>1, AppendIsConcat
    <3>3. <<Head(queue)>> \o Tail(queue) = queue
      <4>1. /\ <<Head(queue)>> \o Tail(queue) \in Seq(Item)
            /\ Len(<<Head(queue)>> \o Tail(queue)) = Len(queue)
            /\ \A i \in 1..Len(queue) : (<<Head(queue)>> \o Tail(queue))[i] = queue[i]
        BY <2>1, <3>1, HeadTailProperties, ConcatProperties, LenProperties
      <4>. QED
        BY <2>1, <4>1, SeqEqual
    <3>. QED
      BY <2>1, <3>1, <3>2, <3>3, ConcatAssociative
  <2>. QED
    BY <1>2, <2>2 DEF PopItem, History, Dequeue
<1>3. CASE /\ ~ \E p \in Producers : PushItem(p)
           /\ ~ \E c \in Consumers : PopItem(c)
  <2>1. UNCHANGED <<queue, taken, sent>>
    BY <1>3 DEF Next, vars, Lock, PushStep, PushWait, PushRefused, PushNotify, PopStep,
                PopWait, PopDrained, PopNotify, NotifyOne, CloseStep, CloseSet, CloseWakePop,
                CloseWakePush, NotifyAll, SpuriousWake, Terminated, Leave
  <2>. QED
    BY <2>1 DEF History
<1>. QED
  BY <1>1, <1>2, <1>3

\* Every step preserves the agreement of the history with the counts.
LEMMA AcceptedStep == TypeOK /\ AcceptedExactlyOnce /\ [Next]_vars => AcceptedExactlyOnce'
<1>. SUFFICES ASSUME TypeOK, AcceptedExactlyOnce, [Next]_vars PROVE AcceptedExactlyOnce'
  OBVIOUS
<1>1. CASE History' = History /\ sent' = sent
  BY <1>1 DEF AcceptedExactlyOnce
<1>2. ASSUME NEW p \in Producers,
             History' = Append(History, <<p, sent[p] + 1>>),
             sent' = [sent EXCEPT ![p] = @ + 1]
      PROVE  AcceptedExactlyOnce'
  <2>. DEFINE n == Len(History)
  <2>1. /\ n \in Nat /\ DOMAIN History = 1..n
        /\ \A i \in 1..n : History[i][1] \in Producers /\ History[i][2] \in Nat
    BY HistoryIsSeq, LenProperties DEF Item
  <2>2. /\ DOMAIN History' = 1..(n+1)
        /\ \A i \in 1..n : History'[i] = History[i]
        /\ History'[n+1] = <<p, sent[p] + 1>>
    <3>1. <<p, sent[p] + 1>> \in Item
      BY DEF TypeOK, Item
    <3>. QED
      BY <1>2, <3>1, HistoryIsSeq, AppendProperties, LenProperties
  <2>3. \A q \in Producers : sent[q] \in Nat /\ sent'[q] = IF q = p THEN sent[q] + 1 ELSE sent[q]
    BY <1>2 DEF TypeOK
  <2>4. History'[n+1][1] = p /\ History'[n+1][2] = sent[p] + 1
    BY <2>2
  <2>. HIDE DEF n
  <2>5. \A q \in Producers : \A k \in 1..sent'[q] :
           \E i \in DOMAIN History' : History'[i] = <<q, k>>
    <3>. SUFFICES ASSUME NEW q \in Producers, NEW k \in 1..sent'[q]
                  PROVE  \E i \in 1..(n+1) : History'[i] = <<q, k>>
      BY <2>2
    <3>1. CASE k \in 1..sent[q]
      <4>1. PICK i \in DOMAIN History : History[i] = <<q, k>>
        BY <3>1 DEF AcceptedExactlyOnce
      <4>2. i \in 1..(n+1) /\ History'[i] = <<q, k>>
        BY <2>1, <2>2, <4>1
      <4>. QED
        BY <4>2
    <3>2. CASE k \notin 1..sent[q]
      BY <2>1, <2>2, <2>3, <3>2
    <3>. QED
      BY <3>1, <3>2
  <2>6. \A i \in DOMAIN History' : History'[i][2] <= sent'[History'[i][1]]
    BY <2>1, <2>2, <2>3, <2>4 DEF AcceptedExactlyOnce
  <2>7. \A i, j \in DOMAIN History' :
           i < j /\ History'[i][1] = History'[j][1] => History'[i][2] < History'[j][2]
    <3>. SUFFICES ASSUME NEW i \in 1..(n+1), NEW j \in 1..(n+1), i < j,
                         History'[i][1] = History'[j][1]
                  PROVE  History'[i][2] < History'[j][2]
      BY <2>2
    <3>1. i \in 1..n
      BY <2>1
    <3>2. CASE j = n + 1
      BY <2>1, <2>2, <2>3, <2>4, <3>1, <3>2 DEF AcceptedExactlyOnce
    <3>3. CASE j # n + 1
      BY <2>1, <2>2, <3>1, <3>3 DEF AcceptedExactlyOnce
    <3>. QED
      BY <3>2, <3>3
  <2>. QED
    BY <2>5, <2>6, <2>7 DEF AcceptedExactlyOnce
<1>. QED
  BY <1>1, <1>2, HistoryStep

-----------------------------------------------------------------------------
(* Wakeups.                                                                *)

\* What happens to the three groups of the threads of S when at most the
\* thread t of S moves.
LEMMA GroupMove ==
    ASSUME NEW S \in {Producers, Consumers}, NEW t,
           \A x \in S : x # t => pc'[x] = pc[x]
    PROVE  /\ Cardinality(Looking(S)) \in Nat /\ Cardinality(Notifying(S)) \in Nat
           /\ Cardinality(Looking(S))' \in Nat /\ Cardinality(Notifying(S))' \in Nat
           /\ t \notin S => UNCHANGED <<Cardinality(Looking(S)), Cardinality(Notifying(S)), Waiting(S)>>
           /\ t \in S =>
                /\ Cardinality(Looking(S))' =
                     IF pc'[t] \in {"held", "woken"} /\ pc[t] \notin {"held", "woken"}
                     THEN Cardinality(Looking(S)) + 1
                     ELSE IF pc'[t] \notin {"held", "woken"} /\ pc[t] \in {"held", "woken"}
                     THEN Cardinality(Looking(S)) - 1
                     ELSE Cardinality(Looking(S))
                /\ Cardinality(Notifying(S))' =
                     IF pc'[t] = "notify" /\ pc[t] # "notify" THEN Cardinality(Notifying(S)) + 1
                     ELSE IF pc'[t] # "notify" /\ pc[t] = "notify" THEN Cardinality(Notifying(S)) - 1
                     ELSE Cardinality(Notifying(S))
                /\ pc'[t] # "asleep" => Waiting(S)' \subseteq Waiting(S)
<1>. DEFINE LV == {"held", "woken"}
            NV == {"notify"}
<1>0. IsFiniteSet(S)
  BY ThreadFacts
<1>1. /\ Cardinality(Looking(S)) = Count(pc, S, LV)
      /\ Cardinality(Looking(S))' = Count(pc', S, LV)
      /\ Cardinality(Notifying(S)) = Count(pc, S, NV)
      /\ Cardinality(Notifying(S))' = Count(pc', S, NV)
  <2>1. Looking(S) = {x \in S : pc[x] \in LV} /\ Looking(S)' = {x \in S : pc'[x] \in LV}
    BY DEF Looking
  <2>2. Notifying(S) = {x \in S : pc[x] \in NV} /\ Notifying(S)' = {x \in S : pc'[x] \in NV}
    BY DEF Notifying
  <2>. QED
    BY <2>1, <2>2 DEF Count
<1>2. /\ Count(pc, S, LV) \in Nat /\ Count(pc', S, LV) \in Nat
      /\ Count(pc, S, NV) \in Nat /\ Count(pc', S, NV) \in Nat
  BY <1>0, CountIsNat
<1>3. CASE t \notin S
  <2>1. \A x \in S : pc'[x] = pc[x]
    BY <1>3
  <2>2. Looking(S)' = Looking(S) /\ Notifying(S)' = Notifying(S) /\ Waiting(S)' = Waiting(S)
    BY <2>1 DEF Looking, Notifying, Waiting
  <2>. QED
    BY <1>1, <1>2, <1>3, <2>2
<1>4. CASE t \in S
  <2>1. Count(pc', S, LV) = IF pc'[t] \in LV /\ pc[t] \notin LV THEN Count(pc, S, LV) + 1
                            ELSE IF pc'[t] \notin LV /\ pc[t] \in LV THEN Count(pc, S, LV) - 1
                            ELSE Count(pc, S, LV)
    BY <1>0, <1>4, CountMove
  <2>2. Count(pc', S, NV) = IF pc'[t] \in NV /\ pc[t] \notin NV THEN Count(pc, S, NV) + 1
                            ELSE IF pc'[t] \notin NV /\ pc[t] \in NV THEN Count(pc, S, NV) - 1
                            ELSE Count(pc, S, NV)
    BY <1>0, <1>4, CountMove
  <2>3. pc'[t] # "asleep" => Waiting(S)' \subseteq Waiting(S)
    BY DEF Waiting
  <2>. QED
    BY <1>1, <1>2, <1>4, <2>1, <2>2, <2>3
<1>. QED
  BY <1>3, <1>4

\* Sleepers of S are owed as many wakeups as n says, by threads of S that
\* are about to look or threads of R that are about to notify.
Owed(S, R, n) ==
    Waiting(S) # {} => n <= Cardinality(Notifying(R)) + Cardinality(Looking(S))

\* A notification keeps what is owed to both groups.
LEMMA NotifyKeepsOwed ==
    ASSUME TypeOK, NEW t, NEW S, NEW R, NEW n \in Nat, NEW m \in Nat,
           t \in R, <<S, R>> \in {<<Consumers, Producers>>, <<Producers, Consumers>>},
           Owed(S, R, n), Owed(R, S, m), NotifyOne(t, S)
    PROVE  /\ Waiting(S)' # {} => n <= Cardinality(Notifying(R))' + Cardinality(Looking(S))'
           /\ Waiting(R)' # {} => m <= Cardinality(Notifying(S))' + Cardinality(Looking(R))'
<1>0. /\ S \in {Producers, Consumers} /\ R \in {Producers, Consumers}
      /\ \A x \in S : x \notin R /\ x \in Threads
      /\ \A x \in R : x \notin S /\ x \in Threads
      /\ t \in Producers \cup Consumers /\ pc[t] = "notify"
  BY ThreadFacts DEF NotifyOne
<1>1. CASE Waiting(S) = {} /\ \A x \in Threads : pc'[x] = IF x = t THEN "idle" ELSE pc[x]
  <2>1. \A x \in S : pc'[x] = pc[x]
    BY <1>0, <1>1
  <2>2. Waiting(S)' = {} /\ pc'[t] = "idle"
    BY <1>0, <1>1, <2>1 DEF Waiting
  <2>3. \A x \in R : x # t => pc'[x] = pc[x]
    BY <1>0, <1>1
  <2>4. UNCHANGED <<Cardinality(Notifying(S)), Cardinality(Looking(S))>>
    BY <1>0, <2>1, GroupMove
  <2>5. UNCHANGED Cardinality(Looking(R)) /\ Waiting(R)' \subseteq Waiting(R)
    BY <1>0, <2>2, <2>3, GroupMove
  <2>. QED
    BY <2>2, <2>4, <2>5 DEF Owed
<1>2. ASSUME NEW w \in Waiting(S), w # t,
             \A x \in Threads : pc'[x] = IF x = t THEN "idle" ELSE IF x = w THEN "woken" ELSE pc[x]
      PROVE  /\ Waiting(S)' # {} => n <= Cardinality(Notifying(R))' + Cardinality(Looking(S))'
             /\ Waiting(R)' # {} => m <= Cardinality(Notifying(S))' + Cardinality(Looking(R))'
  <2>0. w \in S /\ pc[w] = "asleep" /\ pc'[w] = "woken" /\ pc'[t] = "idle"
    BY <1>0, <1>2 DEF Waiting
  <2>1. \A x \in S : x # w => pc'[x] = pc[x]
    BY <1>0, <1>2
  <2>2. \A x \in R : x # t => pc'[x] = pc[x]
    BY <1>0, <1>2, <2>0
  <2>3. /\ Cardinality(Looking(S)) \in Nat /\ Cardinality(Looking(S))' = Cardinality(Looking(S)) + 1
        /\ UNCHANGED Cardinality(Notifying(S))
    BY <1>0, <2>0, <2>1, GroupMove
  <2>4. /\ Cardinality(Notifying(R)) \in Nat
        /\ Cardinality(Notifying(R))' = Cardinality(Notifying(R)) - 1
        /\ UNCHANGED Cardinality(Looking(R)) /\ Waiting(R)' \subseteq Waiting(R)
    BY <1>0, <2>0, <2>2, GroupMove
  <2>5. Waiting(S) # {}
    OBVIOUS
  <2>. QED
    BY <2>3, <2>4, <2>5 DEF Owed
<1>. QED
  BY <1>0, <1>1, <1>2, NotifyMoves

\* Every step keeps each sleeper's wakeup on its way.
LEMMA WakeupStep ==
    TypeOK /\ Control /\ NoLostWakeup /\ [Next]_vars => NoLostWakeup'
<1>. SUFFICES ASSUME TypeOK, Control, NoLostWakeup, [Next]_vars PROVE NoLostWakeup'
  OBVIOUS
<1>. DEFINE WC == Waiting(Consumers)
            WP == Waiting(Producers)
            LC == Cardinality(Looking(Consumers))
            LP == Cardinality(Looking(Producers))
            NC == Cardinality(Notifying(Consumers))
            NP == Cardinality(Notifying(Producers))
            Goal == /\ WC' # {} => Len(queue') <= NP' + LC'
                    /\ WP' # {} /\ ~closed' => Capacity - Len(queue') <= NC' + LP'
<1>0. /\ WC # {} => Len(queue) <= NP + LC
      /\ WP # {} /\ ~closed => Capacity - Len(queue) <= NC + LP
  BY DEF NoLostWakeup
<1>z. /\ LC \in Nat /\ LP \in Nat /\ NC \in Nat /\ NP \in Nat
      /\ LC' \in Nat /\ LP' \in Nat /\ NC' \in Nat /\ NP' \in Nat
  <2>1. ASSUME NEW S \in {Producers, Consumers}, NEW V
        PROVE  Count(pc, S, V) \in Nat /\ Count(pc', S, V) \in Nat
    BY ThreadFacts, CountIsNat
  <2>2. ASSUME NEW S \in {Producers, Consumers}
        PROVE  /\ Cardinality(Looking(S)) \in Nat /\ Cardinality(Looking(S))' \in Nat
               /\ Cardinality(Notifying(S)) \in Nat /\ Cardinality(Notifying(S))' \in Nat
    <3>1. /\ Looking(S) = {x \in S : pc[x] \in {"held", "woken"}}
          /\ Looking(S)' = {x \in S : pc'[x] \in {"held", "woken"}}
          /\ Notifying(S) = {x \in S : pc[x] \in {"notify"}}
          /\ Notifying(S)' = {x \in S : pc'[x] \in {"notify"}}
      BY DEF Looking, Notifying
    <3>. QED
      BY <2>1, <3>1 DEF Count
  <2>. QED
    BY <2>2
<1>y. 0 <= NP' + LC'
  BY <1>z
<1>q. /\ queue \in Seq(Item) /\ Len(queue) \in Nat /\ Capacity \in Nat /\ Len(queue) <= Capacity
      /\ DOMAIN pc = Threads
  BY LenProperties, ThreadFacts DEF TypeOK
<1>. SUFFICES Goal
  BY DEF NoLostWakeup
<1>m. ASSUME NEW t, \A x \in Threads : x # t => pc'[x] = pc[x]
      PROVE  /\ t \notin Consumers => LC' = LC /\ NC' = NC /\ WC' = WC
             /\ t \notin Producers => LP' = LP /\ NP' = NP /\ WP' = WP
  <2>1. /\ \A x \in Producers : x # t => pc'[x] = pc[x]
        /\ \A x \in Consumers : x # t => pc'[x] = pc[x]
    BY <1>m, ThreadFacts
  <2>. QED
    BY <2>1, GroupMove
<1>c. ASSUME NEW t \in Consumers, \A x \in Threads : x # t => pc'[x] = pc[x]
      PROVE  /\ LC' = IF pc'[t] \in {"held", "woken"} /\ pc[t] \notin {"held", "woken"} THEN LC + 1
                      ELSE IF pc'[t] \notin {"held", "woken"} /\ pc[t] \in {"held", "woken"} THEN LC - 1
                      ELSE LC
             /\ NC' = IF pc'[t] = "notify" /\ pc[t] # "notify" THEN NC + 1
                      ELSE IF pc'[t] # "notify" /\ pc[t] = "notify" THEN NC - 1 ELSE NC
             /\ pc'[t] # "asleep" => WC' \subseteq WC
  <2>1. \A x \in Consumers : x # t => pc'[x] = pc[x]
    BY <1>c, ThreadFacts
  <2>. QED
    BY <2>1, GroupMove
<1>p. ASSUME NEW t \in Producers, \A x \in Threads : x # t => pc'[x] = pc[x]
      PROVE  /\ LP' = IF pc'[t] \in {"held", "woken"} /\ pc[t] \notin {"held", "woken"} THEN LP + 1
                      ELSE IF pc'[t] \notin {"held", "woken"} /\ pc[t] \in {"held", "woken"} THEN LP - 1
                      ELSE LP
             /\ NP' = IF pc'[t] = "notify" /\ pc[t] # "notify" THEN NP + 1
                      ELSE IF pc'[t] # "notify" /\ pc[t] = "notify" THEN NP - 1 ELSE NP
             /\ pc'[t] # "asleep" => WP' \subseteq WP
  <2>1. \A x \in Producers : x # t => pc'[x] = pc[x]
    BY <1>p, ThreadFacts
  <2>. QED
    BY <2>1, GroupMove
<1>. HIDE DEF WC, WP, LC, LP, NC, NP
<1>1. ASSUME NEW t \in Threads, Lock(t) PROVE Goal
  <2>1. /\ \A x \in Threads : x # t => pc'[x] = pc[x]
        /\ pc'[t] = "held" /\ pc[t] \in {"idle", "woken"} /\ UNCHANGED <<queue, closed>>
    BY <1>1, <1>q DEF Lock
  <2>2. t \in Consumers => LC' >= LC /\ NC' = NC /\ WC' \subseteq WC
    BY <1>c, <1>z, <2>1
  <2>3. t \in Producers => LP' >= LP /\ NP' = NP /\ WP' \subseteq WP
    BY <1>p, <1>z, <2>1
  <2>. QED
    BY <1>0, <1>m, <1>q, <1>z, <2>1, <2>2, <2>3
<1>2. ASSUME NEW p \in Producers, PushStep(p) PROVE Goal
  <2>0. p \notin Consumers /\ p \in Threads
    BY ThreadFacts
  <2>1. CASE PushWait(p)
    <3>1. \A x \in Threads : x # p => pc'[x] = pc[x]
      BY <1>q, <2>1 DEF PushWait, Leave
    <3>2. pc[p] = "held" /\ pc'[p] = "asleep" /\ Len(queue) >= Capacity /\ UNCHANGED <<queue, closed>>
      BY <1>q, <2>0, <2>1 DEF PushWait, Leave
    <3>3. NP' = NP
      BY <1>p, <3>1, <3>2
    <3>. QED
      BY <1>0, <1>m, <1>q, <1>z, <2>0, <3>1, <3>2, <3>3
  <2>2. CASE PushRefused(p)
    <3>1. \A x \in Threads : x # p => pc'[x] = pc[x]
      BY <1>q, <2>2 DEF PushRefused, Leave
    <3>2. pc[p] = "held" /\ pc'[p] = "refused" /\ closed /\ UNCHANGED <<queue, closed>>
      BY <1>q, <2>0, <2>2 DEF PushRefused, Leave
    <3>3. NP' = NP
      BY <1>p, <3>1, <3>2
    <3>. QED
      BY <1>0, <1>m, <1>q, <1>z, <2>0, <3>1, <3>2, <3>3
  <2>3. CASE PushItem(p)
    <3>1. \A x \in Threads : x # p => pc'[x] = pc[x]
      BY <1>q, <2>3 DEF PushItem, Enqueue
    <3>2. pc[p] = "held" /\ pc'[p] = "notify" /\ UNCHANGED closed
      BY <1>q, <2>0, <2>3 DEF PushItem, Enqueue
    <3>3. NP' = NP + 1 /\ LP' = LP - 1 /\ WP' \subseteq WP
      BY <1>p, <3>1, <3>2
    <3>4. Len(queue') = Len(queue) + 1
      <4>1. <<p, sent[p] + 1>> \in Item
        BY DEF TypeOK, Item
      <4>. QED
        BY <1>q, <2>3, <4>1, AppendProperties DEF PushItem, Enqueue
    <3>. QED
      BY <1>0, <1>m, <1>q, <1>z, <2>0, <3>1, <3>2, <3>3, <3>4
  <2>4. CASE PushNotify(p)
    <3>1. NotifyOne(p, Consumers) /\ UNCHANGED <<queue, closed>>
      BY <2>4 DEF PushNotify, NotifyOne
    <3>2. Owed(Consumers, Producers, Len(queue))
      BY <1>0 DEF Owed, WC, NP, LC
    <3>3. Owed(Producers, Consumers, IF closed THEN 0 ELSE Capacity - Len(queue))
      BY <1>0, <1>q, <1>z DEF Owed, WP, NC, LP
    <3>4. /\ WC' # {} => Len(queue) <= NP' + LC'
          /\ WP' # {} => (IF closed THEN 0 ELSE Capacity - Len(queue)) <= NC' + LP'
      BY <1>q, <3>1, <3>2, <3>3, NotifyKeepsOwed DEF WC, WP, NP, LP, NC, LC
    <3>. QED
      BY <3>1, <3>4
  <2>. QED
    BY <1>2, <2>1, <2>2, <2>3, <2>4 DEF PushStep
<1>3. ASSUME NEW c \in Consumers, PopStep(c) PROVE Goal
  <2>0. c \notin Producers /\ c \in Threads
    BY ThreadFacts
  <2>1. CASE PopWait(c)
    <3>1. \A x \in Threads : x # c => pc'[x] = pc[x]
      BY <1>q, <2>1 DEF PopWait, Leave
    <3>2. pc[c] = "held" /\ pc'[c] = "asleep" /\ UNCHANGED <<queue, closed>>
      BY <1>q, <2>0, <2>1 DEF PopWait, Leave
    <3>3. NC' = NC
      BY <1>c, <3>1, <3>2
    <3>4. LP' = LP /\ WP' = WP
      BY <1>m, <2>0, <3>1
    <3>5. Len(queue) = 0 /\ queue' = queue
      BY <2>1, EmptySeq DEF PopWait, Leave
    <3>6. Len(queue') <= NP' + LC'
      BY <1>y, <3>5
    <3>7. WP' # {} /\ ~closed' => Capacity - Len(queue') <= NC' + LP'
      BY <1>0, <3>2, <3>3, <3>4
    <3>. QED
      BY <3>6, <3>7
  <2>2. CASE PopDrained(c)
    <3>1. \A x \in Threads : x # c => pc'[x] = pc[x]
      BY <1>q, <2>2 DEF PopDrained, Leave
    <3>2. pc[c] = "held" /\ pc'[c] = "drained" /\ UNCHANGED <<queue, closed>>
      BY <1>q, <2>0, <2>2 DEF PopDrained, Leave
    <3>3. NC' = NC
      BY <1>c, <3>1, <3>2
    <3>4. LP' = LP /\ WP' = WP
      BY <1>m, <2>0, <3>1
    <3>5. Len(queue) = 0 /\ queue' = queue
      BY <2>2, EmptySeq DEF PopDrained, Leave
    <3>6. Len(queue') <= NP' + LC'
      BY <1>y, <3>5
    <3>7. WP' # {} /\ ~closed' => Capacity - Len(queue') <= NC' + LP'
      BY <1>0, <3>2, <3>3, <3>4
    <3>. QED
      BY <3>6, <3>7
  <2>3. CASE PopItem(c)
    <3>1. \A x \in Threads : x # c => pc'[x] = pc[x]
      BY <1>q, <2>3 DEF PopItem, Dequeue
    <3>2. pc[c] = "held" /\ pc'[c] = "notify" /\ UNCHANGED closed
      BY <1>q, <2>0, <2>3 DEF PopItem, Dequeue
    <3>3. NC' = NC + 1 /\ LC' = LC - 1 /\ WC' \subseteq WC
      BY <1>c, <3>1, <3>2
    <3>4. Len(queue') = Len(queue) - 1
      BY <1>q, <2>3, HeadTailProperties DEF PopItem, Dequeue
    <3>. QED
      BY <1>0, <1>m, <1>q, <1>z, <2>0, <3>1, <3>2, <3>3, <3>4
  <2>4. CASE PopNotify(c)
    <3>1. NotifyOne(c, Producers) /\ UNCHANGED <<queue, closed>>
      BY <2>4 DEF PopNotify, NotifyOne
    <3>2. Owed(Consumers, Producers, Len(queue))
      BY <1>0 DEF Owed, WC, NP, LC
    <3>3. Owed(Producers, Consumers, IF closed THEN 0 ELSE Capacity - Len(queue))
      BY <1>0, <1>q, <1>z DEF Owed, WP, NC, LP
    <3>4. /\ WC' # {} => Len(queue) <= NP' + LC'
          /\ WP' # {} => (IF closed THEN 0 ELSE Capacity - Len(queue)) <= NC' + LP'
      BY <1>q, <3>1, <3>2, <3>3, NotifyKeepsOwed DEF WC, WP, NP, LP, NC, LC
    <3>. QED
      BY <3>1, <3>4
  <2>. QED
    BY <1>3, <2>1, <2>2, <2>3, <2>4 DEF PopStep
<1>4. ASSUME CloseStep PROVE Goal
  <2>1. CASE CloseSet
    <3>1. /\ \A x \in Threads : x # Closer => pc'[x] = pc[x]
          /\ closed' /\ UNCHANGED queue
      BY <1>q, <2>1 DEF CloseSet
    <3>2. LC' = LC /\ NP' = NP /\ WC' = WC
      BY <1>m, <3>1, ThreadFacts
    <3>. QED
      BY <1>0, <3>1, <3>2
  <2>2. CASE CloseWakePop
    <3>1. /\ \A x \in Threads : pc'[x] = IF x = Closer THEN "wakePush"
                                         ELSE IF x \in Waiting(Consumers) THEN "woken" ELSE pc[x]
          /\ pc[Closer] = "wakePop" /\ UNCHANGED closed
      BY <2>2 DEF CloseWakePop, NotifyAll
    <3>2. WC' = {} /\ closed'
      BY <3>1, ThreadFacts DEF WC, Waiting, Control
    <3>. QED
      BY <3>2
  <2>3. CASE CloseWakePush
    <3>1. /\ \A x \in Threads : pc'[x] = IF x = Closer THEN "done"
                                         ELSE IF x \in Waiting(Producers) THEN "woken" ELSE pc[x]
          /\ pc[Closer] = "wakePush" /\ UNCHANGED closed
      BY <2>3 DEF CloseWakePush, NotifyAll
    <3>2. closed /\ WC = {}
      BY <3>1 DEF WC, Control, CloseWakesEveryone
    <3>3. WC' = {} /\ closed'
      BY <3>1, <3>2, ThreadFacts DEF WC, Waiting
    <3>. QED
      BY <3>3
  <2>. QED
    BY <1>4, <2>1, <2>2, <2>3 DEF CloseStep
<1>5. ASSUME NEW t \in Producers \cup Consumers, SpuriousWake(t) PROVE Goal
  <2>1. /\ \A x \in Threads : x # t => pc'[x] = pc[x]
        /\ pc'[t] = "woken" /\ pc[t] = "asleep" /\ UNCHANGED <<queue, closed>>
    BY <1>5, <1>q, ThreadFacts DEF SpuriousWake
  <2>2. t \in Consumers => LC' = LC + 1 /\ NC' = NC /\ WC' \subseteq WC
    BY <1>c, <2>1
  <2>3. t \in Producers => LP' = LP + 1 /\ NP' = NP /\ WP' \subseteq WP
    BY <1>p, <2>1
  <2>. QED
    BY <1>0, <1>m, <1>q, <1>z, <2>1, <2>2, <2>3, ThreadFacts
<1>6. CASE UNCHANGED vars
  <2>1. UNCHANGED <<queue, closed, WC, WP, LC, LP, NC, NP>>
    BY <1>6 DEF vars, WC, WP, LC, LP, NC, NP, Waiting, Looking, Notifying
  <2>. QED
    BY <1>0, <2>1
<1>. QED
  BY <1>1, <1>2, <1>3, <1>4, <1>5, <1>6 DEF Next, Terminated

-----------------------------------------------------------------------------
(* The theorems.                                                           *)

\* IndInv is what the lemmas above preserve, put together.
LEMMA IndInvParts == IndInv <=> TypeOK /\ Control /\ AcceptedExactlyOnce /\ NoLostWakeup
BY DEF IndInv, Control

\* The initial states satisfy the inductive invariant.
LEMMA InitIndInv == Init => IndInv
<1>. SUFFICES ASSUME Init PROVE IndInv
  OBVIOUS
<1>1. TypeOK
  BY InitType
<1>2. \A t \in Threads : pc[t] = "idle" /\ t # Free
  BY ThreadFacts DEF Init
<1>3. Waiting(Consumers) = {} /\ Waiting(Producers) = {}
  BY <1>2, ThreadFacts DEF Waiting
<1>4. Control
  BY <1>2, <1>3, ThreadFacts DEF Init, Control, MutexOwned, DrainedIsFinal, CloseWakesEveryone
<1>5. NoLostWakeup
  BY <1>3 DEF NoLostWakeup
<1>6. AcceptedExactlyOnce
  <2>1. History = <<>> /\ DOMAIN History = 1..0
    BY EmptySeq, LenProperties, ConcatEmptySeq DEF Init, History
  <2>2. \A p \in Producers : 1..sent[p] = {}
    BY DEF Init
  <2>. QED
    BY <2>1, <2>2 DEF AcceptedExactlyOnce
<1>. QED
  BY <1>1, <1>4, <1>5, <1>6, IndInvParts

\* The inductive invariant holds in every reachable state.
THEOREM Invariance == Spec => []IndInv
<1>. DEFINE Parts == TypeOK /\ Control /\ AcceptedExactlyOnce /\ NoLostWakeup
<1>1. IndInv <=> Parts
  BY IndInvParts
<1>2. Parts /\ [Next]_vars => Parts'
  BY TypeStep, ControlStep, AcceptedStep, WakeupStep
<1>. QED
  BY <1>1, <1>2, InitIndInv, PTL DEF Spec

\* No item is lost, duplicated or overtaken, whatever the threads' timing.
THEOREM NoItemLost == Spec => []AcceptedExactlyOnce
<1>1. IndInv => AcceptedExactlyOnce
  BY DEF IndInv
<1>. QED
  BY <1>1, Invariance, PTL

\* A pop that failed is never contradicted by a later item.
THEOREM DrainedForGood == Spec => []DrainedIsFinal
<1>1. IndInv => DrainedIsFinal
  BY DEF IndInv
<1>. QED
  BY <1>1, Invariance, PTL

\* Notifying outside the mutex loses no wakeup.
THEOREM WakeupsSuffice == Spec => []NoLostWakeup
<1>1. IndInv => NoLostWakeup
  BY DEF IndInv
<1>. QED
  BY <1>1, Invariance, PTL

\* close() strands no waiter.
THEOREM CloseStrandsNobody == Spec => []CloseWakesEveryone
<1>1. IndInv => CloseWakesEveryone
  BY DEF IndInv
<1>. QED
  BY <1>1, Invariance, PTL

-----------------------------------------------------------------------------
(* The refinement of the atomic queue.                                     *)

Refused == {p \in Producers : pc[p] = "refused"}
Drained == {c \in Consumers : pc[c] = "drained"}

\* A step after which exactly the same calls have failed, and which changes
\* nothing else, is invisible to the atomic queue.
LEMMA Invisible ==
    ASSUME UNCHANGED <<queue, closed, sent, taken>>,
           \A x \in Producers : pc'[x] = "refused" <=> pc[x] = "refused",
           \A x \in Consumers : pc'[x] = "drained" <=> pc[x] = "drained"
    PROVE  [Fifo!Next]_Fifo!vars
<1>1. Refused' = Refused /\ Drained' = Drained
  BY DEF Refused, Drained
<1>. QED
  BY <1>1 DEF Fifo!vars, Refused, Drained

\* A notification is invisible.
LEMMA NotifyInvisible ==
    ASSUME TypeOK, NEW t \in Producers \cup Consumers, NEW S \in {Producers, Consumers},
           NotifyOne(t, S)
    PROVE  [Fifo!Next]_Fifo!vars
<1>1. CASE \A x \in Threads : pc'[x] = IF x = t THEN "idle" ELSE pc[x]
  BY <1>1, Invisible, ThreadFacts DEF NotifyOne
<1>2. ASSUME NEW w \in Waiting(S),
             \A x \in Threads : pc'[x] = IF x = t THEN "idle" ELSE IF x = w THEN "woken" ELSE pc[x]
      PROVE  [Fifo!Next]_Fifo!vars
  <2>1. \A x \in Threads : \/ x = t /\ pc[x] = "notify" /\ pc'[x] = "idle"
                           \/ pc[x] = "asleep" /\ pc'[x] = "woken"
                           \/ pc'[x] = pc[x]
    BY <1>2 DEF NotifyOne, Waiting
  <2>. QED
    BY <2>1, Invisible, ThreadFacts DEF NotifyOne
<1>. QED
  BY <1>1, <1>2, NotifyMoves

\* Every step is a step of the atomic queue or leaves it alone.
LEMMA StepRefines == IndInv /\ [Next]_vars => [Fifo!Next]_Fifo!vars
<1>. SUFFICES ASSUME IndInv, [Next]_vars PROVE [Fifo!Next]_Fifo!vars
  OBVIOUS
<1>0. TypeOK /\ Control /\ DOMAIN pc = Threads
  BY IndInvParts DEF TypeOK
<1>1. ASSUME NEW t \in Threads, Lock(t) PROVE [Fifo!Next]_Fifo!vars
  <2>1. /\ \A x \in Threads : pc'[x] = IF x = t THEN "held" ELSE pc[x]
        /\ pc[t] \in {"idle", "woken"}
    BY <1>0, <1>1 DEF Lock
  <2>. QED
    BY <1>1, <2>1, Invisible, ThreadFacts DEF Lock
<1>2. ASSUME NEW p \in Producers, PushStep(p) PROVE [Fifo!Next]_Fifo!vars
  <2>0. p \in Threads /\ p \notin Consumers
    BY ThreadFacts
  <2>1. CASE PushWait(p)
    <3>1. /\ \A x \in Threads : pc'[x] = IF x = p THEN "asleep" ELSE pc[x]
          /\ pc[p] = "held"
      BY <1>0, <2>1 DEF PushWait, Leave
    <3>. QED
      BY <2>1, <3>1, Invisible, ThreadFacts DEF PushWait, Leave
  <2>2. CASE PushRefused(p)
    <3>1. \A x \in Threads : pc'[x] = IF x = p THEN "refused" ELSE pc[x]
      BY <1>0, <2>2 DEF PushRefused, Leave
    <3>2. Refused' = Refused \cup {p} /\ Drained' = Drained
      BY <2>0, <3>1, ThreadFacts DEF Refused, Drained
    <3>3. sent[p] < ItemsPerProducer /\ closed /\ UNCHANGED <<queue, closed, sent, taken>>
      BY <1>0, <2>2 DEF PushRefused, Control, Leave
    <3>. QED
      BY <3>2, <3>3 DEF Fifo!Next, Fifo!Refuse, Refused, Drained
  <2>3. CASE PushItem(p)
    <3>1. /\ \A x \in Threads : pc'[x] = IF x = p THEN "notify" ELSE pc[x]
          /\ pc[p] = "held"
      BY <1>0, <2>3 DEF PushItem, Enqueue
    <3>2. Refused' = Refused /\ Drained' = Drained
      BY <2>0, <3>1, ThreadFacts DEF Refused, Drained
    <3>3. sent[p] < ItemsPerProducer
      BY <1>0, <2>3 DEF PushItem, Control, Enqueue
    <3>. QED
      BY <2>3, <3>2, <3>3 DEF PushItem, Fifo!Next, Fifo!Push, Refused, Drained, Enqueue
  <2>4. CASE PushNotify(p)
    BY <1>0, <2>4, NotifyInvisible DEF PushNotify
  <2>. QED
    BY <1>2, <2>1, <2>2, <2>3, <2>4 DEF PushStep
<1>3. ASSUME NEW c \in Consumers, PopStep(c) PROVE [Fifo!Next]_Fifo!vars
  <2>0. c \in Threads /\ c \notin Producers
    BY ThreadFacts
  <2>1. CASE PopWait(c)
    <3>1. /\ \A x \in Threads : pc'[x] = IF x = c THEN "asleep" ELSE pc[x]
          /\ pc[c] = "held"
      BY <1>0, <2>0, <2>1 DEF PopWait, Leave
    <3>. QED
      BY <2>1, <3>1, Invisible, ThreadFacts DEF PopWait, Leave
  <2>2. CASE PopDrained(c)
    <3>1. \A x \in Threads : pc'[x] = IF x = c THEN "drained" ELSE pc[x]
      BY <1>0, <2>2 DEF PopDrained, Leave
    <3>2. Drained' = Drained \cup {c} /\ Refused' = Refused
      BY <2>0, <3>1, ThreadFacts DEF Refused, Drained
    <3>3. closed /\ queue = <<>> /\ UNCHANGED <<queue, closed, sent, taken>>
      BY <2>2 DEF PopDrained, Leave
    <3>. QED
      BY <3>2, <3>3 DEF Fifo!Next, Fifo!Drain, Refused, Drained
  <2>3. CASE PopItem(c)
    <3>1. /\ \A x \in Threads : pc'[x] = IF x = c THEN "notify" ELSE pc[x]
          /\ pc[c] = "held"
      BY <1>0, <2>3 DEF PopItem, Dequeue
    <3>2. Refused' = Refused /\ Drained' = Drained /\ c \notin Drained
      BY <2>0, <3>1, ThreadFacts DEF Refused, Drained
    <3>. QED
      BY <2>3, <3>2 DEF PopItem, Fifo!Next, Fifo!Pop, Refused, Drained, Dequeue
  <2>4. CASE PopNotify(c)
    BY <1>0, <2>4, NotifyInvisible DEF PopNotify
  <2>. QED
    BY <1>3, <2>1, <2>2, <2>3, <2>4 DEF PopStep
<1>4. ASSUME CloseStep PROVE [Fifo!Next]_Fifo!vars
  <2>1. CASE CloseSet
    <3>1. \A x \in Threads : pc'[x] = IF x = Closer THEN "wakePop" ELSE pc[x]
      BY <1>0, <2>1 DEF CloseSet
    <3>2. Refused' = Refused /\ Drained' = Drained
      BY <3>1, ThreadFacts DEF Refused, Drained
    <3>. QED
      BY <2>1, <3>2 DEF CloseSet, Fifo!Next, Fifo!Close, Refused, Drained
  <2>2. ASSUME NEW S, NEW from, NEW to, NotifyAll(S, from, to) PROVE [Fifo!Next]_Fifo!vars
    <3>1. \A x \in Threads : \/ x = Closer
                             \/ pc[x] = "asleep" /\ pc'[x] = "woken"
                             \/ pc'[x] = pc[x]
      BY <2>2 DEF NotifyAll, Waiting
    <3>. QED
      BY <2>2, <3>1, Invisible, ThreadFacts DEF NotifyAll
  <2>. QED
    BY <1>4, <2>1, <2>2 DEF CloseStep, CloseWakePop, CloseWakePush
<1>5. ASSUME NEW t \in Producers \cup Consumers, SpuriousWake(t) PROVE [Fifo!Next]_Fifo!vars
  <2>1. /\ \A x \in Threads : pc'[x] = IF x = t THEN "woken" ELSE pc[x]
        /\ pc[t] = "asleep"
    BY <1>0, <1>5 DEF SpuriousWake
  <2>. QED
    BY <1>5, <2>1, Invisible, ThreadFacts DEF SpuriousWake
<1>6. CASE UNCHANGED vars
  BY <1>6, Invisible DEF vars
<1>. QED
  BY <1>1, <1>2, <1>3, <1>4, <1>5, <1>6 DEF Next, Terminated

\* The threads implement the atomic, bounded, closable queue.
THEOREM Refinement == Spec => ImplementsFifo
<1>1. Init => Fifo!Init
  <2>. SUFFICES ASSUME Init PROVE Fifo!Init
    OBVIOUS
  <2>1. \A t \in Threads : pc[t] = "idle"
    BY DEF Init
  <2>2. Refused = {} /\ Drained = {}
    BY <2>1, ThreadFacts DEF Refused, Drained
  <2>. QED
    BY <2>2 DEF Init, Fifo!Init, Refused, Drained
<1>. QED
  BY <1>1, StepRefines, Invariance, PTL DEF Spec, ImplementsFifo, Fifo!Spec
=============================================================================
