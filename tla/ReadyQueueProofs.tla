-------------------------- MODULE ReadyQueueProofs ---------------------------
(* The ring arrays behind the ready queues, for every set of threads and      *)
(* every MAX_READY_QUEUE.                                                     *)
EXTENDS ReadyQueue, DataProofs

-----------------------------------------------------------------------------
(* A ring and the queue in it *)

Rings == [queue : [Slots -> Threads], head : Slots, count : 0..MaxReadyQueue]

ContentOf(r) == [i \in 1..r.count |-> r.queue[Slot(r, i - 1)]]

LEMMA SlotAt ==
    ASSUME NEW r \in Rings, NEW k \in 0..MaxReadyQueue
    PROVE  /\ Slot(r, k) \in Slots /\ Slot(r, 0) = r.head
           /\ k > 0 => Slot(r, k) = (Slot(r, 1) + (k - 1)) % MaxReadyQueue
           /\ k < MaxReadyQueue => (Slot(r, k) + 1) % MaxReadyQueue = Slot(r, k + 1)
<1>1. /\ MaxReadyQueue \in Nat \ {0} /\ r.head \in 0..(MaxReadyQueue - 1)
      /\ 0 \in 0..MaxReadyQueue
  BY ReadyQueueAssumption DEF Rings, Slots
<1>2. /\ Slot(r, k) \in Slots
      /\ Slot(r, 0) = IF r.head + 0 < MaxReadyQueue THEN r.head + 0
                      ELSE r.head + 0 - MaxReadyQueue
  BY <1>1, RingAt DEF Slot, Slots
<1>3. /\ k > 0 => Slot(r, k) = (Slot(r, 1) + (k - 1)) % MaxReadyQueue
      /\ k < MaxReadyQueue => (Slot(r, k) + 1) % MaxReadyQueue = Slot(r, k + 1)
  BY <1>1, RingMoves DEF Slot
<1> QED
  BY <1>1, <1>2, <1>3

LEMMA SlotInjective ==
    ASSUME NEW r \in Rings, NEW i \in 0..(MaxReadyQueue - 1), NEW j \in 0..(MaxReadyQueue - 1)
    PROVE  /\ Slot(r, i) = Slot(r, j) => i = j
           /\ Place(r, Slot(r, i)) = i
<1>1. MaxReadyQueue \in Nat \ {0} /\ r.head \in 0..(MaxReadyQueue - 1)
  BY ReadyQueueAssumption DEF Rings, Slots
<1>2. Slot(r, i) = Slot(r, j) => i = j
  BY <1>1, RingInjective DEF Slot
<1>3. Place(r, Slot(r, i)) = i
  BY <1>1, RingPlace DEF Slot, Place
<1> QED
  BY <1>2, <1>3

LEMMA ContentType ==
    ASSUME NEW r \in Rings
    PROVE  /\ ContentOf(r) \in Seq(Threads) /\ Len(ContentOf(r)) = r.count
           /\ \A i \in 1..r.count : ContentOf(r)[i] = r.queue[Slot(r, i - 1)]
<1>1. r.count \in 0..MaxReadyQueue /\ MaxReadyQueue \in Nat \ {0} /\ r.queue \in [Slots -> Threads]
  BY ReadyQueueAssumption DEF Rings
<1>2. ASSUME NEW i \in 1..r.count
      PROVE  r.queue[Slot(r, i - 1)] \in Threads
  <2>1. i - 1 \in 0..MaxReadyQueue
    BY <1>1
  <2>2. Slot(r, i - 1) \in Slots
    BY <2>1, SlotAt
  <2> QED
    BY <1>1, <2>2
<1> QED
  BY <1>1, <1>2 DEF ContentOf

\* The search stops at the first place where the thread stands.
LEMMA FindInQueue ==
    ASSUME NEW r \in Rings, NEW t
    PROVE  /\ find_in_queue(r, t) = None <=> ~ Contains(ContentOf(r), t)
           /\ find_in_queue(r, t) # None =>
                 \E k \in 0..(r.count - 1) :
                     find_in_queue(r, t) = Slot(r, k) /\ r.queue[Slot(r, k)] = t
<1> DEFINE found == {i \in 0..(r.count - 1) : r.queue[Slot(r, i)] = t}
<1>1. r.count \in 0..MaxReadyQueue /\ MaxReadyQueue \in Nat \ {0}
  BY ReadyQueueAssumption DEF Rings
<1>2. found = {} <=> ~ Contains(ContentOf(r), t)
  <2>1. ASSUME NEW i \in found
        PROVE  Contains(ContentOf(r), t)
    <3>1. i + 1 \in 1..r.count /\ (i + 1) - 1 = i
      BY <1>1
    <3>2. ContentOf(r)[i + 1] = t
      BY <3>1, ContentType
    <3> QED
      BY <1>1, <3>1, <3>2, ContentType DEF Contains
  <2>2. ASSUME Contains(ContentOf(r), t)
        PROVE  found # {}
    <3>1. PICK i \in 1..r.count : ContentOf(r)[i] = t
      BY <2>2, ContentType DEF Contains
    <3>2. i - 1 \in found
      BY <1>1, <3>1, ContentType
    <3> QED
      BY <3>2
  <2> QED
    BY <2>1, <2>2
<1>3. ASSUME found # {}
      PROVE  Min(found) \in found
  <2>1. found \in SUBSET Nat
    BY <1>1
  <2> HIDE DEF found
  <2>2. \E n \in found : \A m \in found : n <= m
    BY <1>3, <2>1, LeastNatural
  <2> QED
    BY <2>2 DEF Min
<1>4. find_in_queue(r, t) = IF found = {} THEN None ELSE Slot(r, Min(found))
  BY DEF find_in_queue
<1>5. ASSUME found # {}
      PROVE  /\ Slot(r, Min(found)) \in Slots
             /\ \E k \in 0..(r.count - 1) :
                    Slot(r, Min(found)) = Slot(r, k) /\ r.queue[Slot(r, k)] = t
  <2>1. PICK k \in 0..(r.count - 1) : k = Min(found) /\ r.queue[Slot(r, k)] = t
    BY <1>3, <1>5
  <2>2. k \in 0..MaxReadyQueue
    BY <1>1, <2>1
  <2> QED
    BY <2>1, <2>2, SlotAt
<1>6. None \notin Slots
  BY <1>1 DEF None, Slots
<1> HIDE DEF found
<1> QED
  BY <1>2, <1>4, <1>5, <1>6

-----------------------------------------------------------------------------
(* The operations *)

\* queue_push behind a queue that has room.
Pushed(r, t) == [r EXCEPT !.queue[Slot(r, r.count)] = t, !.count = @ + 1]

LEMMA PushContent ==
    ASSUME NEW r \in Rings, NEW t \in Threads, r.count < MaxReadyQueue
    PROVE  /\ Pushed(r, t) \in Rings
           /\ ContentOf(Pushed(r, t)) = Append(ContentOf(r), t)
<1> DEFINE p == Pushed(r, t)
<1>1. /\ r.count \in 0..(MaxReadyQueue - 1) /\ MaxReadyQueue \in Nat \ {0}
      /\ r.queue \in [Slots -> Threads] /\ r.head \in Slots
  BY ReadyQueueAssumption DEF Rings
<1>2. Slot(r, r.count) \in Slots
  BY <1>1, SlotAt
<1>3. /\ p \in Rings /\ p.count = r.count + 1 /\ p.head = r.head
      /\ p.queue = [r.queue EXCEPT ![Slot(r, r.count)] = t]
  <2>1. r.count + 1 \in 0..MaxReadyQueue
    BY <1>1
  <2>2. [r.queue EXCEPT ![Slot(r, r.count)] = t] \in [Slots -> Threads]
    BY <1>1, <1>2
  <2> QED
    BY <1>1, <2>1, <2>2 DEF Pushed, Rings
<1> HIDE DEF p
<1>4. \A i : Slot(p, i) = Slot(r, i)
  BY <1>3 DEF Slot
<1>5. ASSUME NEW i \in 1..(r.count + 1)
      PROVE  ContentOf(p)[i] = Append(ContentOf(r), t)[i]
  <2>1. i - 1 \in 0..(MaxReadyQueue - 1) /\ Slot(r, i - 1) \in Slots
    BY <1>1, SlotAt
  <2>2. ContentOf(p)[i] = p.queue[Slot(r, i - 1)]
    BY <1>3, <1>4, ContentType
  <2>3. CASE i = r.count + 1
    <3>1. i - 1 = r.count
      BY <1>1, <2>3
    <3>2. ContentOf(p)[i] = t
      BY <1>1, <1>2, <1>3, <2>2, <3>1
    <3> QED
      BY <2>3, <3>2, ContentType
  <2>4. CASE i \in 1..r.count
    <3>1. Slot(r, i - 1) # Slot(r, r.count)
      BY <1>1, <2>1, <2>4, SlotInjective
    <3>2. ContentOf(p)[i] = r.queue[Slot(r, i - 1)]
      BY <1>1, <1>3, <2>1, <2>2, <3>1
    <3> QED
      BY <2>4, <3>2, ContentType
  <2>5. i \in 1..r.count \/ i = r.count + 1
    BY <1>1
  <2> QED
    BY <2>3, <2>4, <2>5, Zenon
<1>6. /\ ContentOf(p) \in Seq(Threads) /\ Len(ContentOf(p)) = r.count + 1
      /\ Append(ContentOf(r), t) \in Seq(Threads) /\ Len(Append(ContentOf(r), t)) = r.count + 1
  BY <1>3, ContentType
<1>7. ContentOf(p) = Append(ContentOf(r), t)
  BY <1>5, <1>6, SeqEqual
<1> QED
  BY <1>3, <1>7 DEF p

\* A head that moves on.
Popped(r) == [r EXCEPT !.head = Slot(r, 1), !.count = @ - 1]

LEMMA PopContent ==
    ASSUME NEW r \in Rings, r.count > 0
    PROVE  /\ Popped(r) \in Rings
           /\ Head(ContentOf(r)) = r.queue[r.head]
           /\ ContentOf(Popped(r)) = [j \in 1..(r.count - 1) |-> ContentOf(r)[j + 1]]
<1> DEFINE p == Popped(r)
<1>1. /\ r.count \in 1..MaxReadyQueue /\ MaxReadyQueue \in Nat \ {0}
      /\ r.queue \in [Slots -> Threads] /\ r.head \in Slots
  BY ReadyQueueAssumption DEF Rings
<1>2. Slot(r, 1) \in Slots
  BY <1>1, SlotAt
<1>3. /\ p \in Rings /\ p.count = r.count - 1 /\ p.head = Slot(r, 1) /\ p.queue = r.queue
  <2>1. r.count - 1 \in 0..MaxReadyQueue
    BY <1>1
  <2> QED
    BY <1>1, <1>2, <2>1 DEF Popped, Rings
<1> HIDE DEF p
<1>4. ASSUME NEW j \in 1..(r.count - 1)
      PROVE  p.queue[Slot(p, j - 1)] = ContentOf(r)[j + 1]
  <2>1. j \in 0..MaxReadyQueue /\ j > 0 /\ j + 1 \in 1..r.count /\ (j + 1) - 1 = j
    BY <1>1
  <2>2. Slot(p, j - 1) = Slot(r, j)
    BY <1>3, <2>1, SlotAt DEF Slot
  <2> QED
    BY <1>3, <2>1, <2>2, ContentType
<1>5. ContentOf(p) = [j \in 1..(r.count - 1) |-> ContentOf(r)[j + 1]]
  BY <1>3, <1>4 DEF ContentOf
<1>6. Head(ContentOf(r)) = r.queue[r.head]
  <2>1. 1 \in 1..r.count /\ 1 - 1 = 0 /\ 0 \in 0..MaxReadyQueue
    BY <1>1
  <2>2. ContentOf(r)[1] = r.queue[r.head]
    BY <2>1, SlotAt, ContentType
  <2> QED
    BY <1>1, <2>2, ContentType
<1> QED
  BY <1>3, <1>5, <1>6 DEF p

\* queue_remove_at closes the gap, wherever it is and wherever the array ends.
LEMMA RemoveContent ==
    ASSUME NEW r \in Rings, NEW k \in 0..(r.count - 1)
    PROVE  /\ queue_remove_at(r, Slot(r, k)) \in Rings
           /\ ContentOf(queue_remove_at(r, Slot(r, k))) = RemoveAt(ContentOf(r), k + 1)
<1> DEFINE p == queue_remove_at(r, Slot(r, k))
<1>1. /\ r.count \in 1..MaxReadyQueue /\ MaxReadyQueue \in Nat \ {0} /\ k \in Nat
      /\ r.queue \in [Slots -> Threads] /\ r.head \in Slots /\ r.count > 0
      /\ k \in 0..(MaxReadyQueue - 1) /\ 0 \in 0..(MaxReadyQueue - 1)
  BY ReadyQueueAssumption DEF Rings
<1>2. RemoveAt(ContentOf(r), k + 1) =
         [j \in 1..(r.count - 1) |-> IF j < k + 1 THEN ContentOf(r)[j] ELSE ContentOf(r)[j + 1]]
  <2>1. k + 1 \in 1..Len(ContentOf(r)) /\ Len(ContentOf(r)) = r.count /\ ContentOf(r) \in Seq(Threads)
    BY <1>1, ContentType
  <2> QED
    BY <2>1, RemoveAtElements
<1>3. Slot(r, k) = r.head <=> k = 0
  <2>1. Slot(r, 0) = r.head
    BY <1>1, SlotAt
  <2> QED
    BY <1>1, <2>1, SlotInjective
<1>4. CASE k = 0
  <2>1. p = Popped(r)
    BY <1>1, <1>3, <1>4 DEF queue_remove_at, Popped
  <2>2. \A j \in 1..(r.count - 1) : ~ (j < k + 1)
    BY <1>1, <1>4
  <2>3. RemoveAt(ContentOf(r), k + 1) = [j \in 1..(r.count - 1) |-> ContentOf(r)[j + 1]]
    BY <1>2, <2>2
  <2> QED
    BY <1>1, <2>1, <2>3, PopContent
<1>5. CASE k > 0
  <2> DEFINE shifted == [s \in Slots |->
                            IF Place(r, s) \in Place(r, Slot(r, k))..(r.count - 2)
                            THEN r.queue[(s + 1) % MaxReadyQueue] ELSE r.queue[s]]
  <2>1. p = [r EXCEPT !.queue = shifted, !.count = @ - 1]
    BY <1>1, <1>3, <1>5 DEF queue_remove_at
  <2>2. ASSUME NEW s \in Slots
        PROVE  shifted[s] \in Threads
    <3>1. (s + 1) % MaxReadyQueue \in Slots
      <4>1. 1 \in 0..MaxReadyQueue
        BY <1>1
      <4> QED
        BY <1>1, <4>1, RingAt DEF Slots
    <3> QED
      BY <1>1, <3>1
  <2>3. ASSUME NEW i \in 0..(r.count - 2)
        PROVE  shifted[Slot(r, i)] = IF i < k THEN r.queue[Slot(r, i)] ELSE r.queue[Slot(r, i + 1)]
    <3>1. i \in 0..(MaxReadyQueue - 1) /\ i \in 0..MaxReadyQueue /\ i < MaxReadyQueue /\ i \in 0..(r.count - 2)
      BY <1>1
    <3>2. Place(r, Slot(r, i)) = i /\ Place(r, Slot(r, k)) = k
      BY <1>1, <3>1, SlotInjective
    <3>3. Slot(r, i) \in Slots /\ (Slot(r, i) + 1) % MaxReadyQueue = Slot(r, i + 1)
      BY <3>1, SlotAt
    <3>4. i \in k..(r.count - 2) <=> ~ (i < k)
      BY <1>1, <3>1
    <3> QED
      BY <3>2, <3>3, <3>4
  <2> HIDE DEF shifted
  <2>4. shifted \in [Slots -> Threads]
    <3>1. shifted = [s \in Slots |-> shifted[s]]
      BY DEF shifted
    <3> QED
      BY <2>2, <3>1
  <2> HIDE DEF p
  <2>5. p \in Rings /\ p.count = r.count - 1 /\ p.head = r.head /\ p.queue = shifted
    <3>1. r.count - 1 \in 0..MaxReadyQueue
      BY <1>1
    <3> QED
      BY <1>1, <2>1, <2>4, <3>1 DEF Rings
  <2>6. ASSUME NEW j \in 1..(r.count - 1)
        PROVE  p.queue[Slot(p, j - 1)] =
                  IF j < k + 1 THEN ContentOf(r)[j] ELSE ContentOf(r)[j + 1]
    <3>1. /\ j - 1 \in 0..(r.count - 2) /\ j \in 1..r.count /\ j + 1 \in 1..r.count
          /\ (j + 1) - 1 = j /\ (j - 1) + 1 = j /\ (j - 1 < k <=> j < k + 1)
      BY <1>1
    <3>2. p.queue[Slot(p, j - 1)] = shifted[Slot(r, j - 1)]
      BY <2>5 DEF Slot
    <3>3. PICK i \in 0..(r.count - 2) : i = j - 1
      BY <3>1
    <3>4. shifted[Slot(r, j - 1)] =
             IF j - 1 < k THEN r.queue[Slot(r, j - 1)] ELSE r.queue[Slot(r, j)]
      BY <2>3, <3>1, <3>3
    <3>5. ContentOf(r)[j] = r.queue[Slot(r, j - 1)] /\ ContentOf(r)[j + 1] = r.queue[Slot(r, j)]
      BY <3>1, ContentType
    <3> QED
      BY <3>1, <3>2, <3>4, <3>5
  <2>7. ContentOf(p) = RemoveAt(ContentOf(r), k + 1)
    BY <1>2, <2>5, <2>6 DEF ContentOf
  <2> QED
    BY <2>5, <2>7 DEF p
<1> QED
  BY <1>1, <1>4, <1>5

-----------------------------------------------------------------------------
(* The invariant and the refinement *)

\* The indices stay in the array and nobody stands in the ring twice.
IInv == q \in Rings /\ NoRepetition(ContentOf(q))

LEMMA PushSteps ==
    ASSUME IInv, NEW t \in Threads, Push(t)
    PROVE  IInv' /\ (TheQueue!Nothing \/ TheQueue!Push(t))
<1>1. /\ Content = ContentOf(q) /\ Content' = ContentOf(q') /\ popped' = << >>
      /\ q' = queue_push(q, t) /\ q \in Rings
      /\ ContentOf(q) \in Seq(Threads) /\ Len(ContentOf(q)) = q.count
      /\ q.count \in 0..MaxReadyQueue /\ MaxReadyQueue \in Nat
  BY ContentType, ReadyQueueAssumption DEF IInv, Push, Content, ContentOf, Rings
<1>2. CASE q.count >= MaxReadyQueue \/ find_in_queue(q, t) # None
  <2>1. q' = q
    BY <1>1, <1>2 DEF queue_push
  <2> QED
    BY <1>1, <2>1 DEF IInv, TheQueue!Nothing
<1>3. CASE q.count < MaxReadyQueue /\ find_in_queue(q, t) = None
  <2>1. q' = Pushed(q, t) /\ ~ Contains(ContentOf(q), t)
    BY <1>1, <1>3, FindInQueue DEF queue_push, Pushed
  <2>2. q' \in Rings /\ ContentOf(q') = Append(ContentOf(q), t)
    BY <1>1, <1>3, <2>1, PushContent
  <2>3. IsInjective(Append(ContentOf(q), t)) /\ Append(ContentOf(q), t) \in Seq(Threads)
    BY <1>1, <2>1, QueueAppend, InjectiveQueue DEF IInv
  <2>4. NoRepetition(ContentOf(q'))
    BY <2>2, <2>3, InjectiveQueue
  <2> QED
    BY <1>1, <1>3, <2>1, <2>2, <2>4 DEF IInv, TheQueue!Push, TheQueue!Contains, Contains
<1> QED
  BY <1>1, <1>2, <1>3

LEMMA PopSteps ==
    ASSUME IInv, Pop
    PROVE  IInv' /\ (TheQueue!Nothing \/ TheQueue!Pop)
<1>1. /\ Content = ContentOf(q) /\ Content' = ContentOf(q')
      /\ popped' = IF q.count > 0 THEN <<q.queue[q.head]>> ELSE << >>
      /\ q' = queue_pop(q) /\ q \in Rings
      /\ ContentOf(q) \in Seq(Threads) /\ Len(ContentOf(q)) = q.count
      /\ q.count \in 0..MaxReadyQueue /\ MaxReadyQueue \in Nat
  BY ContentType, ReadyQueueAssumption DEF IInv, Pop, Content, ContentOf, Rings
<1>2. CASE q.count <= 0
  <2>1. q' = q /\ popped' = << >>
    BY <1>1, <1>2 DEF queue_pop
  <2> QED
    BY <1>1, <2>1 DEF IInv, TheQueue!Nothing
<1>3. CASE q.count > 0
  <2>1. q' = Popped(q)
    BY <1>1, <1>3 DEF queue_pop, Popped
  <2>2. /\ q' \in Rings /\ popped' = <<Head(ContentOf(q))>> /\ ContentOf(q) # << >>
        /\ ContentOf(q') = [j \in 1..(q.count - 1) |-> ContentOf(q)[j + 1]]
    BY <1>1, <1>3, <2>1, PopContent
  <2>3. ContentOf(q') = Tail(ContentOf(q))
    <3>1. PICK c \in Seq(Threads) : c = ContentOf(q)
      BY <1>1
    <3>2. Tail(c) = [j \in 1..(Len(c) - 1) |-> c[j + 1]]
      <4> DEFINE rest == [j \in 1..(Len(c) - 1) |-> c[j + 1]]
      <4>1. /\ Len(c) \in Nat /\ Len(c) > 0 /\ Tail(c) \in Seq(Threads)
            /\ Len(Tail(c)) = Len(c) - 1 /\ \A j \in 1..(Len(c) - 1) : Tail(c)[j] = c[j + 1]
        BY <1>1, <1>3, <3>1
      <4>2. rest \in Seq(Threads) /\ Len(rest) = Len(c) - 1
        BY <4>1
      <4> QED
        BY <4>1, <4>2, SeqEqual
    <3> QED
      BY <1>1, <2>2, <3>1, <3>2
  <2>4. NoRepetition(ContentOf(q'))
    BY <1>1, <2>2, <2>3, QueueTail, InjectiveQueue DEF IInv
  <2> QED
    BY <1>1, <2>2, <2>3, <2>4 DEF IInv, TheQueue!Pop
<1> QED
  BY <1>1, <1>2, <1>3

LEMMA TakeOutSteps ==
    ASSUME IInv, NEW t \in Threads, TakeOut(t)
    PROVE  IInv' /\ TheQueue!Take(t)
<1>1. /\ Content = ContentOf(q) /\ Content' = ContentOf(q') /\ popped' = <<t>>
      /\ find_in_queue(q, t) # None
      /\ q' = queue_remove_at(q, find_in_queue(q, t)) /\ q \in Rings
      /\ ContentOf(q) \in Seq(Threads) /\ Len(ContentOf(q)) = q.count
      /\ q.count \in 0..MaxReadyQueue /\ MaxReadyQueue \in Nat
  BY ContentType, ReadyQueueAssumption DEF IInv, TakeOut, Content, ContentOf, Rings
<1>2. PICK k \in 0..(q.count - 1) :
          find_in_queue(q, t) = Slot(q, k) /\ q.queue[Slot(q, k)] = t
  BY <1>1, FindInQueue
<1>3. q' \in Rings /\ ContentOf(q') = RemoveAt(ContentOf(q), k + 1)
  BY <1>1, <1>2, RemoveContent
<1>4. k + 1 \in 1..Len(ContentOf(q)) /\ ContentOf(q)[k + 1] = t
  <2>1. k + 1 \in 1..q.count /\ (k + 1) - 1 = k
    BY <1>1
  <2> QED
    BY <1>1, <1>2, <2>1, ContentType
<1>5. NoRepetition(ContentOf(q'))
  BY <1>1, <1>3, <1>4, RemoveAtElements DEF IInv
<1>6. Content' = TheQueue!RemoveAt(Content, k + 1)
  BY <1>1, <1>3 DEF TheQueue!RemoveAt, RemoveAt
<1> QED
  BY <1>1, <1>3, <1>4, <1>5, <1>6 DEF IInv, TheQueue!Take

\* Every reachable state satisfies the invariant.
THEOREM Invariance == Spec => []IInv
<1>1. Init => IInv
  <2> SUFFICES ASSUME Init PROVE IInv
    OBVIOUS
  <2>1. PICK t \in Threads : q = [queue |-> [s \in Slots |-> t], head |-> 0, count |-> 0]
    BY DEF Init
  <2>2. 0 \in Slots /\ 0 \in 0..MaxReadyQueue
    BY ReadyQueueAssumption DEF Slots
  <2>3. q \in Rings /\ q.count = 0
    BY <2>1, <2>2 DEF Rings
  <2>4. Len(ContentOf(q)) = 0
    BY <2>3, ContentType
  <2> QED
    BY <2>3, <2>4 DEF IInv, NoRepetition
<1>2. IInv /\ [Next]_vars => IInv'
  <2>1. CASE UNCHANGED vars
    BY <2>1 DEF vars, IInv
  <2> QED
    BY <2>1, PushSteps, PopSteps, TakeOutSteps DEF Next
<1> QED
  BY <1>1, <1>2, PTL DEF Spec

\* The ring is the queue without repetitions that the scheduler works with: no
\* thread is lost, doubled or overtaken when the ring is full, when it wraps and
\* when a thread is taken out of its middle.
THEOREM RingImplementsQueue == Spec => ImplementsQueue /\ []NoRepetition(Content)
<1>1. Init => TheQueue!Init
  <2> SUFFICES ASSUME Init PROVE TheQueue!Init
    OBVIOUS
  <2>1. q.count = 0 /\ popped = << >>
    BY DEF Init
  <2>2. Content = << >>
    BY <2>1 DEF Content
  <2> QED
    BY <2>1, <2>2 DEF TheQueue!Init
<1>2. IInv /\ [Next]_vars => [TheQueue!Next]_(TheQueue!vars)
  <2>1. CASE UNCHANGED vars
    BY <2>1 DEF vars, TheQueue!vars, Content, Slot
  <2> QED
    BY <2>1, PushSteps, PopSteps, TakeOutSteps DEF Next, TheQueue!Next
<1>3. IInv => NoRepetition(Content)
  BY DEF IInv, Content, ContentOf
<1> QED
  BY <1>1, <1>2, <1>3, Invariance, PTL DEF Spec, ImplementsQueue, TheQueue!Spec
=============================================================================
