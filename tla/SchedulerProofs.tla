--------------------------- MODULE SchedulerProofs ---------------------------
(* What holds of the scheduler for every set of threads, every priority and   *)
(* every quantum.                                                             *)
EXTENDS Scheduler, FiniteSetTheorems, FunctionTheorems,
        SequenceTheorems, TLAPS

-----------------------------------------------------------------------------
(* The operators keep the type of the record *)

LEMMA LevelOfType ==
    ASSUME NEW s \in Sched, NEW t \in Threads
    PROVE  LevelOf(s, t) \in Levels
BY SchedulerAssumption DEF LevelOf, get_mlfq_level, Sched, Levels, Priorities

\* A queue refuses a thread for want of room only if it holds one already.
LEMMA NonFullQueue == Threads # {} => MaxReadyQueue > 0
<1> SUFFICES ASSUME Threads # {} PROVE MaxReadyQueue > 0
  OBVIOUS
<1>1. Cardinality(Threads) \in Nat /\ Cardinality(Threads) # 0
  BY SchedulerAssumption, FS_CardinalityType, FS_EmptySet
<1> QED
  BY <1>1, SchedulerAssumption

LEMMA QueuePushType ==
    ASSUME NEW q \in Seq(Threads), NEW t \in Threads
    PROVE  queue_push(q, t) \in Seq(Threads)
BY DEF queue_push

LEMMA AddType ==
    ASSUME NEW s \in Sched, NEW t \in Threads
    PROVE  scheduler_add(s, t) \in Sched
<1> DEFINE l == IF s.mode = "RR" THEN 0 ELSE LevelOf(s, t)
<1>1. l \in Levels
  BY LevelOfType DEF Levels
<1>2. queue_push(s.queue[l], t) \in Seq(Threads)
  BY <1>1, QueuePushType DEF Sched
<1>3. l \in -1..2
  BY <1>1 DEF Levels
<1> QED
  BY <1>1, <1>2, <1>3 DEF scheduler_add, Sched, ThreadStates

LEMMA RequeueType ==
    ASSUME NEW s \in Sched
    PROVE  Requeue(s) \in Sched
<1> DEFINE t == s.current
           l == IF s.mode = "RR" THEN 0 ELSE LevelOf(s, t)
<1>1. CASE s.current = NoThread \/ s.state[t] # "RUNNING"
  BY <1>1 DEF Requeue
<1>2. CASE s.current # NoThread /\ s.state[t] = "RUNNING"
  <2>1. t \in Threads
    BY <1>2 DEF Sched
  <2>2. l \in Levels /\ l \in -1..2
    BY <2>1, LevelOfType DEF Levels
  <2>3. queue_push(s.queue[l], t) \in Seq(Threads) /\ Append(s.queue[l], t) \in Seq(Threads)
    BY <2>1, <2>2, QueuePushType DEF Sched
  <2> QED
    BY <1>2, <2>1, <2>2, <2>3 DEF Requeue, thread_yield, Sched, ThreadStates
<1> QED
  BY <1>1, <1>2

LEMMA ChosenType ==
    ASSUME NEW s \in Sched, HasReady(s)
    PROVE  /\ Chosen(s) \in Levels
           /\ s.queue[Chosen(s)] # << >>
           /\ \A m \in Levels : m < Chosen(s) => s.queue[m] = << >>
<1>1. \E l \in Levels : /\ s.queue[l] # << >>
                        /\ \A m \in Levels : m < l => s.queue[m] = << >>
  <2>1. CASE s.queue[0] # << >>
    BY <2>1 DEF Levels
  <2>2. CASE s.queue[0] = << >> /\ s.queue[1] # << >>
    BY <2>2 DEF Levels
  <2>3. CASE s.queue[0] = << >> /\ s.queue[1] = << >>
    BY <2>3 DEF HasReady, Levels
  <2> QED
    BY <2>1, <2>2, <2>3
<1> QED
  BY <1>1 DEF Chosen

LEMMA TakeType ==
    ASSUME NEW s \in Sched, NEW l \in Levels, s.queue[l] # << >>
    PROVE  Take(s, l) \in Sched
<1>1. s.queue[l] \in Seq(Threads)
  BY DEF Sched
<1>2. Head(s.queue[l]) \in Threads /\ Tail(s.queue[l]) \in Seq(Threads)
  BY <1>1
<1>3. Quantum(s, l) \in Nat
  BY SchedulerAssumption DEF Quantum
<1> QED
  BY <1>2, <1>3 DEF Take, Sched, ThreadStates

LEMMA NextType ==
    ASSUME NEW s \in Sched
    PROVE  scheduler_next(s) \in Sched
<1>1. CASE ~ HasReady(s)
  BY <1>1 DEF scheduler_next
<1>2. CASE HasReady(s)
  <2>1. Requeue(s) \in Sched
    BY RequeueType
  <2>2. HasReady(Requeue(s))
    <3> DEFINE t == s.current
               l == IF s.mode = "RR" THEN 0 ELSE LevelOf(s, t)
    <3>1. CASE s.current = NoThread \/ s.state[t] # "RUNNING"
      BY <1>2, <3>1 DEF Requeue
    <3>2. CASE s.current # NoThread /\ s.state[t] = "RUNNING"
      <4>1. t \in Threads
        BY <3>2 DEF Sched
      <4>2. l \in Levels
        BY <4>1, LevelOfType DEF Levels
      <4>3. s.queue[l] \in Seq(Threads)
        BY <4>2 DEF Sched
      <4>4. Append(s.queue[l], t) # << >>
        BY <4>1, <4>3
      <4>5. queue_push(s.queue[l], t) # << >>
        <5>1. CASE s.queue[l] = << >>
          <6>1. MaxReadyQueue > 0
            BY <4>1, NonFullQueue
          <6>2. Len(s.queue[l]) = 0 /\ ~ Contains(s.queue[l], t)
            BY <5>1 DEF Contains
          <6> QED
            BY <4>4, <6>1, <6>2, SchedulerAssumption DEF queue_push
        <5>2. CASE s.queue[l] # << >>
          BY <4>4, <5>2 DEF queue_push
        <5> QED
          BY <5>1, <5>2
      <4>6. Requeue(s).queue[l] # << >>
        BY <3>2, <4>1, <4>2, <4>4, <4>5 DEF Requeue, thread_yield, Sched
      <4> QED
        BY <4>2, <4>6 DEF HasReady
    <3> QED
      BY <3>1, <3>2
  <2> QED
    BY <1>2, <2>1, <2>2, ChosenType, TakeType DEF scheduler_next
<1> QED
  BY <1>1, <1>2

LEMMA RemoveAtType ==
    ASSUME NEW q \in Seq(Threads), NEW i \in 1..Len(q)
    PROVE  RemoveAt(q, i) \in Seq(Threads)
<1>1. SubSeq(q, 1, i - 1) \in Seq(Threads)
  BY SubSeqProperties
<1>2. SubSeq(q, i + 1, Len(q)) \in Seq(Threads)
  BY SubSeqProperties
<1> QED
  BY <1>1, <1>2 DEF RemoveAt

LEMMA RemoveType ==
    ASSUME NEW s \in Sched, NEW t \in Threads
    PROVE  RemoveFromQueues(s, t) \in Sched
<1> DEFINE holding == {l \in Levels : Contains(s.queue[l], t)}
           first == CHOOSE l \in holding : \A m \in holding : l <= m
<1>1. CASE holding = {}
  BY <1>1 DEF RemoveFromQueues
<1>2. CASE holding # {}
  <2>1. \E l \in holding : \A m \in holding : l <= m
    <3>1. CASE 0 \in holding
      BY <3>1 DEF Levels
    <3>2. CASE 0 \notin holding /\ 1 \in holding
      BY <3>2 DEF Levels
    <3>3. CASE 0 \notin holding /\ 1 \notin holding
      BY <1>2, <3>3 DEF Levels
    <3> QED
      BY <3>1, <3>2, <3>3
  <2>2. first \in holding
    BY <2>1
  <2>3. s.queue[first] \in Seq(Threads) /\ Contains(s.queue[first], t)
    BY <2>2 DEF Sched
  <2>4. find_in_queue(s.queue[first], t) \in 1..Len(s.queue[first])
    BY <2>3 DEF find_in_queue, Contains
  <2>5. queue_remove_at(s.queue[first], find_in_queue(s.queue[first], t)) \in Seq(Threads)
    BY <2>3, <2>4, RemoveAtType DEF queue_remove_at
  <2>6. RemoveFromQueues(s, t) =
          [s EXCEPT !.queue[first] = queue_remove_at(@, find_in_queue(@, t))]
    BY <1>2 DEF RemoveFromQueues
  <2>7. ASSUME NEW l \in Levels, NEW q \in Seq(Threads)
        PROVE  [s EXCEPT !.queue[l] = q] \in Sched
    BY DEF Sched
  <2> QED
    BY <2>2, <2>5, <2>6, <2>7
<1> QED
  BY <1>1, <1>2

LEMMA BlockType ==
    ASSUME NEW s \in Sched, NEW t \in Threads
    PROVE  scheduler_block(thread_block(s, t), t) \in Sched
<1> DEFINE b == thread_block(s, t)
           off == [b EXCEPT !.level[t] = IF b.mode = "RR" THEN @ ELSE b.current_queue,
                            !.current = NoThread]
<1>1. b \in Sched /\ b.state[t] = "BLOCKED"
  BY DEF thread_block, Sched, ThreadStates
<1>2. CASE b.current = t
  <2>1. b.current_queue \in -1..2
    BY <1>1 DEF Sched, Levels
  <2>2. off \in Sched
    BY <1>1, <2>1 DEF Sched
  <2>3. scheduler_block(b, t) = scheduler_next(off)
    BY <1>1, <1>2 DEF scheduler_block
  <2> QED
    BY <2>2, <2>3, NextType
<1>3. CASE b.current # t
  <2>1. scheduler_block(b, t) = RemoveFromQueues(b, t)
    BY <1>1, <1>3 DEF scheduler_block
  <2> QED
    BY <1>1, <2>1, RemoveType
<1> QED
  BY <1>2, <1>3

LEMMA TerminateType ==
    ASSUME NEW s \in Sched, NEW t \in Threads
    PROVE  scheduler_terminate(s, t) \in Sched
<1> DEFINE left == [s EXCEPT !.current = IF @ = t THEN NoThread ELSE @]
<1>1. left \in Sched
  BY DEF Sched
<1>2. RemoveFromQueues(left, t) \in Sched
  BY <1>1, RemoveType
<1> QED
  BY <1>2 DEF scheduler_terminate, Sched, ThreadStates

LEMMA UnblockType ==
    ASSUME NEW s \in Sched, NEW t \in Threads
    PROVE  scheduler_unblock(thread_unblock(s, t), t) \in Sched
<1>1. thread_unblock(s, t) \in Sched
  BY DEF thread_unblock, Sched, ThreadStates
<1> QED
  BY <1>1, AddType DEF scheduler_unblock

LEMMA BoostType ==
    ASSUME NEW s \in Sched
    PROVE  scheduler_priority_boost(s) \in Sched
<1> DEFINE moved == ToSet(s.queue[1]) \cup ToSet(s.queue[2])
           merged == [l \in Levels |->
                        IF l = 0 THEN s.queue[0] \o s.queue[1] \o s.queue[2] ELSE << >>]
           levels == [t \in Threads |-> IF t \in moved THEN 0 ELSE s.level[t]]
<1>1. s.queue[0] \o s.queue[1] \o s.queue[2] \in Seq(Threads)
  BY DEF Sched, Levels
<1>2. merged \in [Levels -> Seq(Threads)]
  BY <1>1
<1>3. levels \in [Threads -> -1..2]
  BY DEF Sched
<1>4. scheduler_priority_boost(s) =
        [s EXCEPT !.queue = merged, !.level = levels, !.boost_age = 0]
  BY DEF scheduler_priority_boost
<1>5. ASSUME NEW q \in [Levels -> Seq(Threads)], NEW v \in [Threads -> -1..2]
      PROVE  [s EXCEPT !.queue = q, !.level = v, !.boost_age = 0] \in Sched
  <2> HIDE DEF merged, levels, moved
  <2>1. [s EXCEPT !.queue = q] \in Sched
    BY DEF Sched
  <2>2. [[s EXCEPT !.queue = q] EXCEPT !.level = v] \in Sched
    BY <2>1 DEF Sched
  <2>3. ASSUME NEW r \in Sched, NEW age \in Int
        PROVE  [r EXCEPT !.boost_age = age] \in Sched
    BY DEF Sched
  <2>4. 0 \in Int
    OBVIOUS
  <2>5. [[[s EXCEPT !.queue = q] EXCEPT !.level = v] EXCEPT !.boost_age = 0] \in Sched
    BY <2>2, <2>3, <2>4, Zenon
  <2> QED
    BY <2>5
<1> QED
  BY <1>2, <1>3, <1>4, <1>5

LEMMA DemoteType ==
    ASSUME NEW s \in Sched, s.current # NoThread
    PROVE  Demote(s) \in Sched
<1> DEFINE t == s.current
           l == IF s.current_queue + 1 > 2 THEN 2 ELSE s.current_queue + 1
<1>1. t \in Threads
  BY DEF Sched
<1>2. l \in Levels /\ l \in -1..2
  BY DEF Sched, Levels
<1>3. queue_push(s.queue[l], t) \in Seq(Threads)
  BY <1>1, <1>2, QueuePushType DEF Sched
<1> QED
  BY <1>1, <1>2, <1>3 DEF Demote, thread_yield, Sched, ThreadStates

LEMMA ClockType ==
    ASSUME NEW s \in Sched
    PROVE  /\ Age(s) \in Sched /\ Age(s).current = s.current
           /\ CountDown(s) \in Sched /\ CountDown(s).current = s.current
<1>1. Age(s) \in Sched /\ Age(s).current = s.current
  <2> DEFINE age == IF s.mode = "MLFQ" THEN s.boost_age + 1 ELSE s.boost_age
  <2>1. age \in Int
    BY DEF Sched
  <2>2. Age(s) = [s EXCEPT !.boost_age = age]
    BY DEF Age
  <2> HIDE DEF age
  <2> QED
    BY <2>1, <2>2 DEF Sched
<1>2. CountDown(s) \in Sched /\ CountDown(s).current = s.current
  <2> DEFINE left == IF s.quantum > 0 THEN s.quantum - 1 ELSE 0
  <2>1. left \in Nat
    BY DEF Sched
  <2>2. CountDown(s) = [s EXCEPT !.quantum = left]
    BY DEF CountDown
  <2> HIDE DEF left
  <2> QED
    BY <2>1, <2>2 DEF Sched
<1> QED
  BY <1>1, <1>2

LEMMA TickType ==
    ASSUME NEW s \in Sched
    PROVE  scheduler_tick(s) \in Sched
<1> DEFINE aged == Age(s)
           spent == CountDown(aged)
           after == CASE s.current = NoThread -> scheduler_next(aged)
                      [] s.current # NoThread /\ spent.quantum = 0 ->
                               scheduler_next(Demote(spent))
                      [] s.current # NoThread /\ spent.quantum # 0 -> spent
<1>1. aged \in Sched
  BY ClockType
<1>2. spent \in Sched /\ spent.current = s.current
  BY <1>1, ClockType
<1>3. after \in Sched
  <2>1. CASE s.current = NoThread
    BY <1>1, <2>1, NextType
  <2>2. CASE s.current # NoThread /\ spent.quantum = 0
    <3>1. Demote(spent) \in Sched
      BY <1>2, <2>2, DemoteType
    <3>2. after = scheduler_next(Demote(spent))
      BY <2>2
    <3> QED
      BY <3>1, <3>2, NextType
  <2>3. CASE s.current # NoThread /\ spent.quantum # 0
    BY <1>2, <2>3
  <2> QED
    BY <2>1, <2>2, <2>3
<1>4. scheduler_tick(s) = after \/ scheduler_tick(s) = scheduler_priority_boost(after)
  BY DEF scheduler_tick
<1> QED
  BY <1>3, <1>4, BoostType

-----------------------------------------------------------------------------
\* The scheduler never computes a level or a thread outside its tables,
\* whatever is blocked, woken or killed.
THEOREM TypeCorrect == Spec => []TypeOK
<1>1. Init => TypeOK
  <2> SUFFICES ASSUME Init PROVE TypeOK
    OBVIOUS
  <2>1. PICK mode \in {"RR", "MLFQ"} : sched = scheduler_init(mode)
    BY DEF Init
  <2>2. sched \in Sched
    BY <2>1, SchedulerAssumption DEF scheduler_init, Sched, ThreadStates, Levels
  <2> QED
    BY <2>2 DEF Init, TypeOK, Phases
<1>2. TypeOK /\ [Next]_vars => TypeOK'
  <2> SUFFICES ASSUME TypeOK, [Next]_vars PROVE TypeOK'
    OBVIOUS
  <2> USE DEF TypeOK, Phases
  <2>1. ASSUME NEW t \in Threads, Arrive(t) PROVE TypeOK'
    BY <2>1, AddType DEF Arrive
  <2>2. ASSUME NEW t \in Threads, Unblock(t) PROVE TypeOK'
    BY <2>2, UnblockType DEF Unblock
  <2>3. CASE Dispatch
    BY <2>3, NextType DEF Dispatch
  <2>4. CASE Compute
    BY <2>4 DEF Compute
  <2>5. ASSUME NEW t \in Threads, BlockCurrent(t) PROVE TypeOK'
    BY <2>5, BlockType DEF BlockCurrent
  <2>6. ASSUME NEW t \in Threads, Terminate(t) PROVE TypeOK'
    BY <2>6, TerminateType DEF Terminate
  <2>7. ASSUME NEW t \in Threads, Kill(t) PROVE TypeOK'
    BY <2>7 DEF Kill, Sched, ThreadStates
  <2>8. ASSUME NEW t \in Threads, PageFault(t) PROVE TypeOK'
    BY <2>8, BlockType DEF PageFault
  <2>9. CASE NoPageFault
    BY <2>9 DEF NoPageFault
  <2>10. CASE Tick
    BY <2>10, TickType DEF Tick
  <2>11. CASE UNCHANGED vars
    BY <2>11 DEF vars
  <2> QED
    BY <2>1, <2>2, <2>3, <2>4, <2>5, <2>6, <2>7, <2>8, <2>9, <2>10, <2>11 DEF Next, Calls
<1> QED
  BY <1>1, <1>2, PTL DEF Spec

-----------------------------------------------------------------------------
(* What the queue operations do to a family Q of queues *)

Queues == [Levels -> Seq(Threads)]

\* A queue without duplicates that lacks a thread has room for it.
LEMMA QueueHasRoom ==
    ASSUME NEW q \in Seq(Threads), NEW t \in Threads, ~ Contains(q, t),
           \A i, j \in 1..Len(q) : q[i] = q[j] => i = j
    PROVE  Len(q) < MaxReadyQueue
<1> DEFINE others == Threads \ {t}
<1>1. IsFiniteSet(others) /\ Cardinality(others) = Cardinality(Threads) - 1
  BY SchedulerAssumption, FS_RemoveElement
<1>2. Cardinality(Threads) \in Nat /\ Len(q) \in Nat
  BY SchedulerAssumption, FS_CardinalityType
<1>3. Cardinality(1..Len(q)) = Len(q)
  <2>1. 1 \in Int /\ Len(q) \in Int
    BY <1>2
  <2>2. Cardinality(1..Len(q)) = IF 1 > Len(q) THEN 0 ELSE Len(q) - 1 + 1
    BY <2>1, FS_Interval, Zenon
  <2> QED
    BY <1>2, <2>2
<1>4. \A i \in 1..Len(q) : q[i] \in others
  BY DEF Contains
<1>5. [i \in 1..Len(q) |-> q[i]] \in Injection(1..Len(q), others)
  BY <1>4, Fun_IsInj
<1>6. Len(q) <= Cardinality(others)
  BY <1>1, <1>3, <1>5, FS_Injection
<1> QED
  BY <1>1, <1>2, <1>6, SchedulerAssumption

\* The capacity guards of the code are never the reason a thread is refused.
LEMMA PushAppends ==
    ASSUME NEW Q \in Queues, Disjoint(Q), NEW l \in Levels,
           NEW t \in Threads, ~ Holds(Q, t)
    PROVE  /\ Len(Q[l]) < MaxReadyQueue
           /\ queue_push(Q[l], t) = Append(Q[l], t)
<1>1. Q[l] \in Seq(Threads) /\ ~ Contains(Q[l], t)
  BY DEF Queues, Holds
<1>2. \A i, j \in 1..Len(Q[l]) : Q[l][i] = Q[l][j] => i = j
  BY DEF Disjoint
<1>3. Len(Q[l]) < MaxReadyQueue
  BY <1>1, <1>2, QueueHasRoom
<1> QED
  BY <1>1, <1>3, SchedulerAssumption DEF queue_push

LEMMA EnterQueue ==
    ASSUME NEW Q \in Queues, Disjoint(Q), NEW l \in Levels,
           NEW t \in Threads, ~ Holds(Q, t),
           NEW R, R = [Q EXCEPT ![l] = Append(@, t)]
    PROVE  /\ Disjoint(R)
           /\ \A u \in Threads : Holds(R, u) <=> Holds(Q, u) \/ u = t
<1>1. Q[l] \in Seq(Threads)
  BY DEF Queues
<1>2. R \in Queues
  BY <1>1 DEF Queues
<1>3. \A m \in Levels :
        /\ R[m] \in Seq(Threads)
        /\ Len(R[m]) = IF m = l THEN Len(Q[m]) + 1 ELSE Len(Q[m])
        /\ \A i \in 1..Len(R[m]) :
             R[m][i] = IF m = l /\ i = Len(Q[m]) + 1 THEN t ELSE Q[m][i]
  BY <1>1, <1>2 DEF Queues
<1>4. \A m \in Levels : \A i \in 1..Len(Q[m]) : Q[m][i] # t
  BY DEF Holds, Contains
<1>5. \A m \in Levels : Len(Q[m]) \in Nat
  BY DEF Queues
<1>6. Disjoint(R)
  <2> SUFFICES ASSUME NEW k \in Levels, NEW m \in Levels,
                      NEW i \in 1..Len(R[k]), NEW j \in 1..Len(R[m]),
                      R[k][i] = R[m][j]
               PROVE  k = m /\ i = j
    BY DEF Disjoint
  <2>1. \/ i \in 1..Len(Q[k]) /\ R[k][i] = Q[k][i] /\ R[k][i] # t
        \/ k = l /\ i = Len(Q[l]) + 1 /\ R[k][i] = t
    BY <1>3, <1>4, <1>5
  <2>2. \/ j \in 1..Len(Q[m]) /\ R[m][j] = Q[m][j] /\ R[m][j] # t
        \/ m = l /\ j = Len(Q[l]) + 1 /\ R[m][j] = t
    BY <1>3, <1>4, <1>5
  <2> QED
    BY <2>1, <2>2 DEF Disjoint
<1>7. ASSUME NEW u \in Threads PROVE Holds(R, u) <=> Holds(Q, u) \/ u = t
  <2>1. ASSUME Holds(R, u), u # t PROVE Holds(Q, u)
    BY <1>3, <1>5, <2>1 DEF Holds, Contains
  <2>2. ASSUME Holds(Q, u) PROVE Holds(R, u)
    <3>1. PICK m \in Levels : \E i \in 1..Len(Q[m]) : Q[m][i] = u
      BY <2>2 DEF Holds, Contains
    <3>2. PICK i \in 1..Len(Q[m]) : Q[m][i] = u
      BY <3>1
    <3>3. i \in 1..Len(R[m]) /\ R[m][i] = u
      BY <1>3, <1>4, <1>5, <3>2
    <3> QED
      BY <3>3 DEF Holds, Contains
  <2>3. Holds(R, t)
    <3>1. Len(Q[l]) + 1 \in 1..Len(R[l]) /\ R[l][Len(Q[l]) + 1] = t
      BY <1>3, <1>5
    <3> QED
      BY <3>1 DEF Holds, Contains
  <2> QED
    BY <2>1, <2>2, <2>3
<1> QED
  BY <1>6, <1>7

LEMMA LeaveQueue ==
    ASSUME NEW Q \in Queues, Disjoint(Q), NEW l \in Levels, Q[l] # << >>,
           NEW R, R = [Q EXCEPT ![l] = Tail(@)]
    PROVE  /\ Disjoint(R)
           /\ Head(Q[l]) \in Threads
           /\ Holds(Q, Head(Q[l]))
           /\ \A u \in Threads : Holds(R, u) <=> Holds(Q, u) /\ u # Head(Q[l])
<1> DEFINE h == Head(Q[l])
<1>1. /\ Q[l] \in Seq(Threads)
      /\ Len(Q[l]) \in Nat \ {0}
      /\ Q[l][1] = h
      /\ h \in Threads
  BY DEF Queues
<1>2. R \in Queues
  BY <1>1 DEF Queues
<1>3. \A m \in Levels :
        /\ Len(R[m]) = IF m = l THEN Len(Q[m]) - 1 ELSE Len(Q[m])
        /\ \A i \in 1..Len(R[m]) : R[m][i] = IF m = l THEN Q[m][i + 1] ELSE Q[m][i]
  BY <1>1, HeadTailProperties DEF Queues
<1>4. \A m \in Levels : Len(Q[m]) \in Nat
  BY DEF Queues
<1>5. Disjoint(R)
  <2> SUFFICES ASSUME NEW k \in Levels, NEW m \in Levels,
                      NEW i \in 1..Len(R[k]), NEW j \in 1..Len(R[m]),
                      R[k][i] = R[m][j]
               PROVE  k = m /\ i = j
    BY DEF Disjoint
  <2> DEFINE a == IF k = l THEN i + 1 ELSE i
             b == IF m = l THEN j + 1 ELSE j
  <2>1. a \in 1..Len(Q[k]) /\ Q[k][a] = R[k][i]
    BY <1>3, <1>4
  <2>2. b \in 1..Len(Q[m]) /\ Q[m][b] = R[m][j]
    BY <1>3, <1>4
  <2>3. k = m /\ a = b
    BY <2>1, <2>2 DEF Disjoint
  <2> QED
    BY <2>3
<1>6. ASSUME NEW u \in Threads PROVE Holds(R, u) <=> Holds(Q, u) /\ u # h
  <2>1. ASSUME Holds(R, u) PROVE Holds(Q, u) /\ u # h
    <3>1. PICK m \in Levels : \E i \in 1..Len(R[m]) : R[m][i] = u
      BY <2>1 DEF Holds, Contains
    <3>2. PICK i \in 1..Len(R[m]) : R[m][i] = u
      BY <3>1
    <3> DEFINE a == IF m = l THEN i + 1 ELSE i
    <3>3. a \in 1..Len(Q[m]) /\ Q[m][a] = u /\ (m = l => a # 1)
      BY <1>3, <1>4, <3>2
    <3>4. u # h
      BY <1>1, <3>3 DEF Disjoint
    <3> QED
      BY <3>3, <3>4 DEF Holds, Contains
  <2>2. ASSUME Holds(Q, u), u # h PROVE Holds(R, u)
    <3>1. PICK m \in Levels : \E i \in 1..Len(Q[m]) : Q[m][i] = u
      BY <2>2 DEF Holds, Contains
    <3>2. PICK i \in 1..Len(Q[m]) : Q[m][i] = u
      BY <3>1
    <3>3. m = l => i # 1
      BY <1>1, <2>2, <3>2
    <3> DEFINE a == IF m = l THEN i - 1 ELSE i
    <3>4. a \in 1..Len(R[m]) /\ R[m][a] = u
      BY <1>3, <1>4, <3>2, <3>3
    <3> QED
      BY <3>4 DEF Holds, Contains
  <2> QED
    BY <2>1, <2>2
<1>7. Holds(Q, h)
  BY <1>1 DEF Holds, Contains
<1> QED
  BY <1>1, <1>5, <1>6, <1>7
\* r holds the elements of a, then those of b, then those of c.
Merges(r, a, b, c) ==
    /\ r \in Seq(Threads)
    /\ \A i \in 1..Len(r) :
         \/ i \in 1..Len(a) /\ r[i] = a[i]
         \/ i - Len(a) \in 1..Len(b) /\ r[i] = b[i - Len(a)]
         \/ i - (Len(a) + Len(b)) \in 1..Len(c) /\ r[i] = c[i - (Len(a) + Len(b))]
    /\ \A i \in 1..Len(a) : \E j \in 1..Len(r) : r[j] = a[i]
    /\ \A i \in 1..Len(b) : \E j \in 1..Len(r) : r[j] = b[i]
    /\ \A i \in 1..Len(c) : \E j \in 1..Len(r) : r[j] = c[i]

LEMMA ConcatThree ==
    ASSUME NEW a \in Seq(Threads), NEW b \in Seq(Threads), NEW c \in Seq(Threads)
    PROVE  Merges(a \o b \o c, a, b, c)
<1> DEFINE ab == a \o b
           r == ab \o c
<1>1. Len(a) \in Nat /\ Len(b) \in Nat /\ Len(c) \in Nat
  OBVIOUS
<1>2. /\ ab \in Seq(Threads)
      /\ Len(ab) = Len(a) + Len(b)
      /\ \A i \in 1..Len(ab) : ab[i] = IF i <= Len(a) THEN a[i] ELSE b[i - Len(a)]
  OBVIOUS
<1> HIDE DEF ab
<1>3. /\ r \in Seq(Threads)
      /\ Len(r) = Len(ab) + Len(c)
      /\ \A i \in 1..Len(r) : r[i] = IF i <= Len(ab) THEN ab[i] ELSE c[i - Len(ab)]
  BY <1>2
<1> HIDE DEF r
<1>4. ASSUME NEW i \in 1..Len(r)
      PROVE  \/ i \in 1..Len(a) /\ r[i] = a[i]
             \/ i - Len(a) \in 1..Len(b) /\ r[i] = b[i - Len(a)]
             \/ i - (Len(a) + Len(b)) \in 1..Len(c) /\ r[i] = c[i - (Len(a) + Len(b))]
  BY <1>1, <1>2, <1>3
<1>5. ASSUME NEW i \in 1..Len(a) PROVE i \in 1..Len(r) /\ r[i] = a[i]
  BY <1>1, <1>2, <1>3
<1>6. ASSUME NEW i \in 1..Len(b)
      PROVE  Len(a) + i \in 1..Len(r) /\ r[Len(a) + i] = b[i]
  BY <1>1, <1>2, <1>3
<1>7. ASSUME NEW i \in 1..Len(c)
      PROVE  Len(ab) + i \in 1..Len(r) /\ r[Len(ab) + i] = c[i]
  <2>1. Len(ab) \in Nat
    BY <1>1, <1>2
  <2>2. /\ Len(ab) + i \in 1..Len(r)
        /\ ~ (Len(ab) + i <= Len(ab))
        /\ (Len(ab) + i) - Len(ab) = i
    BY <1>1, <1>3, <2>1
  <2> QED
    BY <1>3, <2>2
<1>8. /\ \A i \in 1..Len(a) : \E j \in 1..Len(r) : r[j] = a[i]
      /\ \A i \in 1..Len(b) : \E j \in 1..Len(r) : r[j] = b[i]
      /\ \A i \in 1..Len(c) : \E j \in 1..Len(r) : r[j] = c[i]
  BY <1>5, <1>6, <1>7
<1> QED
  BY <1>3, <1>4, <1>8 DEF r, ab, Merges

LEMMA MergeQueues ==
    ASSUME NEW Q \in Queues, Disjoint(Q), NEW R \in Queues,
           Merges(R[0], Q[0], Q[1], Q[2]), Len(R[1]) = 0, Len(R[2]) = 0
    PROVE  /\ Disjoint(R)
           /\ \A u \in Threads : Holds(R, u) <=> Holds(Q, u)
           /\ \A i \in 1..Len(R[0]) :
                \/ \E j \in 1..Len(Q[0]) : R[0][i] = Q[0][j]
                \/ \E j \in 1..Len(Q[1]) : R[0][i] = Q[1][j]
                \/ \E j \in 1..Len(Q[2]) : R[0][i] = Q[2][j]
<1> DEFINE r == R[0]
<1>1. /\ 0 \in Levels /\ 1 \in Levels /\ 2 \in Levels
      /\ \A l \in Levels : l = 0 \/ l = 1 \/ l = 2
  BY DEF Levels
<1>2. Q[0] \in Seq(Threads) /\ Q[1] \in Seq(Threads) /\ Q[2] \in Seq(Threads)
  BY <1>1 DEF Queues
<1>3. /\ r \in Seq(Threads)
      /\ \A i \in 1..Len(r) :
           \/ i \in 1..Len(Q[0]) /\ r[i] = Q[0][i]
           \/ i - Len(Q[0]) \in 1..Len(Q[1]) /\ r[i] = Q[1][i - Len(Q[0])]
           \/ /\ i - (Len(Q[0]) + Len(Q[1])) \in 1..Len(Q[2])
              /\ r[i] = Q[2][i - (Len(Q[0]) + Len(Q[1]))]
      /\ \A i \in 1..Len(Q[0]) : \E j \in 1..Len(r) : r[j] = Q[0][i]
      /\ \A i \in 1..Len(Q[1]) : \E j \in 1..Len(r) : r[j] = Q[1][i]
      /\ \A i \in 1..Len(Q[2]) : \E j \in 1..Len(r) : r[j] = Q[2][i]
  BY DEF Merges
<1> HIDE DEF r
<1> DEFINE base(l) == IF l = 0 THEN 0
                      ELSE IF l = 1 THEN Len(Q[0]) ELSE Len(Q[0]) + Len(Q[1])
<1>10. /\ base(0) = 0
       /\ base(1) = Len(Q[0])
       /\ base(2) = Len(Q[0]) + Len(Q[1])
  OBVIOUS
<1> HIDE DEF base
<1>9. ASSUME NEW i \in 1..Len(r)
      PROVE  \E l \in Levels : \E a \in 1..Len(Q[l]) : Q[l][a] = r[i] /\ i = base(l) + a
  <2>1. Len(r) \in Nat /\ Len(Q[0]) \in Nat /\ Len(Q[1]) \in Nat
    BY <1>2, <1>3
  <2>2. CASE i \in 1..Len(Q[0]) /\ r[i] = Q[0][i]
    BY <1>1, <1>10, <2>1, <2>2
  <2>3. CASE i - Len(Q[0]) \in 1..Len(Q[1]) /\ r[i] = Q[1][i - Len(Q[0])]
    <3>1. i = base(1) + (i - Len(Q[0]))
      BY <1>10, <2>1
    <3> QED
      BY <1>1, <2>3, <3>1
  <2>4. CASE /\ i - (Len(Q[0]) + Len(Q[1])) \in 1..Len(Q[2])
             /\ r[i] = Q[2][i - (Len(Q[0]) + Len(Q[1]))]
    <3> DEFINE k == Len(Q[0]) + Len(Q[1])
    <3>4. k \in Int /\ i \in Int
      BY <2>1
    <3>5. base(2) = k
      BY <1>10, Zenon
    <3>2. k \in Int /\ i \in Int /\ base(2) = k
      BY <3>4, <3>5
    <3>3. i = k + (i - k)
      <4> HIDE DEF k
      <4> QED
        BY <3>2
    <3>1. i = base(2) + (i - (Len(Q[0]) + Len(Q[1])))
      BY <3>2, <3>3
    <3> QED
      BY <1>1, <2>4, <3>1
  <2> QED
    BY <1>3, <2>2, <2>3, <2>4
<1>5. ASSUME NEW i \in 1..Len(r), NEW j \in 1..Len(r), r[i] = r[j]
      PROVE  i = j
  <2>1. PICK l \in Levels : \E a \in 1..Len(Q[l]) : Q[l][a] = r[i] /\ i = base(l) + a
    BY <1>9
  <2>2. PICK a \in 1..Len(Q[l]) : Q[l][a] = r[i] /\ i = base(l) + a
    BY <2>1
  <2>3. PICK m \in Levels : \E b \in 1..Len(Q[m]) : Q[m][b] = r[j] /\ j = base(m) + b
    BY <1>9
  <2>4. PICK b \in 1..Len(Q[m]) : Q[m][b] = r[j] /\ j = base(m) + b
    BY <2>3
  <2>5. Q[l][a] = Q[m][b]
    BY <1>5, <2>2, <2>4
  <2>6. l = m /\ a = b
    BY <2>5, Zenon DEF Disjoint
  <2> QED
    BY <2>2, <2>4, <2>6
<1>6. Disjoint(R)
  BY <1>1, <1>5 DEF Disjoint, r
<1>7. ASSUME NEW u \in Threads PROVE Holds(R, u) <=> Holds(Q, u)
  <2>1. Holds(R, u) <=> \E i \in 1..Len(r) : r[i] = u
    BY <1>1 DEF Holds, Contains, r
  <2>3. ASSUME NEW i \in 1..Len(r), r[i] = u PROVE Holds(Q, u)
    <3>1. PICK l \in Levels : \E a \in 1..Len(Q[l]) : Q[l][a] = r[i] /\ i = base(l) + a
      BY <1>9
    <3> QED
      BY <2>3, <3>1 DEF Holds, Contains
  <2>4. ASSUME NEW l \in Levels, NEW a \in 1..Len(Q[l]), Q[l][a] = u
        PROVE  \E i \in 1..Len(r) : r[i] = u
    <3>1. CASE l = 0
      BY <1>3, <2>4, <3>1
    <3>2. CASE l = 1
      BY <1>3, <2>4, <3>2
    <3>3. CASE l = 2
      BY <1>3, <2>4, <3>3
    <3> QED
      BY <1>1, <3>1, <3>2, <3>3
  <2> QED
    BY <2>1, <2>3, <2>4 DEF Holds, Contains
<1>8. \A i \in 1..Len(R[0]) :
        \/ \E j \in 1..Len(Q[0]) : R[0][i] = Q[0][j]
        \/ \E j \in 1..Len(Q[1]) : R[0][i] = Q[1][j]
        \/ \E j \in 1..Len(Q[2]) : R[0][i] = Q[2][j]
  <2> SUFFICES ASSUME NEW i \in 1..Len(r)
               PROVE  \/ \E j \in 1..Len(Q[0]) : r[i] = Q[0][j]
                      \/ \E j \in 1..Len(Q[1]) : r[i] = Q[1][j]
                      \/ \E j \in 1..Len(Q[2]) : r[i] = Q[2][j]
    BY DEF r
  <2> QED
    BY <1>3
<1> QED
  BY <1>6, <1>7, <1>8

-----------------------------------------------------------------------------
(* The inductive invariant is Settled, of the record and the arrived threads *)

\* What holds between the moment a running thread is put back into a queue and
\* the moment the next one is taken: nobody runs, s.current means nothing.
Idle(s, A) ==
    /\ s \in Sched
    /\ Disjoint(s.queue)
    /\ QueuedAtLevel(s)
    /\ \A t \in Threads :
         /\ s.state[t] # "RUNNING"
         /\ t \in A /\ s.state[t] = "READY" => Holds(s.queue, t)
         /\ Holds(s.queue, t) => t \in A /\ s.state[t] \in {"READY", "DONE"}
         /\ t \notin A => s.state[t] = "READY"

LEMMA TakeSettles ==
    ASSUME NEW s, NEW A \in SUBSET Threads, Idle(s, A),
           NEW l \in Levels, s.queue[l] # << >>
    PROVE  Settled(Take(s, l), A)
<1> DEFINE r == Take(s, l)
           t == Head(s.queue[l])
<1>1. s \in Sched /\ s.queue \in Queues /\ Disjoint(s.queue)
  BY DEF Idle, Sched, Queues
<1>2. r \in Sched
  BY <1>1, TakeType
<1>3. /\ r.queue = [s.queue EXCEPT ![l] = Tail(@)]
      /\ r.state = [s.state EXCEPT ![t] = "RUNNING"]
      /\ r.mode = s.mode /\ r.level = s.level
      /\ r.current = t /\ r.current_queue = l
  BY <1>1 DEF Take, Sched
<1>4. /\ Disjoint(r.queue)
      /\ t \in Threads
      /\ Holds(s.queue, t)
      /\ \A u \in Threads : Holds(r.queue, u) <=> Holds(s.queue, u) /\ u # t
  BY <1>1, <1>3, LeaveQueue
<1>5. s.queue[l] \in Seq(Threads) /\ Len(s.queue[l]) \in Nat \ {0} /\ s.queue[l][1] = t
  BY <1>1 DEF Queues
<1>6. \A m \in Levels :
        /\ Len(s.queue[m]) \in Nat
        /\ Len(r.queue[m]) = IF m = l THEN Len(s.queue[m]) - 1 ELSE Len(s.queue[m])
        /\ \A i \in 1..Len(r.queue[m]) :
             r.queue[m][i] = IF m = l THEN s.queue[m][i + 1] ELSE s.queue[m][i]
  BY <1>1, <1>3, <1>5, HeadTailProperties DEF Queues
<1> HIDE DEF r, t
<1>7. s.mode = "RR" => l = 0
  BY <1>5 DEF Idle, QueuedAtLevel, Levels
<1>8. QueuedAtLevel(r)
  <2>1. ASSUME r.mode = "RR" PROVE Len(r.queue[1]) = 0 /\ Len(r.queue[2]) = 0
    BY <1>3, <1>6, <1>7, <2>1 DEF Idle, QueuedAtLevel, Levels
  <2>2. ASSUME r.mode = "MLFQ", NEW m \in Levels, NEW i \in 1..Len(r.queue[m])
        PROVE  r.level[r.queue[m][i]] = m
    BY <1>3, <1>6, <2>2 DEF Idle, QueuedAtLevel
  <2> QED
    BY <2>1, <2>2 DEF QueuedAtLevel
<1>9. r.mode = "MLFQ" => r.level[t] = l
  BY <1>3, <1>5 DEF Idle, QueuedAtLevel
<1>10. r.state[t] = "RUNNING" /\ \A u \in Threads : u # t => r.state[u] = s.state[u]
  BY <1>1, <1>3, <1>4 DEF Sched
<1>11. t \in A
  BY <1>4 DEF Idle
<1>12. \A u \in Threads :
         /\ r.state[u] = "RUNNING" => u = t
         /\ u \in A /\ r.state[u] = "READY" => Holds(r.queue, u)
         /\ Holds(r.queue, u) => u \in A /\ r.state[u] \in {"READY", "DONE"}
         /\ u \notin A => r.state[u] = "READY"
  BY <1>4, <1>10, <1>11 DEF Idle
<1> QED
  BY <1>2, <1>3, <1>4, <1>7, <1>8, <1>9, <1>10, <1>11, <1>12 DEF Settled, r

LEMMA SettledCurrent ==
    ASSUME NEW s, NEW A \in SUBSET Threads, Settled(s, A), s.current # NoThread
    PROVE  /\ s.current \in Threads
           /\ s.state[s.current] \in {"RUNNING", "DONE"}
           /\ ~ Holds(s.queue, s.current)
BY DEF Settled, Sched, ThreadStates

\* r is s with thread t put back into queue l, as Requeue and Demote do it.
IsPutBack(r, s, t, l) ==
    /\ s.mode = "RR" => l = 0
    /\ r \in Sched
    /\ r.queue = [s.queue EXCEPT ![l] = Append(@, t)]
    /\ r.state = [s.state EXCEPT ![t] = "READY"]
    /\ r.level = IF s.mode = "RR" THEN s.level ELSE [s.level EXCEPT ![t] = l]
    /\ r.mode = s.mode

LEMMA PutBack ==
    ASSUME NEW s, NEW A \in SUBSET Threads, Settled(s, A), s.current # NoThread,
           s.state[s.current] = "RUNNING",
           NEW l \in Levels, NEW r, IsPutBack(r, s, s.current, l)
    PROVE  Idle(r, A) /\ HasReady(r)
<1> DEFINE t == s.current
<1>9. /\ t \in Threads /\ t \in A /\ ~ Holds(s.queue, t)
      /\ s.state[t] = "RUNNING"
      /\ \A u \in Threads : u # t => s.state[u] # "RUNNING"
  BY SettledCurrent DEF Settled
<1>10. /\ s.mode = "RR" => l = 0
       /\ r \in Sched
       /\ r.queue = [s.queue EXCEPT ![l] = Append(@, t)]
       /\ r.state = [s.state EXCEPT ![t] = "READY"]
       /\ r.level = IF s.mode = "RR" THEN s.level ELSE [s.level EXCEPT ![t] = l]
       /\ r.mode = s.mode
  BY DEF IsPutBack
<1> HIDE DEF t
<1>1. s \in Sched /\ s.queue \in Queues /\ Disjoint(s.queue)
  BY DEF Settled, Sched, Queues
<1>2. /\ Disjoint(r.queue)
      /\ \A u \in Threads : Holds(r.queue, u) <=> Holds(s.queue, u) \/ u = t
  <2> SUFFICES ASSUME NEW Q, Q = s.queue, NEW R, R = r.queue
               PROVE  /\ Disjoint(R)
                      /\ \A u \in Threads : Holds(R, u) <=> Holds(Q, u) \/ u = t
    OBVIOUS
  <2>1. Q \in Queues /\ Disjoint(Q) /\ t \in Threads /\ ~ Holds(Q, t)
    BY <1>1, <1>9
  <2>2. R = [Q EXCEPT ![l] = Append(@, t)]
    BY <1>10
  <2> QED
    BY <2>1, <2>2, EnterQueue
<1>3. r.state[t] = "READY" /\ \A u \in Threads : u # t => r.state[u] = s.state[u]
  BY <1>1, <1>9, <1>10 DEF Sched
<1>5. \A m \in Levels :
        /\ Len(s.queue[m]) \in Nat
        /\ Len(r.queue[m]) = IF m = l THEN Len(s.queue[m]) + 1 ELSE Len(s.queue[m])
        /\ \A i \in 1..Len(r.queue[m]) :
             r.queue[m][i] = IF m = l /\ i = Len(s.queue[m]) + 1 THEN t ELSE s.queue[m][i]
  BY <1>1, <1>9, <1>10 DEF Queues
<1>6. QueuedAtLevel(r)
  <2>1. ASSUME r.mode = "RR" PROVE Len(r.queue[1]) = 0 /\ Len(r.queue[2]) = 0
    BY <1>5, <1>10, <2>1 DEF Settled, QueuedAtLevel, Levels
  <2>2. ASSUME r.mode = "MLFQ", NEW m \in Levels, NEW i \in 1..Len(r.queue[m])
        PROVE  r.level[r.queue[m][i]] = m
    <3>1. r.level[t] = l /\ \A u \in Threads : u # t => r.level[u] = s.level[u]
      BY <1>1, <1>9, <1>10, <2>2 DEF Sched
    <3>2. CASE m = l /\ i = Len(s.queue[m]) + 1
      BY <1>5, <3>1, <3>2
    <3>3. CASE ~ (m = l /\ i = Len(s.queue[m]) + 1)
      <4>1. i \in 1..Len(s.queue[m]) /\ r.queue[m][i] = s.queue[m][i]
        BY <1>5, <3>3
      <4>2. s.queue[m][i] \in Threads /\ s.queue[m][i] # t
        BY <1>1, <1>9, <4>1 DEF Queues, Holds, Contains
      <4>3. s.level[s.queue[m][i]] = m
        BY <1>10, <2>2, <4>1 DEF Settled, QueuedAtLevel
      <4> QED
        BY <3>1, <4>1, <4>2, <4>3
    <3> QED
      BY <3>2, <3>3
  <2> QED
    BY <2>1, <2>2 DEF QueuedAtLevel
<1>7. \A u \in Threads :
        /\ r.state[u] # "RUNNING"
        /\ u \in A /\ r.state[u] = "READY" => Holds(r.queue, u)
        /\ Holds(r.queue, u) => u \in A /\ r.state[u] \in {"READY", "DONE"}
        /\ u \notin A => r.state[u] = "READY"
  BY <1>2, <1>3, <1>9 DEF Settled
<1>8. HasReady(r)
  <2>1. Len(r.queue[l]) # 0
    BY <1>5, <1>10
  <2> QED
    BY <2>1 DEF HasReady
<1> QED
  BY <1>2, <1>6, <1>7, <1>8, <1>10 DEF Idle

LEMMA RequeueIdles ==
    ASSUME NEW s, NEW A \in SUBSET Threads, Settled(s, A)
    PROVE  Idle(Requeue(s), A) /\ (HasReady(s) => HasReady(Requeue(s)))
<1> DEFINE t == s.current
           l == IF s.mode = "RR" THEN 0 ELSE LevelOf(s, t)
           r == Requeue(s)
<1>1. s \in Sched /\ s.queue \in Queues /\ Disjoint(s.queue)
  BY DEF Settled, Sched, Queues
<1>2. CASE s.current = NoThread \/ s.state[t] # "RUNNING"
  <2>1. r = s
    BY <1>2 DEF Requeue
  <2>2. \A u \in Threads : s.state[u] # "RUNNING"
    BY <1>2, SchedulerAssumption DEF Settled
  <2> QED
    BY <2>1, <2>2 DEF Settled, Idle
<1>3. CASE s.current # NoThread /\ s.state[t] = "RUNNING"
  <2>1. t \in Threads /\ ~ Holds(s.queue, t)
    BY <1>3, SettledCurrent
  <2>2. l \in Levels
    BY <1>1, <2>1, LevelOfType DEF Levels
  <2>3. queue_push(s.queue[l], t) = Append(s.queue[l], t)
    BY <1>1, <2>1, <2>2, PushAppends
  <2>4. r \in Sched
    BY <1>1, RequeueType
  <2>5. /\ r.queue = [s.queue EXCEPT ![l] = Append(@, t)]
        /\ r.state = [s.state EXCEPT ![t] = "READY"]
        /\ r.level = IF s.mode = "RR" THEN s.level ELSE [s.level EXCEPT ![t] = l]
        /\ r.mode = s.mode
    BY <1>1, <1>3, <2>1, <2>3 DEF Requeue, thread_yield, Sched
  <2>6. s.mode = "RR" => l = 0
    OBVIOUS
  <2>8. IsPutBack(r, s, s.current, l)
    BY <2>4, <2>5, <2>6 DEF IsPutBack
  <2> HIDE DEF r, l
  <2>7. Idle(r, A) /\ HasReady(r)
    BY <1>3, <2>2, <2>8, PutBack
  <2> QED
    BY <2>7 DEF r
<1> QED
  BY <1>2, <1>3

LEMMA TakeChosen ==
    ASSUME NEW s, NEW A \in SUBSET Threads, Idle(s, A), HasReady(s)
    PROVE  Settled(Take(s, Chosen(s)), A)
<1>1. s \in Sched
  BY DEF Idle
<1>2. Chosen(s) \in Levels /\ s.queue[Chosen(s)] # << >>
  BY <1>1, ChosenType
<1> QED
  BY <1>2, TakeSettles

LEMMA NextSettles ==
    ASSUME NEW s, NEW A \in SUBSET Threads, Settled(s, A)
    PROVE  Settled(scheduler_next(s), A)
<1>1. CASE ~ HasReady(s)
  BY <1>1 DEF scheduler_next
<1>2. CASE HasReady(s)
  BY <1>2, RequeueIdles, TakeChosen DEF scheduler_next
<1> QED
  BY <1>1, <1>2

\* A thread that waits nowhere enters the queue scheduler_add chooses.
LEMMA AddSettles ==
    ASSUME NEW s \in Sched, NEW A \in SUBSET Threads, NEW B \in SUBSET Threads,
           NEW t \in Threads, ~ Holds(s.queue, t), s.current # t,
           B = A \cup {t},
           NEW q, Settled(q, A),
           q.queue = s.queue, q.mode = s.mode, q.level = s.level,
           q.current = s.current, q.current_queue = s.current_queue,
           \A u \in Threads \ {t} : q.state[u] = s.state[u]
    PROVE  Settled(scheduler_add(s, t), B)
<1> DEFINE l == IF s.mode = "RR" THEN 0 ELSE LevelOf(s, t)
           r == scheduler_add(s, t)
<1>1. q \in Sched /\ s.queue \in Queues /\ Disjoint(s.queue)
  BY DEF Settled, Sched, Queues
<1>2. l \in Levels
  BY LevelOfType DEF Levels
<1>3. /\ ~ Contains(s.queue[l], t)
      /\ Len(s.queue[l]) < MaxReadyQueue
      /\ queue_push(s.queue[l], t) = Append(s.queue[l], t)
  BY <1>1, <1>2, PushAppends DEF Holds
<1>4. ~ (s.mode = "RR" /\ Len(s.queue[0]) >= MaxReadyQueue)
  <2>1. ASSUME s.mode = "RR" PROVE Len(s.queue[0]) < MaxReadyQueue
    BY <1>3, <2>1
  <2>2. Len(s.queue[0]) \in Nat
    BY DEF Sched, Levels
  <2> QED
    BY <2>1, <2>2, SchedulerAssumption
<1>5. r \in Sched
  BY AddType
<1>6. r = [s EXCEPT !.queue[l] = queue_push(@, t),
                    !.level[t] = IF s.mode = "RR" THEN @ ELSE l,
                    !.state[t] = "READY"]
  BY <1>3, <1>4 DEF scheduler_add
<1>7. /\ r.queue = [s.queue EXCEPT ![l] = Append(@, t)]
      /\ r.state = [s.state EXCEPT ![t] = "READY"]
      /\ r.level = [s.level EXCEPT ![t] = IF s.mode = "RR" THEN @ ELSE l]
      /\ r.mode = s.mode
      /\ r.current = s.current /\ r.current_queue = s.current_queue
  BY <1>3, <1>6 DEF Sched
<1>8. s.mode = "RR" => l = 0
  OBVIOUS
<1> HIDE DEF r, l
<1>9. /\ Disjoint(r.queue)
      /\ \A u \in Threads : Holds(r.queue, u) <=> Holds(s.queue, u) \/ u = t
  BY <1>1, <1>2, <1>7, EnterQueue
<1>10. /\ r.state[t] = "READY"
       /\ \A u \in Threads : u # t => r.state[u] = q.state[u] /\ r.level[u] = s.level[u]
       /\ s.mode = "MLFQ" => r.level[t] = l
  BY <1>7 DEF Sched
<1>11. \A m \in Levels :
         /\ Len(s.queue[m]) \in Nat
         /\ Len(r.queue[m]) = IF m = l THEN Len(s.queue[m]) + 1 ELSE Len(s.queue[m])
         /\ \A i \in 1..Len(r.queue[m]) :
              r.queue[m][i] = IF m = l /\ i = Len(s.queue[m]) + 1 THEN t ELSE s.queue[m][i]
  BY <1>1, <1>7 DEF Queues
<1>12. QueuedAtLevel(r)
  <2>1. ASSUME r.mode = "RR" PROVE Len(r.queue[1]) = 0 /\ Len(r.queue[2]) = 0
    BY <1>7, <1>8, <1>11, <2>1 DEF Settled, QueuedAtLevel, Levels
  <2>2. ASSUME r.mode = "MLFQ", NEW m \in Levels, NEW i \in 1..Len(r.queue[m])
        PROVE  r.level[r.queue[m][i]] = m
    <3>2. CASE m = l /\ i = Len(s.queue[m]) + 1
      BY <1>7, <1>10, <1>11, <2>2, <3>2
    <3>3. CASE ~ (m = l /\ i = Len(s.queue[m]) + 1)
      <4>1. i \in 1..Len(s.queue[m]) /\ r.queue[m][i] = s.queue[m][i]
        BY <1>11, <3>3
      <4>2. s.queue[m][i] \in Threads /\ s.queue[m][i] # t
        BY <1>1, <4>1 DEF Queues, Holds, Contains
      <4>3. s.level[s.queue[m][i]] = m
        BY <1>7, <2>2, <4>1 DEF Settled, QueuedAtLevel
      <4> QED
        BY <1>10, <4>1, <4>2, <4>3
    <3> QED
      BY <3>2, <3>3
  <2> QED
    BY <2>1, <2>2 DEF QueuedAtLevel
<1>13. \A u \in Threads :
         /\ r.state[u] = "RUNNING" => u = r.current
         /\ u \in B /\ r.state[u] = "READY" => Holds(r.queue, u)
         /\ Holds(r.queue, u) => u \in B /\ r.state[u] \in {"READY", "DONE"}
         /\ u \notin B => r.state[u] = "READY"
  BY <1>7, <1>9, <1>10 DEF Settled
<1>14. r.current # NoThread =>
         /\ r.current \in B
         /\ ~ Holds(r.queue, r.current)
         /\ r.state[r.current] # "BLOCKED"
         /\ r.mode = "MLFQ" => r.level[r.current] = r.current_queue
  <2> SUFFICES ASSUME r.current # NoThread
               PROVE  /\ r.current \in B
                      /\ ~ Holds(r.queue, r.current)
                      /\ r.state[r.current] # "BLOCKED"
                      /\ r.mode = "MLFQ" => r.level[r.current] = r.current_queue
    OBVIOUS
  <2>1. r.current \in Threads /\ r.current # t /\ r.current = q.current
    BY <1>7 DEF Sched
  <2> QED
    BY <1>7, <1>9, <1>10, <2>1 DEF Settled
<1> QED
  BY <1>5, <1>7, <1>9, <1>12, <1>13, <1>14 DEF Settled, r

LEMMA ArriveSettles ==
    ASSUME NEW s, NEW A \in SUBSET Threads, Settled(s, A), NEW t \in Threads, t \notin A
    PROVE  Settled(scheduler_add(s, t), A \cup {t})
<1>1. s \in Sched /\ ~ Holds(s.queue, t) /\ s.current # t
  BY SchedulerAssumption DEF Settled
<1> QED
  BY <1>1, AddSettles

LEMMA UnblockSettles ==
    ASSUME NEW s, NEW A \in SUBSET Threads, Settled(s, A),
           NEW t \in Threads, s.state[t] = "BLOCKED"
    PROVE  Settled(scheduler_unblock(thread_unblock(s, t), t), A)
<1> DEFINE r == thread_unblock(s, t)
<1>1. s \in Sched /\ ~ Holds(s.queue, t) /\ s.current # t /\ t \in A
  BY SchedulerAssumption DEF Settled
<1>2. r = [s EXCEPT !.state[t] = "READY"]
  BY DEF thread_unblock
<1>3. r \in Sched
  BY <1>1 DEF thread_unblock, Sched, ThreadStates
<1>4. /\ s.queue = r.queue /\ s.mode = r.mode /\ s.level = r.level
      /\ s.current = r.current /\ s.current_queue = r.current_queue
      /\ \A u \in Threads \ {t} : s.state[u] = r.state[u]
  BY <1>1, <1>2 DEF Sched
<1> HIDE DEF r
<1>5. Settled(scheduler_add(r, t), A)
  <2>1. A = A \cup {t} /\ ~ Holds(r.queue, t) /\ r.current # t
    BY <1>1, <1>4
  <2> QED
    BY <1>3, <1>4, <2>1, AddSettles
<1> QED
  BY <1>5 DEF scheduler_unblock, r

\* The thread that runs stops running: what is left needs no queue.
LEMMA LeaveCPU ==
    ASSUME NEW s, NEW A \in SUBSET Threads, Settled(s, A),
           s.current # NoThread, NEW r \in Sched,
           r.queue = s.queue, r.mode = s.mode, r.current = NoThread,
           r.current_queue = s.current_queue,
           r.state[s.current] \in {"BLOCKED", "DONE"},
           \A u \in Threads : u # s.current =>
                r.state[u] = s.state[u] /\ r.level[u] = s.level[u]
    PROVE  Settled(r, A)
<1>1. s.current \in A /\ ~ Holds(s.queue, s.current) /\ s.queue \in Queues
  BY DEF Settled, Sched, Queues
<1>2. ASSUME NEW l \in Levels, NEW i \in 1..Len(s.queue[l])
      PROVE  s.queue[l][i] \in Threads /\ s.queue[l][i] # s.current
  BY <1>1 DEF Holds, Contains, Queues
<1>3. QueuedAtLevel(r)
  BY <1>2 DEF Settled, QueuedAtLevel
<1>4. \A u \in Threads :
        /\ r.state[u] # "RUNNING"
        /\ u \in A /\ r.state[u] = "READY" => Holds(r.queue, u)
        /\ Holds(r.queue, u) => u \in A /\ r.state[u] \in {"READY", "DONE"}
        /\ u \notin A => r.state[u] = "READY"
  BY <1>1 DEF Settled
<1> QED
  BY <1>3, <1>4 DEF Settled

\* A thread that blocks itself leaves the CPU and is in no queue; somebody else
\* may be taken.
LEMMA BlockTakes ==
    ASSUME NEW s, NEW A \in SUBSET Threads, Settled(s, A),
           NEW t \in Threads, t = s.current, s.state[t] = "RUNNING"
    PROVE  \E p :
             /\ Settled(p, A) /\ p.current = NoThread
             /\ p.mode = s.mode /\ p.queue = s.queue
             /\ p.state[t] = "BLOCKED" /\ \A u \in Threads : u # t => p.state[u] = s.state[u]
             /\ scheduler_block(thread_block(s, t), t) = scheduler_next(p)
<1> DEFINE b == thread_block(s, t)
           r == [b EXCEPT !.level[t] = IF b.mode = "RR" THEN @ ELSE b.current_queue,
                          !.current = NoThread]
<1>1. s \in Sched /\ t # NoThread /\ s.current_queue \in -1..2
  BY SchedulerAssumption DEF Settled, Sched, Levels
<1>2. /\ b.state = [s.state EXCEPT ![t] = "BLOCKED"]
      /\ b.queue = s.queue /\ b.mode = s.mode /\ b.current = t
      /\ b.current_queue = s.current_queue /\ b.level = s.level
  BY <1>1 DEF thread_block, Sched
<1>3. r \in Sched
  BY <1>1 DEF thread_block, Sched, ThreadStates
<1>4. /\ r.state = b.state /\ r.queue = b.queue /\ r.mode = b.mode
      /\ r.current = NoThread /\ r.current_queue = b.current_queue
      /\ \A u \in Threads : u # t => r.level[u] = b.level[u]
  BY <1>1 DEF thread_block, Sched
<1>5. scheduler_block(b, t) = scheduler_next(r)
  <2>1. b.state[t] = "BLOCKED"
    BY <1>1, <1>2 DEF Sched
  <2> QED
    BY <1>2, <2>1 DEF scheduler_block
<1> HIDE DEF r, b
<1>6. /\ r.state[t] = "BLOCKED"
      /\ \A u \in Threads : u # t => r.state[u] = s.state[u] /\ r.level[u] = s.level[u]
  BY <1>1, <1>2, <1>4 DEF Sched
<1>7. /\ r.queue = s.queue /\ r.mode = s.mode
      /\ r.current_queue = s.current_queue /\ r.current = NoThread
  BY <1>2, <1>4
<1>8. Settled(r, A)
  <2>1. r.state[s.current] \in {"BLOCKED", "DONE"} /\ s.current # NoThread
    BY <1>1, <1>6
  <2>2. \A u \in Threads : u # s.current =>
            r.state[u] = s.state[u] /\ r.level[u] = s.level[u]
    BY <1>6
  <2> QED
    BY <1>3, <1>7, <2>1, <2>2, LeaveCPU, Zenon
<1>9. scheduler_block(thread_block(s, t), t) = scheduler_next(r)
  BY <1>5 DEF b
<1> QED
  BY <1>6, <1>7, <1>8, <1>9

LEMMA BlockSettles ==
    ASSUME NEW s, NEW A \in SUBSET Threads, Settled(s, A),
           NEW t \in Threads, t = s.current, s.state[t] = "RUNNING"
    PROVE  Settled(scheduler_block(thread_block(s, t), t), A)
BY BlockTakes, NextSettles

LEMMA TerminateSettles ==
    ASSUME NEW s, NEW A \in SUBSET Threads, Settled(s, A),
           NEW t \in Threads, t = s.current
    PROVE  Settled(scheduler_terminate(s, t), A)
<1> DEFINE left == [s EXCEPT !.current = IF @ = t THEN NoThread ELSE @]
           r == [left EXCEPT !.state[t] = "DONE"]
<1>1. s \in Sched /\ t # NoThread /\ ~ Holds(s.queue, t)
  BY SchedulerAssumption DEF Settled
<1>2. left \in Sched /\ left.queue = s.queue
  BY <1>1 DEF Sched
<1>3. RemoveFromQueues(left, t) = left
  BY <1>1, <1>2 DEF RemoveFromQueues, Holds
<1>4. scheduler_terminate(s, t) = r
  BY <1>3 DEF scheduler_terminate
<1>5. r \in Sched
  BY <1>2 DEF Sched, ThreadStates
<1>6. /\ r.queue = s.queue /\ r.mode = s.mode /\ r.level = s.level
      /\ r.current = NoThread /\ r.current_queue = s.current_queue
      /\ r.state[t] = "DONE"
      /\ \A u \in Threads : u # t => r.state[u] = s.state[u]
  BY <1>1 DEF Sched
<1> HIDE DEF r
<1>7. Settled(r, A)
  BY <1>1, <1>5, <1>6, LeaveCPU
<1> QED
  BY <1>4, <1>7

\* cleanup_process leaves the thread where it is, in a queue or on the CPU.
LEMMA KillSettles ==
    ASSUME NEW s, NEW A \in SUBSET Threads, Settled(s, A), NEW t \in A
    PROVE  Settled([s EXCEPT !.state[t] = "DONE"], A)
<1> DEFINE r == [s EXCEPT !.state[t] = "DONE"]
<1>1. s \in Sched
  BY DEF Settled
<1>2. r \in Sched
  BY <1>1 DEF Sched, ThreadStates
<1>3. /\ r.queue = s.queue /\ r.mode = s.mode /\ r.level = s.level
      /\ r.current = s.current /\ r.current_queue = s.current_queue
      /\ r.state[t] = "DONE"
      /\ \A u \in Threads : u # t => r.state[u] = s.state[u]
  BY <1>1 DEF Sched
<1> HIDE DEF r
<1>4. \A u \in Threads :
        /\ r.state[u] = "RUNNING" => u = r.current
        /\ u \in A /\ r.state[u] = "READY" => Holds(r.queue, u)
        /\ Holds(r.queue, u) => u \in A /\ r.state[u] \in {"READY", "DONE"}
        /\ u \notin A => r.state[u] = "READY"
  BY <1>3 DEF Settled
<1>5. QueuedAtLevel(r)
  BY <1>3 DEF Settled, QueuedAtLevel
<1>6. r.current # NoThread =>
        /\ r.current \in A
        /\ ~ Holds(r.queue, r.current)
        /\ r.state[r.current] # "BLOCKED"
        /\ r.mode = "MLFQ" => r.level[r.current] = r.current_queue
  BY <1>3 DEF Settled
<1>7. r.mode = "RR" => r.current_queue = 0
  BY <1>3 DEF Settled
<1>8. Disjoint(r.queue)
  BY <1>3 DEF Settled
<1>9. Settled(r, A)
  BY <1>2, <1>4, <1>5, <1>6, <1>7, <1>8 DEF Settled
<1> QED
  BY <1>9 DEF r

\* cleanup_process writes T_DONE into all the threads of a process, and none of
\* them counts as not yet arrived afterwards.
LEMMA BurySettles ==
    ASSUME NEW s, NEW A \in SUBSET Threads, Settled(s, A), NEW D \in SUBSET Threads
    PROVE  Settled([s EXCEPT !.state = [t \in Threads |-> IF t \in D THEN "DONE" ELSE @[t]]],
                   A \cup D)
<1> DEFINE states == [t \in Threads |-> IF t \in D THEN "DONE" ELSE s.state[t]]
           r == [s EXCEPT !.state = states]
<1>1. s \in Sched
  BY DEF Settled
<1>2. states \in [Threads -> ThreadStates]
  BY <1>1 DEF Sched, ThreadStates
<1>3. \A t \in Threads : states[t] = IF t \in D THEN "DONE" ELSE s.state[t]
  OBVIOUS
<1> HIDE DEF states
<1>4. /\ r \in Sched /\ r.state = states
      /\ r.queue = s.queue /\ r.mode = s.mode /\ r.level = s.level
      /\ r.current = s.current /\ r.current_queue = s.current_queue
  BY <1>1, <1>2 DEF Sched
<1> HIDE DEF r
<1>5. \A u \in Threads :
        /\ r.state[u] = "RUNNING" => u = r.current
        /\ u \in A \cup D /\ r.state[u] = "READY" => Holds(r.queue, u)
        /\ Holds(r.queue, u) => u \in A \cup D /\ r.state[u] \in {"READY", "DONE"}
        /\ u \notin A \cup D => r.state[u] = "READY"
  BY <1>3, <1>4 DEF Settled
<1>6. QueuedAtLevel(r) /\ Disjoint(r.queue)
  BY <1>4 DEF Settled, QueuedAtLevel
<1>7. r.current # NoThread =>
        /\ r.current \in A \cup D
        /\ ~ Holds(r.queue, r.current)
        /\ r.state[r.current] # "BLOCKED"
        /\ r.mode = "MLFQ" => r.level[r.current] = r.current_queue
  BY <1>3, <1>4 DEF Settled
<1>8. r.mode = "RR" => r.current_queue = 0
  BY <1>4 DEF Settled
<1>9. Settled(r, A \cup D)
  BY <1>4, <1>5, <1>6, <1>7, <1>8 DEF Settled
<1> QED
  BY <1>9 DEF r, states

\* A running thread whose quantum ends goes one level down and waits there.
LEMMA DemoteIdles ==
    ASSUME NEW s, NEW A \in SUBSET Threads, Settled(s, A), s.current # NoThread,
           s.mode = "MLFQ", s.state[s.current] = "RUNNING"
    PROVE  Idle(Demote(s), A) /\ HasReady(Demote(s)) /\ Requeue(Demote(s)) = Demote(s)
<1> DEFINE t == s.current
           l == IF s.current_queue + 1 > 2 THEN 2 ELSE s.current_queue + 1
           d == Demote(s)
<1>1. s \in Sched /\ s.queue \in Queues /\ Disjoint(s.queue)
  BY DEF Settled, Sched, Queues
<1>2. t \in Threads /\ ~ Holds(s.queue, t)
  BY SettledCurrent
<1>3. l \in Levels
  BY <1>1 DEF Sched, Levels
<1>4. queue_push(s.queue[l], t) = Append(s.queue[l], t)
  BY <1>1, <1>2, <1>3, PushAppends
<1>5. d \in Sched
  BY <1>1, DemoteType
<1>6. /\ d.queue = [s.queue EXCEPT ![l] = Append(@, t)]
      /\ d.state = [s.state EXCEPT ![t] = "READY"]
      /\ d.level = [s.level EXCEPT ![t] = l]
      /\ d.mode = s.mode /\ d.current = t
  BY <1>1, <1>2, <1>4 DEF Demote, thread_yield, Sched
<1>7. IsPutBack(d, s, s.current, l)
  BY <1>5, <1>6 DEF IsPutBack
<1> HIDE DEF d, l
<1>8. Idle(d, A) /\ HasReady(d)
  BY <1>3, <1>7, PutBack
<1>9. d.state[d.current] = "READY"
  BY <1>1, <1>2, <1>6 DEF Sched
<1> QED
  BY <1>8, <1>9 DEF Requeue, d

LEMMA DemoteSettles ==
    ASSUME NEW s, NEW A \in SUBSET Threads, Settled(s, A), s.current # NoThread
    PROVE  Settled(scheduler_next(Demote(s)), A)
<1>1. CASE ~ (s.mode = "MLFQ" /\ s.state[s.current] = "RUNNING")
  BY <1>1, NextSettles DEF Demote
<1>2. CASE s.mode = "MLFQ" /\ s.state[s.current] = "RUNNING"
  BY <1>2, DemoteIdles, TakeChosen DEF scheduler_next
<1> QED
  BY <1>1, <1>2

LEMMA BoostSettles ==
    ASSUME NEW s, NEW A \in SUBSET Threads, Settled(s, A), s.mode = "MLFQ"
    PROVE  Settled(scheduler_priority_boost(s), A)
<1> DEFINE Q == s.queue
           moved == ToSet(s.queue[1]) \cup ToSet(s.queue[2])
           r == scheduler_priority_boost(s)
           R == r.queue
<1>1. s \in Sched /\ Q \in Queues /\ Disjoint(Q)
  BY DEF Settled, Sched, Queues
<1>2. r \in Sched
  BY <1>1, BoostType
<1>3. /\ R = [l \in Levels |-> IF l = 0 THEN Q[0] \o Q[1] \o Q[2] ELSE << >>]
      /\ r.level = [t \in Threads |-> IF t \in moved THEN 0 ELSE s.level[t]]
      /\ r.state = s.state /\ r.mode = s.mode
      /\ r.current = s.current /\ r.current_queue = s.current_queue
  BY <1>1 DEF scheduler_priority_boost, Sched
<1>4. /\ 0 \in Levels /\ 1 \in Levels /\ 2 \in Levels
      /\ \A l \in Levels : l = 0 \/ l = 1 \/ l = 2
  BY DEF Levels
<1>5. Q[0] \in Seq(Threads) /\ Q[1] \in Seq(Threads) /\ Q[2] \in Seq(Threads)
  BY <1>1, <1>4 DEF Queues
<1>6. moved = {u \in Threads : \/ \E i \in 1..Len(Q[1]) : Q[1][i] = u
                               \/ \E i \in 1..Len(Q[2]) : Q[2][i] = u}
  <2>1. ASSUME NEW q \in Seq(Threads)
        PROVE  ToSet(q) = {u \in Threads : \E i \in 1..Len(q) : q[i] = u}
    BY DEF ToSet
  <2>2. /\ ToSet(Q[1]) = {u \in Threads : \E i \in 1..Len(Q[1]) : Q[1][i] = u}
        /\ ToSet(Q[2]) = {u \in Threads : \E i \in 1..Len(Q[2]) : Q[2][i] = u}
    BY <1>5, <2>1
  <2> HIDE DEF Q
  <2> QED
    BY <2>2 DEF Q
<1> HIDE DEF r, moved
<1>7. R \in Queues
  BY <1>2 DEF Sched, Queues
<1>8. R[0] = Q[0] \o Q[1] \o Q[2] /\ Len(R[1]) = 0 /\ Len(R[2]) = 0
  BY <1>3, <1>4
<1> HIDE DEF Q, R
<1>9. Merges(R[0], Q[0], Q[1], Q[2])
  BY <1>5, <1>8, ConcatThree
<1>10. /\ Disjoint(R)
       /\ \A u \in Threads : Holds(R, u) <=> Holds(Q, u)
       /\ \A i \in 1..Len(R[0]) :
            \/ \E j \in 1..Len(Q[0]) : R[0][i] = Q[0][j]
            \/ \E j \in 1..Len(Q[1]) : R[0][i] = Q[1][j]
            \/ \E j \in 1..Len(Q[2]) : R[0][i] = Q[2][j]
  BY <1>1, <1>7, <1>8, <1>9, MergeQueues
<1>11. \A l \in Levels : \A i \in 1..Len(Q[l]) : s.level[Q[l][i]] = l
  BY DEF Settled, QueuedAtLevel, Q
<1>12. ASSUME NEW i \in 1..Len(R[0]) PROVE r.level[R[0][i]] = 0
  <2>1. R[0][i] \in Threads
    BY <1>4, <1>7 DEF Queues
  <2>2. CASE R[0][i] \in moved
    BY <1>3, <2>1, <2>2
  <2>3. CASE R[0][i] \notin moved
    <3>1. \E j \in 1..Len(Q[0]) : R[0][i] = Q[0][j]
      BY <1>6, <1>10, <2>1, <2>3
    <3>2. s.level[R[0][i]] = 0
      BY <1>4, <1>11, <3>1
    <3> QED
      BY <1>3, <2>1, <2>3, <3>2
  <2> QED
    BY <2>2, <2>3
<1>13. QueuedAtLevel(r)
  BY <1>3, <1>4, <1>8, <1>12 DEF QueuedAtLevel, R
<1>14. s.current # NoThread => s.current \in Threads /\ s.current \notin moved
  <2> SUFFICES ASSUME s.current # NoThread
               PROVE  s.current \in Threads /\ s.current \notin moved
    OBVIOUS
  <2>1. s.current \in Threads /\ ~ Holds(Q, s.current)
    BY SettledCurrent DEF Q
  <2> QED
    BY <1>4, <1>6, <2>1 DEF Holds, Contains
<1>15. \A u \in Threads :
         /\ r.state[u] = "RUNNING" => u = r.current
         /\ u \in A /\ r.state[u] = "READY" => Holds(R, u)
         /\ Holds(R, u) => u \in A /\ r.state[u] \in {"READY", "DONE"}
         /\ u \notin A => r.state[u] = "READY"
  BY <1>3, <1>10 DEF Settled, Q
<1>16. r.current # NoThread =>
         /\ r.current \in A
         /\ ~ Holds(R, r.current)
         /\ r.state[r.current] # "BLOCKED"
         /\ r.mode = "MLFQ" => r.level[r.current] = r.current_queue
  <2> SUFFICES ASSUME s.current # NoThread
               PROVE  /\ s.current \in A
                      /\ ~ Holds(R, s.current)
                      /\ s.state[s.current] # "BLOCKED"
                      /\ r.level[s.current] = s.current_queue
    BY <1>3
  <2>1. /\ s.current \in A /\ ~ Holds(Q, s.current)
        /\ s.state[s.current] # "BLOCKED"
        /\ s.level[s.current] = s.current_queue
    BY DEF Settled, Q
  <2>2. r.level[s.current] = s.level[s.current]
    BY <1>3, <1>14
  <2> QED
    BY <1>10, <1>14, <2>1, <2>2
<1> QED
  BY <1>2, <1>3, <1>10, <1>13, <1>15, <1>16 DEF Settled, r, R

\* The clocks are no part of what is settled.
LEMMA ClockSettles ==
    ASSUME NEW s, NEW A \in SUBSET Threads, Settled(s, A)
    PROVE  /\ Settled(Age(s), A) /\ Age(s).mode = s.mode
           /\ Settled(CountDown(s), A) /\ CountDown(s).mode = s.mode
<1>1. s \in Sched
  BY DEF Settled
<1>2. ASSUME NEW r \in Sched,
             r.mode = s.mode, r.state = s.state, r.level = s.level,
             r.queue = s.queue, r.current = s.current,
             r.current_queue = s.current_queue
      PROVE  Settled(r, A)
  BY <1>2 DEF Settled, QueuedAtLevel
<1>3. /\ Age(s) \in Sched
      /\ Age(s).mode = s.mode /\ Age(s).state = s.state /\ Age(s).level = s.level
      /\ Age(s).queue = s.queue /\ Age(s).current = s.current
      /\ Age(s).current_queue = s.current_queue
  <2> DEFINE age == IF s.mode = "MLFQ" THEN s.boost_age + 1 ELSE s.boost_age
  <2>1. Age(s) = [s EXCEPT !.boost_age = age]
    BY DEF Age
  <2> HIDE DEF age
  <2> QED
    BY <1>1, <2>1, ClockType DEF Sched
<1>4. /\ CountDown(s) \in Sched
      /\ CountDown(s).mode = s.mode /\ CountDown(s).state = s.state
      /\ CountDown(s).level = s.level /\ CountDown(s).queue = s.queue
      /\ CountDown(s).current = s.current
      /\ CountDown(s).current_queue = s.current_queue
  <2> DEFINE left == IF s.quantum > 0 THEN s.quantum - 1 ELSE 0
  <2>1. CountDown(s) = [s EXCEPT !.quantum = left]
    BY DEF CountDown
  <2> HIDE DEF left
  <2> QED
    BY <1>1, <2>1, ClockType DEF Sched
<1> QED
  BY <1>2, <1>3, <1>4

LEMMA ModeIsKept ==
    ASSUME NEW s \in Sched
    PROVE  /\ scheduler_next(s).mode = s.mode
           /\ s.current # NoThread => Demote(s).mode = s.mode
<1>1. Requeue(s).mode = s.mode
  BY DEF Requeue, thread_yield, Sched
<1>2. Requeue(s) \in Sched
  BY RequeueType
<1>3. scheduler_next(s).mode = s.mode
  <2>1. ASSUME NEW r \in Sched, NEW l PROVE Take(r, l).mode = r.mode
    BY DEF Take, Sched
  <2> QED
    BY <1>1, <1>2, <2>1 DEF scheduler_next
<1>4. ASSUME s.current # NoThread PROVE Demote(s).mode = s.mode
  BY DEF Demote, thread_yield, Sched
<1> QED
  BY <1>3, <1>4

LEMMA TickSettles ==
    ASSUME NEW s, NEW A \in SUBSET Threads, Settled(s, A)
    PROVE  Settled(scheduler_tick(s), A)
<1> DEFINE aged == Age(s)
           spent == CountDown(aged)
           after == CASE s.current = NoThread -> scheduler_next(aged)
                      [] s.current # NoThread /\ spent.quantum = 0 ->
                               scheduler_next(Demote(spent))
                      [] s.current # NoThread /\ spent.quantum # 0 -> spent
<1>1. /\ Settled(aged, A) /\ aged.mode = s.mode
      /\ Settled(spent, A) /\ spent.mode = s.mode
  BY ClockSettles
<1>2. spent \in Sched /\ aged \in Sched /\ spent.current = s.current
  <2>1. s \in Sched
    BY DEF Settled
  <2> QED
    BY <2>1, ClockType
<1>3. Settled(after, A) /\ after.mode = s.mode
  <2>1. CASE s.current = NoThread
    BY <1>1, <1>2, <2>1, NextSettles, ModeIsKept
  <2>2. CASE s.current # NoThread /\ spent.quantum = 0
    <3>1. after = scheduler_next(Demote(spent))
      BY <2>2
    <3>2. Demote(spent) \in Sched /\ Demote(spent).mode = s.mode
      BY <1>1, <1>2, <2>2, DemoteType, ModeIsKept
    <3> QED
      BY <1>1, <1>2, <2>2, <3>1, <3>2, DemoteSettles, ModeIsKept
  <2>3. CASE s.current # NoThread /\ spent.quantum # 0
    BY <1>1, <2>3
  <2> QED
    BY <2>1, <2>2, <2>3
<1>4. scheduler_tick(s) = IF s.mode = "MLFQ" /\ aged.boost_age >= BoostInterval
                          THEN scheduler_priority_boost(after)
                          ELSE after
  BY DEF scheduler_tick
<1> QED
  BY <1>3, <1>4, BoostSettles

-----------------------------------------------------------------------------
LEMMA InitSettles ==
    ASSUME NEW mode \in {"RR", "MLFQ"}
    PROVE  Settled(scheduler_init(mode), {})
<1> DEFINE s == scheduler_init(mode)
<1>1. s \in Sched
  BY SchedulerAssumption DEF scheduler_init, Sched, ThreadStates, Levels
<1>2. /\ s.queue = [l \in Levels |-> << >>]
      /\ s.state = [t \in Threads |-> "READY"]
      /\ s.current = NoThread /\ s.current_queue = 0
  BY DEF scheduler_init
<1> HIDE DEF s
<1>3. \A l \in Levels : Len(s.queue[l]) = 0
  BY <1>2
<1>4. Disjoint(s.queue) /\ QueuedAtLevel(s) /\ \A t : ~ Holds(s.queue, t)
  BY <1>3 DEF Disjoint, QueuedAtLevel, Holds, Contains, Levels
<1>5. Settled(s, {})
  BY <1>1, <1>2, <1>4 DEF Settled
<1> QED
  BY <1>5 DEF s

IInv == arrived \in SUBSET Threads /\ Settled(sched, arrived)

\* The inductive invariant: every call leaves the queues, the states and the
\* current thread settled.
THEOREM StaysSettled == Spec => []IInv
<1>1. Init => IInv
  <2> SUFFICES ASSUME Init PROVE IInv
    OBVIOUS
  <2>1. PICK mode \in {"RR", "MLFQ"} : sched = scheduler_init(mode)
    BY DEF Init
  <2> QED
    BY <2>1, InitSettles DEF Init, IInv
<1>2. IInv /\ [Next]_vars => IInv'
  <2> SUFFICES ASSUME IInv, [Next]_vars PROVE IInv'
    OBVIOUS
  <2> USE DEF IInv
  <2>1. ASSUME NEW t \in Threads, Arrive(t) PROVE IInv'
    BY <2>1, ArriveSettles DEF Arrive
  <2>2. ASSUME NEW t \in Threads, Unblock(t) PROVE IInv'
    BY <2>2, UnblockSettles DEF Unblock
  <2>3. CASE Dispatch
    BY <2>3, NextSettles DEF Dispatch
  <2>4. CASE Compute
    BY <2>4 DEF Compute
  <2>5. ASSUME NEW t \in Threads, BlockCurrent(t) PROVE IInv'
    BY <2>5, BlockSettles DEF BlockCurrent, Runs
  <2>6. ASSUME NEW t \in Threads, Terminate(t) PROVE IInv'
    BY <2>6, TerminateSettles DEF Terminate, Runs
  <2>7. ASSUME NEW t \in Threads, Kill(t) PROVE IInv'
    BY <2>7, KillSettles DEF Kill
  <2>8. ASSUME NEW t \in Threads, PageFault(t) PROVE IInv'
    BY <2>8, BlockSettles DEF PageFault, Runs
  <2>9. CASE NoPageFault
    BY <2>9 DEF NoPageFault
  <2>10. CASE Tick
    BY <2>10, TickSettles DEF Tick
  <2>11. CASE UNCHANGED vars
    BY <2>11 DEF vars
  <2> QED
    BY <2>1, <2>2, <2>3, <2>4, <2>5, <2>6, <2>7, <2>8, <2>9, <2>10, <2>11 DEF Next, Calls
<1> QED
  BY <1>1, <1>2, PTL DEF Spec

\* What it means, for this scheduler and for any that keeps it.
LEMMA SettledMeans ==
    IInv => QueuesAreDisjoint /\ OneThreadRuns /\ NoThreadIsLost /\ LevelsMatchQueues
<1>1. IInv => QueuesAreDisjoint
  BY DEF IInv, Settled, Disjoint, QueuesAreDisjoint
<1>2. IInv => OneThreadRuns
  BY DEF IInv, Settled, Holds, OneThreadRuns
<1>3. IInv => NoThreadIsLost
  <2> SUFFICES ASSUME IInv PROVE NoThreadIsLost
    OBVIOUS
  <2>1. \A t \in Threads : sched.state[t] = "BLOCKED" => t # sched.current
    BY SchedulerAssumption DEF IInv, Settled
  <2> QED
    BY <2>1 DEF IInv, Settled, NoThreadIsLost
<1>4. IInv => LevelsMatchQueues
  <2> SUFFICES ASSUME IInv PROVE LevelsMatchQueues
    OBVIOUS
  <2>1. sched \in Sched
    BY DEF IInv, Settled
  <2>2. sched.queue[1] \in Seq(Threads) /\ sched.queue[2] \in Seq(Threads)
    BY <2>1 DEF Sched, Levels
  <2>3. sched.mode = "RR" => sched.queue[1] = << >> /\ sched.queue[2] = << >>
    BY <2>2 DEF IInv, Settled, QueuedAtLevel
  <2> QED
    BY <2>3 DEF IInv, Settled, QueuedAtLevel, LevelsMatchQueues
<1> QED
  BY <1>1, <1>2, <1>3, <1>4

\* No thread is ever queued twice, at one level or at two.
THEOREM QueuesStayDisjoint == Spec => []QueuesAreDisjoint
BY SettledMeans, StaysSettled, PTL

\* At most one thread runs and it waits in no queue, whoever was killed where.
THEOREM OneThreadAtATime == Spec => []OneThreadRuns
BY SettledMeans, StaysSettled, PTL

\* A READY thread that was handed over is in a queue: nothing makes the
\* scheduler forget a thread that could run.
THEOREM NoThreadGetsLost == Spec => []NoThreadIsLost
BY SettledMeans, StaysSettled, PTL

\* The level a thread is queued or running at is the one the code remembers.
THEOREM LevelsStayMatched == Spec => []LevelsMatchQueues
BY SettledMeans, StaysSettled, PTL

-----------------------------------------------------------------------------
(* What one call does to the states and to the order of the queues *)

Before(Q, t, u) ==
    \E l \in Levels : \E i, j \in 1..Len(Q[l]) : i < j /\ Q[l][i] = t /\ Q[l][j] = u

\* Nothing queued in Q has been overtaken in R, or left it.
KeepsOrder(Q, R) == \A t, u \in Threads : Before(Q, t, u) => Before(R, t, u)

\* Nothing queued in Q has been overtaken in R by what stood behind it.
InOrder(Q, R) ==
    \A t, u \in Threads : Before(Q, t, u) => Before(R, t, u) \/ ~ Holds(R, t)

\* R is Q after t was pushed, or appended unasked as Requeue does it.
Pushed(R, Q, l, t) ==
    R \in {[Q EXCEPT ![l] = queue_push(@, t)], [Q EXCEPT ![l] = Append(@, t)]}

LEMMA PushTouches ==
    ASSUME NEW Q \in Queues, NEW l \in Levels, NEW t \in Threads,
           NEW R, Pushed(R, Q, l, t)
    PROVE  /\ KeepsOrder(Q, R)
           /\ \A u \in Threads : Holds(R, u) => Holds(Q, u) \/ u = t
<1>1. R = Q \/ R = [Q EXCEPT ![l] = Append(@, t)]
  BY DEF Pushed, queue_push, Queues
<1>2. CASE R = Q
  BY <1>2 DEF KeepsOrder
<1>3. CASE R = [Q EXCEPT ![l] = Append(@, t)]
  <2>1. Q[l] \in Seq(Threads)
    BY DEF Queues
  <2>2. \A m \in Levels :
          /\ Len(Q[m]) \in Nat /\ Len(R[m]) \in Nat /\ Len(Q[m]) <= Len(R[m])
          /\ \A i \in 1..Len(Q[m]) : i \in 1..Len(R[m]) /\ R[m][i] = Q[m][i]
          /\ \A i \in 1..Len(R[m]) : i \in 1..Len(Q[m]) \/ R[m][i] = t
    BY <1>3, <2>1 DEF Queues
  <2>3. KeepsOrder(Q, R)
    BY <2>2 DEF KeepsOrder, Before
  <2>4. ASSUME NEW u \in Threads, Holds(R, u), u # t PROVE Holds(Q, u)
    BY <2>2, <2>4 DEF Holds, Contains
  <2> QED
    BY <2>3, <2>4
<1> QED
  BY <1>1, <1>2, <1>3

LEMMA TailInOrder ==
    ASSUME NEW Q \in Queues, Disjoint(Q), NEW l \in Levels, Q[l] # << >>,
           NEW R, R = [Q EXCEPT ![l] = Tail(@)]
    PROVE  InOrder(Q, R)
<1> DEFINE h == Head(Q[l])
<1>1. Q[l] \in Seq(Threads) /\ Len(Q[l]) \in Nat \ {0} /\ Q[l][1] = h
  BY DEF Queues
<1>2. \A m \in Levels :
        /\ Len(Q[m]) \in Nat
        /\ Len(R[m]) = IF m = l THEN Len(Q[m]) - 1 ELSE Len(Q[m])
        /\ \A i \in 1..Len(R[m]) : R[m][i] = IF m = l THEN Q[m][i + 1] ELSE Q[m][i]
  BY <1>1, HeadTailProperties DEF Queues
<1> SUFFICES ASSUME NEW t \in Threads, NEW u \in Threads, Before(Q, t, u)
             PROVE  Before(R, t, u) \/ ~ Holds(R, t)
  BY DEF InOrder
<1>3. CASE t = h
  BY <1>3, LeaveQueue
<1>4. CASE t # h
  <2>1. PICK m \in Levels : \E i, j \in 1..Len(Q[m]) : i < j /\ Q[m][i] = t /\ Q[m][j] = u
    BY DEF Before
  <2>2. PICK i \in 1..Len(Q[m]), j \in 1..Len(Q[m]) : i < j /\ Q[m][i] = t /\ Q[m][j] = u
    BY <2>1
  <2>3. m = l => i # 1
    BY <1>1, <1>4, <2>2
  <2> DEFINE a == IF m = l THEN i - 1 ELSE i
             b == IF m = l THEN j - 1 ELSE j
  <2>4. a \in 1..Len(R[m]) /\ b \in 1..Len(R[m]) /\ a < b /\ R[m][a] = t /\ R[m][b] = u
    BY <1>2, <2>2, <2>3
  <2> QED
    BY <2>4 DEF Before
<1> QED
  BY <1>3, <1>4

\* r is a, b and c one after the other.
Places(r, a, b, c) ==
    /\ Len(a) \in Nat /\ Len(b) \in Nat /\ Len(c) \in Nat
    /\ Len(r) = Len(a) + Len(b) + Len(c)
    /\ \A i \in 1..Len(a) : r[i] = a[i]
    /\ \A i \in 1..Len(b) : r[Len(a) + i] = b[i]
    /\ \A i \in 1..Len(c) : r[Len(a) + Len(b) + i] = c[i]

LEMMA ConcatPlaces ==
    ASSUME NEW a \in Seq(Threads), NEW b \in Seq(Threads), NEW c \in Seq(Threads)
    PROVE  Places(a \o b \o c, a, b, c)
<1> DEFINE ab == a \o b
           r == ab \o c
<1>1. Len(a) \in Nat /\ Len(b) \in Nat /\ Len(c) \in Nat
  OBVIOUS
<1>2. /\ ab \in Seq(Threads)
      /\ Len(ab) = Len(a) + Len(b)
      /\ \A i \in 1..Len(ab) : ab[i] = IF i <= Len(a) THEN a[i] ELSE b[i - Len(a)]
  OBVIOUS
<1> HIDE DEF ab
<1>3. /\ r \in Seq(Threads)
      /\ Len(r) = Len(ab) + Len(c)
      /\ \A i \in 1..Len(r) : r[i] = IF i <= Len(ab) THEN ab[i] ELSE c[i - Len(ab)]
  BY <1>2
<1> HIDE DEF r
<1>4. ASSUME NEW i \in 1..Len(a) PROVE r[i] = a[i]
  BY <1>1, <1>2, <1>3
<1>5. ASSUME NEW i \in 1..Len(b) PROVE r[Len(a) + i] = b[i]
  BY <1>1, <1>2, <1>3
<1>6. ASSUME NEW i \in 1..Len(c) PROVE r[Len(a) + Len(b) + i] = c[i]
  <2>1. /\ Len(ab) + i \in 1..Len(r)
        /\ ~ (Len(ab) + i <= Len(ab))
        /\ (Len(ab) + i) - Len(ab) = i
    BY <1>1, <1>2, <1>3
  <2> QED
    BY <1>2, <1>3, <2>1
<1>7. Places(r, a, b, c)
  BY <1>1, <1>2, <1>3, <1>4, <1>5, <1>6 DEF Places
<1> QED
  BY <1>7 DEF r, ab

LEMMA MergeKeepsOrder ==
    ASSUME NEW Q \in Queues, Disjoint(Q), NEW R \in Queues,
           R[0] = Q[0] \o Q[1] \o Q[2], Len(R[1]) = 0, Len(R[2]) = 0
    PROVE  KeepsOrder(Q, R) /\ \A u \in Threads : Holds(R, u) <=> Holds(Q, u)
<1>4. /\ 0 \in Levels /\ 1 \in Levels /\ 2 \in Levels
      /\ \A l \in Levels : l = 0 \/ l = 1 \/ l = 2
  BY DEF Levels
<1>5. Q[0] \in Seq(Threads) /\ Q[1] \in Seq(Threads) /\ Q[2] \in Seq(Threads)
  BY <1>4 DEF Queues
<1>6. Merges(R[0], Q[0], Q[1], Q[2])
  BY <1>5, ConcatThree
<1>7. \A u \in Threads : Holds(R, u) <=> Holds(Q, u)
  BY <1>6, MergeQueues
<1> DEFINE n == Len(Q[0])
           k == Len(Q[1])
           o == Len(Q[2])
<1>8. /\ n \in Nat /\ k \in Nat /\ o \in Nat /\ Len(R[0]) = n + k + o
      /\ \A i \in 1..n : R[0][i] = Q[0][i]
      /\ \A i \in 1..k : R[0][n + i] = Q[1][i]
      /\ \A i \in 1..o : R[0][n + k + i] = Q[2][i]
  <2>1. Places(R[0], Q[0], Q[1], Q[2])
    BY <1>5, ConcatPlaces
  <2> QED
    BY <2>1 DEF Places
<1> HIDE DEF n, k, o
<1>9. KeepsOrder(Q, R)
  <2> SUFFICES ASSUME NEW t \in Threads, NEW u \in Threads, Before(Q, t, u)
               PROVE  \E i, j \in 1..Len(R[0]) : i < j /\ R[0][i] = t /\ R[0][j] = u
    BY <1>4 DEF KeepsOrder, Before
  <2>1. PICK m \in Levels : \E i, j \in 1..Len(Q[m]) : i < j /\ Q[m][i] = t /\ Q[m][j] = u
    BY DEF Before
  <2>2. PICK i \in 1..Len(Q[m]), j \in 1..Len(Q[m]) : i < j /\ Q[m][i] = t /\ Q[m][j] = u
    BY <2>1
  <2>3. CASE m = 0
    <3>1. i \in 1..n /\ j \in 1..n /\ R[0][i] = t /\ R[0][j] = u
      BY <1>8, <2>2, <2>3 DEF n
    <3>2. i \in 1..Len(R[0]) /\ j \in 1..Len(R[0]) /\ i < j
      BY <1>8, <2>2, <3>1
    <3> QED
      BY <3>1, <3>2
  <2>4. CASE m = 1
    <3>1. i \in 1..k /\ j \in 1..k /\ R[0][n + i] = t /\ R[0][n + j] = u
      BY <1>8, <2>2, <2>4 DEF k
    <3>2. n + i \in 1..Len(R[0]) /\ n + j \in 1..Len(R[0]) /\ n + i < n + j
      BY <1>8, <2>2, <3>1
    <3> QED
      BY <3>1, <3>2
  <2>5. CASE m = 2
    <3>1. i \in 1..o /\ j \in 1..o /\ R[0][n + k + i] = t /\ R[0][n + k + j] = u
      BY <1>8, <2>2, <2>5 DEF o
    <3>2. n + k + i \in 1..Len(R[0]) /\ n + k + j \in 1..Len(R[0]) /\ n + k + i < n + k + j
      BY <1>8, <2>2, <3>1
    <3> QED
      BY <3>1, <3>2
  <2> QED
    BY <1>4, <2>3, <2>4, <2>5
<1> QED
  BY <1>7, <1>9

\* The boost moves threads to queue 0, behind those that are there, and
\* neither the thread that runs nor its quantum.
LEMMA BoostTouches ==
    ASSUME NEW s \in Sched, Disjoint(s.queue), NEW r, r = scheduler_priority_boost(s)
    PROVE  /\ KeepsOrder(s.queue, r.queue)
           /\ \A u \in Threads : Holds(r.queue, u) <=> Holds(s.queue, u)
           /\ r \in Sched
           /\ r.state = s.state /\ r.current = s.current /\ r.quantum = s.quantum
           /\ r.current_queue = s.current_queue /\ r.boost_age = 0
<1>1. /\ r.queue = [l \in Levels |->
                        IF l = 0 THEN s.queue[0] \o s.queue[1] \o s.queue[2] ELSE << >>]
      /\ r.state = s.state /\ r.current = s.current /\ r.quantum = s.quantum
      /\ r.current_queue = s.current_queue /\ r.boost_age = 0
  BY DEF scheduler_priority_boost, Sched
<1>2. r \in Sched
  BY BoostType
<1>3. s.queue \in Queues /\ r.queue \in Queues
  BY <1>2 DEF Sched, Queues
<1>4. /\ r.queue[0] = s.queue[0] \o s.queue[1] \o s.queue[2]
      /\ Len(r.queue[1]) = 0 /\ Len(r.queue[2]) = 0
  <2>1. 0 \in Levels /\ 1 \in Levels /\ 2 \in Levels
    BY DEF Levels
  <2>2. r.queue[1] = << >> /\ r.queue[2] = << >>
    BY <1>1, <2>1
  <2> QED
    BY <1>1, <2>1, <2>2
<1>5. ASSUME NEW Q, Q = s.queue, NEW R, R = r.queue
      PROVE  KeepsOrder(Q, R) /\ \A u \in Threads : Holds(R, u) <=> Holds(Q, u)
  BY <1>3, <1>4, <1>5, MergeKeepsOrder
<1> QED
  BY <1>1, <1>2, <1>5

\* scheduler_add touches the thread it is given, and the tail of one queue.
LEMMA AddTouches ==
    ASSUME NEW s \in Sched, NEW t \in Threads, NEW r, r = scheduler_add(s, t)
    PROVE  /\ \A u \in Threads : u # t => r.state[u] = s.state[u]
           /\ r.state[t] = s.state[t] \/ r.state[t] = "READY"
           /\ r.current = s.current
           /\ KeepsOrder(s.queue, r.queue)
           /\ \A u \in Threads : Holds(r.queue, u) => Holds(s.queue, u) \/ u = t
<1> DEFINE l == IF s.mode = "RR" THEN 0 ELSE LevelOf(s, t)
<1>1. l \in Levels
  BY LevelOfType DEF Levels
<1>2. CASE r = s
  BY <1>2 DEF KeepsOrder
<1>3. CASE r = [s EXCEPT !.queue[l] = queue_push(@, t),
                         !.level[t] = IF s.mode = "RR" THEN @ ELSE l,
                         !.state[t] = "READY"]
  <2>1. /\ r.state = [s.state EXCEPT ![t] = "READY"]
        /\ r.queue = [s.queue EXCEPT ![l] = queue_push(@, t)]
        /\ r.current = s.current
    BY <1>3 DEF Sched
  <2>2. s.queue \in Queues /\ Pushed(r.queue, s.queue, l, t)
    BY <2>1 DEF Sched, Queues, Pushed
  <2> HIDE DEF l
  <2>3. /\ KeepsOrder(s.queue, r.queue)
        /\ \A u \in Threads : Holds(r.queue, u) => Holds(s.queue, u) \/ u = t
    BY <1>1, <2>1, <2>2, PushTouches
  <2> QED
    BY <2>1, <2>3 DEF Sched
<1> QED
  BY <1>2, <1>3 DEF scheduler_add

\* r is what Take makes of q: the oldest thread of the first queue that is not
\* empty has the CPU.
TakesFrom(r, q) ==
    \E l \in Levels :
        /\ q.queue[l] # << >>
        /\ \A m \in Levels : m < l => q.queue[m] = << >>
        /\ r.queue = [q.queue EXCEPT ![l] = Tail(@)]
        /\ r.state = [q.state EXCEPT ![Head(q.queue[l])] = "RUNNING"]
        /\ r.current = Head(q.queue[l]) /\ r.current \in Threads
        /\ r.current_queue = l
        /\ r.quantum = Quantum(q, l)

\* q is s, or s with its running thread put back into a queue.
Requeued(q, s) ==
    /\ q \in Sched
    /\ q.mode = s.mode /\ q.boost_age = s.boost_age /\ q.current = s.current
    /\ \A u \in Threads : u # s.current => q.state[u] = s.state[u]
    /\ s.current # NoThread => q.state[s.current] \in {s.state[s.current], "READY"}
    /\ s.current # NoThread /\ q.state[s.current] # s.state[s.current]
          => s.state[s.current] = "RUNNING"
    /\ KeepsOrder(s.queue, q.queue)
    /\ \A u \in Threads : Holds(q.queue, u) => Holds(s.queue, u) \/ u = s.current

LEMMA TakeTakes ==
    ASSUME NEW q \in Sched, HasReady(q)
    PROVE  TakesFrom(Take(q, Chosen(q)), q)
<1> DEFINE l == Chosen(q)
           r == Take(q, l)
<1>1. /\ l \in Levels
      /\ q.queue[l] # << >>
      /\ \A m \in Levels : m < l => q.queue[m] = << >>
  BY ChosenType
<1>2. Head(q.queue[l]) \in Threads
  <2>1. q.queue[l] \in Seq(Threads)
    BY <1>1 DEF Sched
  <2> QED
    BY <1>1, <2>1
<1>3. /\ r.queue = [q.queue EXCEPT ![l] = Tail(@)]
      /\ r.state = [q.state EXCEPT ![Head(q.queue[l])] = "RUNNING"]
      /\ r.current = Head(q.queue[l])
      /\ r.current_queue = l
      /\ r.quantum = Quantum(q, l)
  BY DEF Take, Sched
<1> HIDE DEF l, r
<1> QED
  BY <1>1, <1>2, <1>3 DEF TakesFrom, l, r

LEMMA RequeueTouches ==
    ASSUME NEW s \in Sched
    PROVE  Requeued(Requeue(s), s)
<1> DEFINE t == s.current
           l == IF s.mode = "RR" THEN 0 ELSE LevelOf(s, t)
           q == Requeue(s)
<1>1. q \in Sched
  BY RequeueType
<1>2. CASE s.current = NoThread \/ s.state[t] # "RUNNING"
  <2>1. q = s
    BY <1>2 DEF Requeue
  <2> QED
    BY <2>1 DEF Requeued, KeepsOrder
<1>3. CASE s.current # NoThread /\ s.state[t] = "RUNNING"
  <2>1. t \in Threads /\ l \in Levels
    BY <1>3, LevelOfType DEF Sched, Levels
  <2>2. /\ q.state = [s.state EXCEPT ![t] = "READY"]
        /\ q.queue = [s.queue EXCEPT ![l] = IF s.mode = "RR" THEN Append(@, t)
                                            ELSE queue_push(@, t)]
        /\ q.mode = s.mode /\ q.boost_age = s.boost_age /\ q.current = s.current
    BY <1>3, <2>1 DEF Requeue, thread_yield, Sched
  <2>3. s.queue \in Queues /\ Pushed(q.queue, s.queue, l, t)
    BY <2>2 DEF Sched, Queues, Pushed
  <2> HIDE DEF q, l
  <2>4. /\ KeepsOrder(s.queue, q.queue)
        /\ \A u \in Threads : Holds(q.queue, u) => Holds(s.queue, u) \/ u = t
    BY <2>1, <2>2, <2>3, PushTouches
  <2>5. /\ \A u \in Threads : u # t => q.state[u] = s.state[u]
        /\ q.state[t] = "READY"
    BY <2>1, <2>2 DEF Sched
  <2> QED
    BY <1>1, <1>3, <2>2, <2>4, <2>5 DEF Requeued, q
<1> QED
  BY <1>2, <1>3

LEMMA DemoteTouches ==
    ASSUME NEW s \in Sched, s.current # NoThread
    PROVE  Requeued(Demote(s), s)
<1> DEFINE t == s.current
           l == IF s.current_queue + 1 > 2 THEN 2 ELSE s.current_queue + 1
           q == Demote(s)
<1>1. q \in Sched
  BY DemoteType
<1>2. CASE ~ (s.mode = "MLFQ" /\ s.state[t] = "RUNNING")
  <2>1. q = s
    BY <1>2 DEF Demote
  <2> QED
    BY <2>1 DEF Requeued, KeepsOrder
<1>3. CASE s.mode = "MLFQ" /\ s.state[t] = "RUNNING"
  <2>1. t \in Threads /\ l \in Levels
    BY DEF Sched, Levels
  <2>2. /\ q.state = [s.state EXCEPT ![t] = "READY"]
        /\ q.queue = [s.queue EXCEPT ![l] = queue_push(@, t)]
        /\ q.mode = s.mode /\ q.boost_age = s.boost_age /\ q.current = s.current
    BY <1>3, <2>1 DEF Demote, thread_yield, Sched
  <2>3. s.queue \in Queues /\ Pushed(q.queue, s.queue, l, t)
    BY <2>2 DEF Sched, Queues, Pushed
  <2> HIDE DEF q, l
  <2>4. /\ KeepsOrder(s.queue, q.queue)
        /\ \A u \in Threads : Holds(q.queue, u) => Holds(s.queue, u) \/ u = t
    BY <2>1, <2>2, <2>3, PushTouches
  <2>5. /\ \A u \in Threads : u # t => q.state[u] = s.state[u]
        /\ q.state[t] = "READY"
    BY <2>1, <2>2 DEF Sched
  <2> QED
    BY <1>1, <1>3, <2>2, <2>4, <2>5 DEF Requeued, q
<1> QED
  BY <1>2, <1>3

\* scheduler_next leaves everything as it is, with nothing to choose from, or
\* takes a thread from what the current one may have been put back into.
LEMMA NextTakes ==
    ASSUME NEW s, NEW A \in SUBSET Threads, Settled(s, A)
    PROVE  \/ ~ HasReady(s) /\ scheduler_next(s) = s
           \/ \E q : Idle(q, A) /\ Requeued(q, s) /\ TakesFrom(scheduler_next(s), q)
<1>1. s \in Sched
  BY DEF Settled
<1>2. CASE ~ HasReady(s)
  BY <1>2 DEF scheduler_next
<1>3. CASE HasReady(s)
  <2>1. Idle(Requeue(s), A) /\ HasReady(Requeue(s))
    BY <1>3, RequeueIdles
  <2>2. Requeued(Requeue(s), s)
    BY <1>1, RequeueTouches
  <2>3. scheduler_next(s) = Take(Requeue(s), Chosen(Requeue(s)))
    BY <1>3 DEF scheduler_next
  <2>4. TakesFrom(scheduler_next(s), Requeue(s))
    BY <2>1, <2>3, TakeTakes DEF Idle
  <2> QED
    BY <2>1, <2>2, <2>4
<1> QED
  BY <1>2, <1>3

\* The same at the end of a quantum, where the running thread of the feedback
\* queues is put back one level down.
LEMMA DemoteTakes ==
    ASSUME NEW s, NEW A \in SUBSET Threads, Settled(s, A), s.current # NoThread
    PROVE  \/ ~ HasReady(s) /\ scheduler_next(Demote(s)) = s
           \/ \E q : Idle(q, A) /\ Requeued(q, s) /\ TakesFrom(scheduler_next(Demote(s)), q)
<1>1. s \in Sched
  BY DEF Settled
<1>2. CASE ~ (s.mode = "MLFQ" /\ s.state[s.current] = "RUNNING")
  <2>1. Demote(s) = s
    BY <1>2 DEF Demote
  <2> QED
    BY <2>1, NextTakes
<1>3. CASE s.mode = "MLFQ" /\ s.state[s.current] = "RUNNING"
  <2> DEFINE d == Demote(s)
  <2>1. Idle(d, A) /\ HasReady(d) /\ Requeue(d) = d
    BY <1>3, DemoteIdles
  <2>2. Requeued(d, s)
    BY <1>1, DemoteTouches
  <2>3. scheduler_next(d) = Take(d, Chosen(d))
    BY <2>1 DEF scheduler_next
  <2>4. TakesFrom(scheduler_next(d), d)
    BY <2>1, <2>3, TakeTakes DEF Idle
  <2> HIDE DEF d
  <2> QED
    BY <2>1, <2>2, <2>4 DEF d
<1> QED
  BY <1>2, <1>3

\* p is s with its clocks moved on.
Clocked(p, s) ==
    /\ p.mode = s.mode /\ p.state = s.state /\ p.queue = s.queue
    /\ p.current = s.current /\ p.current_queue = s.current_queue

\* A tick moves the clocks, takes a thread if the CPU is free or the quantum
\* over, and then may boost.
LEMMA TickTakes ==
    ASSUME NEW s, NEW A \in SUBSET Threads, Settled(s, A)
    PROVE  \E p, r :
             /\ Settled(p, A) /\ Clocked(p, s) /\ Settled(r, A)
             /\ \/ (~ HasReady(p) \/ s.current # NoThread) /\ r = p
                \/ /\ s.current = NoThread \/ s.quantum <= 1
                   /\ \E q : Idle(q, A) /\ Requeued(q, p) /\ TakesFrom(r, q)
             /\ scheduler_tick(s) \in {r, scheduler_priority_boost(r)}
<1> DEFINE aged == Age(s)
           spent == CountDown(aged)
           after == CASE s.current = NoThread -> scheduler_next(aged)
                      [] s.current # NoThread /\ spent.quantum = 0 ->
                               scheduler_next(Demote(spent))
                      [] s.current # NoThread /\ spent.quantum # 0 -> spent
<1>1. Settled(aged, A) /\ Settled(spent, A)
  BY ClockSettles
<1>2. s \in Sched /\ aged \in Sched /\ spent \in Sched
  BY <1>1 DEF Settled
<1>3. ASSUME NEW r \in Sched
      PROVE  /\ Clocked(Age(r), r) /\ Age(r).quantum = r.quantum
             /\ Clocked(CountDown(r), r) /\ (CountDown(r).quantum = 0 => r.quantum <= 1)
  <2>1. Clocked(Age(r), r) /\ Age(r).quantum = r.quantum
    <3> DEFINE age == IF r.mode = "MLFQ" THEN r.boost_age + 1 ELSE r.boost_age
    <3>1. Age(r) = [r EXCEPT !.boost_age = age]
      BY DEF Age
    <3> HIDE DEF age
    <3> QED
      BY <3>1 DEF Sched, Clocked
  <2>2. Clocked(CountDown(r), r) /\ (CountDown(r).quantum = 0 => r.quantum <= 1)
    <3> DEFINE left == IF r.quantum > 0 THEN r.quantum - 1 ELSE 0
    <3>1. CountDown(r) = [r EXCEPT !.quantum = left]
      BY DEF CountDown
    <3>2. r.quantum \in Nat /\ (left = 0 => r.quantum <= 1)
      BY DEF Sched
    <3> HIDE DEF left
    <3>3. Clocked(CountDown(r), r) /\ CountDown(r).quantum = left
      BY <3>1 DEF Sched, Clocked
    <3> QED
      BY <3>2, <3>3
  <2> QED
    BY <2>1, <2>2
<1>4. /\ Clocked(aged, s) /\ Clocked(spent, s)
      /\ spent.quantum = 0 => s.quantum <= 1
  BY <1>2, <1>3 DEF Clocked
<1>5. scheduler_tick(s) \in {after, scheduler_priority_boost(after)}
  BY DEF scheduler_tick
<1>6. CASE s.current = NoThread
  <2>1. after = scheduler_next(aged)
    BY <1>6
  <2> HIDE DEF after, aged, spent
  <2>2. Settled(after, A)
    BY <1>1, <2>1, NextSettles
  <2>3. \/ ~ HasReady(aged) /\ after = aged
        \/ \E q : Idle(q, A) /\ Requeued(q, aged) /\ TakesFrom(after, q)
    BY <1>1, <2>1, NextTakes
  <2> QED
    BY <1>1, <1>4, <1>5, <1>6, <2>2, <2>3
<1>7. CASE s.current # NoThread /\ spent.quantum = 0
  <2>1. after = scheduler_next(Demote(spent)) /\ spent.current # NoThread
    BY <1>4, <1>7 DEF Clocked
  <2> HIDE DEF after, aged, spent
  <2>2. Settled(after, A)
    BY <1>1, <2>1, DemoteSettles
  <2>3. \/ ~ HasReady(spent) /\ after = spent
        \/ \E q : Idle(q, A) /\ Requeued(q, spent) /\ TakesFrom(after, q)
    BY <1>1, <2>1, DemoteTakes
  <2> QED
    BY <1>1, <1>4, <1>5, <1>7, <2>2, <2>3
<1>8. CASE s.current # NoThread /\ spent.quantum # 0
  <2>1. after = spent
    BY <1>8
  <2> HIDE DEF after, aged, spent
  <2> QED
    BY <1>1, <1>4, <1>5, <1>8, <2>1
<1> QED
  BY <1>6, <1>7, <1>8

\* What a thread that gets the CPU may rely on.
LEMMA TakeServes ==
    ASSUME NEW s, NEW A \in SUBSET Threads, Settled(s, A),
           NEW q, Idle(q, A), Requeued(q, s), NEW r, TakesFrom(r, q)
    PROVE  /\ InOrder(s.queue, r.queue)
           /\ r.current \in Threads /\ Holds(q.queue, r.current)
           /\ r.state[r.current] = "RUNNING"
           /\ \A u \in Threads : u # r.current => r.state[u] = q.state[u]
           /\ r.quantum = Quantum(s, r.current_queue)
           /\ \A m \in Levels : m < r.current_queue => r.queue[m] = << >>
           /\ \A u \in Threads : Holds(r.queue, u) <=> Holds(q.queue, u) /\ u # r.current
<1>1. PICK l \in Levels :
        /\ q.queue[l] # << >>
        /\ \A m \in Levels : m < l => q.queue[m] = << >>
        /\ r.queue = [q.queue EXCEPT ![l] = Tail(@)]
        /\ r.state = [q.state EXCEPT ![Head(q.queue[l])] = "RUNNING"]
        /\ r.current = Head(q.queue[l]) /\ r.current \in Threads
        /\ r.current_queue = l
        /\ r.quantum = Quantum(q, l)
  BY DEF TakesFrom
<1>2. q \in Sched /\ q.queue \in Queues /\ Disjoint(q.queue)
  BY DEF Idle, Sched, Queues
<1>3. InOrder(q.queue, r.queue)
  BY <1>1, <1>2, TailInOrder
<1>4. InOrder(s.queue, r.queue)
  BY <1>3 DEF Requeued, KeepsOrder, InOrder
<1>5. /\ Holds(q.queue, r.current)
      /\ \A u \in Threads : Holds(r.queue, u) <=> Holds(q.queue, u) /\ u # r.current
  <2> SUFFICES ASSUME NEW Q, Q = q.queue, NEW R, R = r.queue
               PROVE  /\ Holds(Q, Head(Q[l]))
                      /\ \A u \in Threads : Holds(R, u) <=> Holds(Q, u) /\ u # Head(Q[l])
    BY <1>1
  <2>1. Q \in Queues /\ Disjoint(Q) /\ Q[l] # << >> /\ R = [Q EXCEPT ![l] = Tail(@)]
    BY <1>1, <1>2
  <2> QED
    BY <2>1, LeaveQueue
<1>6. /\ r.state[r.current] = "RUNNING"
      /\ \A u \in Threads : u # r.current => r.state[u] = q.state[u]
  BY <1>1, <1>2 DEF Sched
<1>7. r.quantum = Quantum(s, r.current_queue)
  BY <1>1 DEF Requeued, Quantum
<1>8. \A m \in Levels : m < r.current_queue => r.queue[m] = << >>
  <2> SUFFICES ASSUME NEW m \in Levels, m < l PROVE r.queue[m] = << >>
    BY <1>1
  <2>1. m # l /\ q.queue[m] = << >>
    BY <1>1 DEF Levels
  <2> QED
    BY <1>1, <1>2, <2>1 DEF Queues
<1> QED
  BY <1>1, <1>4, <1>5, <1>6, <1>7, <1>8

LEMMA TerminateTouches ==
    ASSUME NEW s, NEW A \in SUBSET Threads, Settled(s, A),
           NEW t \in Threads, t = s.current, NEW r, r = scheduler_terminate(s, t)
    PROVE  /\ r.queue = s.queue /\ r.current = NoThread
           /\ r.state[t] = "DONE" /\ \A u \in Threads : u # t => r.state[u] = s.state[u]
<1> DEFINE left == [s EXCEPT !.current = IF @ = t THEN NoThread ELSE @]
<1>1. s \in Sched /\ ~ Holds(s.queue, t)
  BY SchedulerAssumption DEF Settled
<1>2. left \in Sched /\ left.queue = s.queue
  BY <1>1 DEF Sched
<1>3. RemoveFromQueues(left, t) = left
  BY <1>1, <1>2 DEF RemoveFromQueues, Holds
<1>4. r = [left EXCEPT !.state[t] = "DONE"]
  BY <1>3 DEF scheduler_terminate
<1> QED
  BY <1>1, <1>4 DEF Sched

-----------------------------------------------------------------------------
(* The two kinds of calls *)

\* Nobody gets the CPU and nobody is sent back to a queue from it.
Quiet(s, r) ==
    /\ KeepsOrder(s.queue, r.queue)
    /\ \A t \in Threads :
         /\ r.state[t] = "RUNNING" => s.state[t] = "RUNNING"
         /\ s.state[t] = "RUNNING" => r.state[t] # "READY"

\* Somebody gets the CPU.
Serves(s, r) ==
    /\ InOrder(s.queue, r.queue)
    /\ \A t \in Threads : s.state[t] = "RUNNING" /\ r.state[t] = "READY" => s.quantum <= 1
    /\ r.quantum = Quantum(s, r.current_queue)
    /\ r.boost_age # 0 => \A m \in Levels : m < r.current_queue => r.queue[m] = << >>

LEMMA TakeIsServing ==
    ASSUME NEW s, NEW p, NEW A \in SUBSET Threads, Settled(p, A),
           p.mode = s.mode, p.queue = s.queue,
           NEW q, Idle(q, A), Requeued(q, p), NEW r, TakesFrom(r, q),
           \A t \in Threads : s.state[t] = "RUNNING" /\ r.state[t] = "READY" => s.quantum <= 1
    PROVE  Serves(s, r)
<1>1. /\ InOrder(p.queue, r.queue)
      /\ r.quantum = Quantum(p, r.current_queue)
      /\ \A m \in Levels : m < r.current_queue => r.queue[m] = << >>
  BY TakeServes
<1>2. Quantum(p, r.current_queue) = Quantum(s, r.current_queue)
  BY DEF Quantum
<1> QED
  BY <1>1, <1>2 DEF Serves

LEMMA NextKinds ==
    ASSUME NEW s, NEW A \in SUBSET Threads, Settled(s, A),
           \A t \in Threads : s.state[t] # "RUNNING",
           NEW r, r = scheduler_next(s)
    PROVE  Quiet(s, r) \/ Serves(s, r)
<1>1. CASE ~ HasReady(s) /\ r = s
  BY <1>1 DEF Quiet, KeepsOrder
<1>2. CASE \E q : Idle(q, A) /\ Requeued(q, s) /\ TakesFrom(r, q)
  BY <1>2, TakeIsServing
<1> QED
  BY <1>1, <1>2, NextTakes

LEMMA BlockKinds ==
    ASSUME NEW s, NEW A \in SUBSET Threads, Settled(s, A),
           NEW t \in Threads, t = s.current, s.state[t] = "RUNNING",
           NEW r, r = scheduler_block(thread_block(s, t), t)
    PROVE  Quiet(s, r) \/ Serves(s, r)
<1>1. PICK p :
        /\ Settled(p, A) /\ p.current = NoThread
        /\ p.mode = s.mode /\ p.queue = s.queue
        /\ p.state[t] = "BLOCKED" /\ \A u \in Threads : u # t => p.state[u] = s.state[u]
        /\ r = scheduler_next(p)
  BY BlockTakes
<1>2. \A u \in Threads : s.state[u] = "RUNNING" => u = t
  BY DEF Settled
<1>3. CASE r = p
  BY <1>1, <1>2, <1>3 DEF Quiet, KeepsOrder
<1>4. ASSUME NEW q, Idle(q, A), Requeued(q, p), TakesFrom(r, q)
      PROVE  Serves(s, r)
  <2>1. /\ r.state[r.current] = "RUNNING"
        /\ \A u \in Threads : u # r.current => r.state[u] = q.state[u]
    BY <1>1, <1>4, TakeServes
  <2>2. q.state[t] = "BLOCKED"
    BY <1>1, <1>4, SchedulerAssumption DEF Requeued
  <2>3. r.state[t] # "READY"
    BY <2>1, <2>2
  <2> QED
    BY <1>1, <1>2, <1>4, <2>3, TakeIsServing
<1> QED
  BY <1>1, <1>3, <1>4, NextTakes

LEMMA BoostKinds ==
    ASSUME NEW s \in Sched, NEW r \in Sched, Disjoint(r.queue),
           Quiet(s, r) \/ Serves(s, r)
    PROVE  \/ Quiet(s, scheduler_priority_boost(r))
           \/ Serves(s, scheduler_priority_boost(r))
<1> DEFINE b == scheduler_priority_boost(r)
<1>1. /\ KeepsOrder(r.queue, b.queue)
      /\ \A u \in Threads : Holds(b.queue, u) <=> Holds(r.queue, u)
      /\ b.state = r.state /\ b.current = r.current /\ b.quantum = r.quantum
      /\ b.current_queue = r.current_queue /\ b.boost_age = 0
  BY BoostTouches
<1> HIDE DEF b
<1>2. CASE Quiet(s, r)
  BY <1>1, <1>2 DEF Quiet, KeepsOrder, b
<1>3. CASE Serves(s, r)
  <2>1. InOrder(s.queue, b.queue)
    BY <1>1, <1>3 DEF Serves, KeepsOrder, InOrder
  <2> QED
    BY <1>1, <1>3, <2>1 DEF Serves, b
<1> QED
  BY <1>2, <1>3

LEMMA TickKinds ==
    ASSUME NEW s, NEW A \in SUBSET Threads, Settled(s, A), NEW b, b = scheduler_tick(s)
    PROVE  Quiet(s, b) \/ Serves(s, b)
<1>1. PICK p, r :
        /\ Settled(p, A) /\ Clocked(p, s) /\ Settled(r, A)
        /\ \/ (~ HasReady(p) \/ s.current # NoThread) /\ r = p
           \/ /\ s.current = NoThread \/ s.quantum <= 1
              /\ \E q : Idle(q, A) /\ Requeued(q, p) /\ TakesFrom(r, q)
        /\ b \in {r, scheduler_priority_boost(r)}
  BY TickTakes
<1>2. Quiet(s, r) \/ Serves(s, r)
  <2>1. CASE r = p
    BY <1>1, <2>1 DEF Clocked, Quiet, KeepsOrder
  <2>2. ASSUME s.current = NoThread \/ s.quantum <= 1,
               NEW q, Idle(q, A), Requeued(q, p), TakesFrom(r, q)
        PROVE  Serves(s, r)
    <3>1. ASSUME NEW t \in Threads, s.state[t] = "RUNNING" PROVE s.quantum <= 1
      BY <2>2, <3>1, SchedulerAssumption DEF Settled
    <3> QED
      BY <1>1, <2>2, <3>1, TakeIsServing DEF Clocked
  <2> QED
    BY <1>1, <2>1, <2>2
<1>3. s \in Sched /\ r \in Sched /\ Disjoint(r.queue)
  BY <1>1 DEF Settled
<1> QED
  BY <1>1, <1>2, <1>3, BoostKinds

LEMMA CallKinds ==
    IInv /\ [Next]_vars => Quiet(sched, sched') \/ Serves(sched, sched')
<1> SUFFICES ASSUME IInv, [Next]_vars
             PROVE  Quiet(sched, sched') \/ Serves(sched, sched')
  OBVIOUS
<1>0. sched \in Sched /\ arrived \in SUBSET Threads /\ Settled(sched, arrived)
  BY DEF IInv, Settled
<1>1. ASSUME NEW t \in Threads, Arrive(t) PROVE Quiet(sched, sched')
  <2>1. sched.state[t] = "READY" /\ sched' = scheduler_add(sched, t)
    BY <1>0, <1>1 DEF Arrive, Settled
  <2>2. /\ \A u \in Threads : u # t => sched'.state[u] = sched.state[u]
        /\ sched'.state[t] = "READY"
        /\ KeepsOrder(sched.queue, sched'.queue)
    BY <1>0, <2>1, AddTouches
  <2> QED
    BY <2>1, <2>2 DEF Quiet
<1>2. ASSUME NEW t \in Threads, Unblock(t) PROVE Quiet(sched, sched')
  <2> DEFINE p == thread_unblock(sched, t)
  <2>1. sched.state[t] = "BLOCKED" /\ sched' = scheduler_add(p, t)
    BY <1>2 DEF Unblock, scheduler_unblock
  <2>2. /\ p \in Sched /\ p.queue = sched.queue /\ p.state[t] = "READY"
        /\ \A u \in Threads : u # t => p.state[u] = sched.state[u]
    BY <1>0, <2>1 DEF thread_unblock, Sched, ThreadStates
  <2> HIDE DEF p
  <2>3. /\ \A u \in Threads : u # t => sched'.state[u] = p.state[u]
        /\ sched'.state[t] = "READY"
        /\ KeepsOrder(p.queue, sched'.queue)
    BY <2>1, <2>2, AddTouches
  <2> QED
    BY <2>1, <2>2, <2>3 DEF Quiet
<1>3. CASE Dispatch
  <2>1. CASE \E t \in Threads : Runs(t)
    BY <1>3, <2>1 DEF Dispatch, Quiet, KeepsOrder
  <2>2. CASE ~ \E t \in Threads : Runs(t)
    <3>1. \A t \in Threads : sched.state[t] # "RUNNING"
      BY <1>0, <2>2 DEF Runs, Settled
    <3> QED
      BY <1>0, <1>3, <2>2, <3>1, NextKinds DEF Dispatch
  <2> QED
    BY <2>1, <2>2
<1>4. ASSUME NEW t \in Threads, BlockCurrent(t) \/ PageFault(t)
      PROVE  Quiet(sched, sched') \/ Serves(sched, sched')
  BY <1>0, <1>4, BlockKinds DEF BlockCurrent, PageFault, Runs
<1>5. ASSUME NEW t \in Threads, Terminate(t) PROVE Quiet(sched, sched')
  <2>1. /\ sched'.queue = sched.queue
        /\ sched'.state[t] = "DONE"
        /\ \A u \in Threads : u # t => sched'.state[u] = sched.state[u]
    BY <1>0, <1>5, TerminateTouches DEF Terminate, Runs
  <2> QED
    BY <2>1 DEF Quiet, KeepsOrder
<1>6. ASSUME NEW t \in Threads, Kill(t) PROVE Quiet(sched, sched')
  <2>1. /\ sched'.queue = sched.queue
        /\ sched'.state[t] = "DONE"
        /\ \A u \in Threads : u # t => sched'.state[u] = sched.state[u]
    BY <1>0, <1>6 DEF Kill, Sched
  <2> QED
    BY <2>1 DEF Quiet, KeepsOrder
<1>7. CASE Compute \/ NoPageFault \/ UNCHANGED vars
  BY <1>7 DEF Compute, NoPageFault, vars, Quiet, KeepsOrder
<1>8. CASE Tick
  BY <1>0, <1>8, TickKinds DEF Tick
<1> QED
  BY <1>1, <1>2, <1>3, <1>4, <1>5, <1>6, <1>7, <1>8 DEF Next, Calls

\* No arrival, wake-up or boost takes the CPU from a thread: until its quantum
\* is used up it loses it by blocking, ending or being killed only.
THEOREM QuantumIsGranted == Spec => NoEarlyPreemption
<1> DEFINE Lasts ==
        \A t \in Threads :
            sched.state[t] = "RUNNING" /\ sched'.state[t] = "READY" => sched.quantum <= 1
<1>1. IInv /\ [Next]_vars => [Lasts]_vars
  BY CallKinds DEF Quiet, Serves
<1> QED
  BY <1>1, StaysSettled, PTL DEF Spec, NoEarlyPreemption

\* Whoever gets the CPU comes from the highest level that has a thread, with
\* the quantum of that level, even in a tick that ends with a boost.
THEOREM HighestLevelIsServed == Spec => HighestLevelFirst
<1> DEFINE Best ==
        \A t \in Threads :
          sched.state[t] # "RUNNING" /\ sched'.state[t] = "RUNNING"
            => /\ sched'.quantum = Quantum(sched, sched'.current_queue)
               /\ sched'.boost_age # 0 =>
                    \A l \in Levels :
                        l < sched'.current_queue => sched'.queue[l] = << >>
<1>1. IInv /\ [Next]_vars => [Best]_vars
  BY CallKinds DEF Quiet, Serves
<1> QED
  BY <1>1, StaysSettled, PTL DEF Spec, HighestLevelFirst

\* A thread is never overtaken in its queue: demotions, wake-ups and the boost
\* join a queue at its end, and the next thread comes from the head.
THEOREM OrderIsKept == Spec => FirstComeFirstServed
<1> DEFINE Fair ==
        \A t, u \in Threads : Precedes(sched, t, u) =>
          /\ ~ Precedes(sched', u, t)
          /\ sched'.state[u] = "RUNNING" => ~ Holds(sched'.queue, t)
<1>1. IInv /\ IInv' /\ [Next]_vars => [Fair]_vars
  <2> SUFFICES ASSUME IInv, IInv', [Next]_vars,
                      NEW t \in Threads, NEW u \in Threads, Precedes(sched, t, u)
               PROVE  /\ ~ Precedes(sched', u, t)
                      /\ sched'.state[u] = "RUNNING" => ~ Holds(sched'.queue, t)
    OBVIOUS
  <2> DEFINE Q == sched.queue
             R == sched'.queue
  <2>1. Before(Q, t, u)
    BY DEF Precedes, Before
  <2>2. InOrder(Q, R)
    BY CallKinds DEF Quiet, Serves, KeepsOrder, InOrder
  <2>3. Before(R, t, u) \/ ~ Holds(R, t)
    BY <2>1, <2>2 DEF InOrder
  <2>4. /\ Disjoint(R)
        /\ sched'.state[u] = "RUNNING" => ~ Holds(R, u)
        /\ \A l \in Levels : Len(R[l]) \in Nat
    <3>1. ASSUME NEW s, NEW A, Settled(s, A)
          PROVE  /\ Disjoint(s.queue)
                 /\ s.state[u] = "RUNNING" => ~ Holds(s.queue, u)
                 /\ \A l \in Levels : Len(s.queue[l]) \in Nat
      BY <3>1, SchedulerAssumption DEF Settled, Sched
    <3>2. Settled(sched', arrived')
      BY DEF IInv
    <3> QED
      BY <3>1, <3>2
  <2> HIDE DEF Q, R
  <2>5. Before(R, t, u) => Holds(R, t) /\ Holds(R, u) /\ ~ Before(R, u, t)
    <3> SUFFICES ASSUME Before(R, t, u) PROVE Holds(R, t) /\ Holds(R, u) /\ ~ Before(R, u, t)
      OBVIOUS
    <3>1. Holds(R, t) /\ Holds(R, u)
      BY DEF Before, Holds, Contains
    <3>2. ASSUME Before(R, u, t) PROVE FALSE
      BY <2>4, <3>2 DEF Before, Disjoint
    <3> QED
      BY <3>1, <3>2
  <2>6. Before(R, u, t) => Holds(R, t)
    BY DEF Before, Holds, Contains
  <2>7. ~ Before(R, u, t) /\ (sched'.state[u] = "RUNNING" => ~ Holds(R, t))
    BY <2>3, <2>4, <2>5, <2>6
  <2> QED
    BY <2>7 DEF Before, Precedes, Holds, R
<1> QED
  BY <1>1, StaysSettled, PTL DEF Spec, FirstComeFirstServed

-----------------------------------------------------------------------------
(* Without faults *)

\* No killed thread is queued or has the CPU.
Healthy(s) ==
    /\ \A t \in Threads : Holds(s.queue, t) => s.state[t] = "READY"
    /\ s.current # NoThread => s.state[s.current] = "RUNNING"

\* Who is finished in s is finished in r.
Finishes(s, r) == \A t \in Threads : s.state[t] = "DONE" => r.state[t] = "DONE"

\* If somebody could run, somebody does.
Works(s, A) ==
    (\E t \in A : s.state[t] = "READY") => \E t \in A : s.state[t] = "RUNNING"

LEMMA TakeIsHealthy ==
    ASSUME NEW s, NEW A \in SUBSET Threads, Settled(s, A), Healthy(s),
           NEW q, Idle(q, A), Requeued(q, s), NEW r, TakesFrom(r, q)
    PROVE  Healthy(r) /\ Finishes(s, r)
<1>1. /\ r.current \in Threads /\ Holds(q.queue, r.current)
      /\ r.state[r.current] = "RUNNING"
      /\ \A u \in Threads : u # r.current => r.state[u] = q.state[u]
      /\ \A u \in Threads : Holds(r.queue, u) <=> Holds(q.queue, u) /\ u # r.current
  BY TakeServes
<1>2. /\ \A u \in Threads : u # s.current => q.state[u] = s.state[u]
      /\ s.current # NoThread => q.state[s.current] \in {s.state[s.current], "READY"}
      /\ \A u \in Threads : Holds(q.queue, u) => Holds(s.queue, u) \/ u = s.current
  BY DEF Requeued
<1>3. \A t \in Threads : Holds(q.queue, t) => q.state[t] \in {"READY", "DONE"}
  BY DEF Idle
<1>4. ASSUME NEW t \in Threads, Holds(q.queue, t) PROVE q.state[t] = "READY"
  <2>1. CASE t = s.current
    BY <1>2, <1>3, <1>4, <2>1, SchedulerAssumption DEF Healthy
  <2>2. CASE t # s.current
    BY <1>2, <1>4, <2>2 DEF Healthy
  <2> QED
    BY <2>1, <2>2
<1>5. Healthy(r)
  BY <1>1, <1>4 DEF Healthy
<1>6. ASSUME NEW t \in Threads, s.state[t] = "DONE" PROVE r.state[t] = "DONE"
  <2>1. t # s.current
    BY <1>6, SchedulerAssumption DEF Healthy
  <2>2. q.state[t] = "DONE"
    BY <1>2, <1>6, <2>1
  <2>3. t # r.current
    BY <1>1, <1>4, <2>2
  <2> QED
    BY <1>1, <2>2, <2>3
<1> QED
  BY <1>5, <1>6 DEF Finishes

LEMMA NextIsHealthy ==
    ASSUME NEW s, NEW A \in SUBSET Threads, Settled(s, A), Healthy(s),
           NEW r, r = scheduler_next(s)
    PROVE  Healthy(r) /\ Finishes(s, r)
<1>1. CASE r = s
  BY <1>1 DEF Finishes
<1>2. CASE \E q : Idle(q, A) /\ Requeued(q, s) /\ TakesFrom(r, q)
  BY <1>2, TakeIsHealthy
<1> QED
  BY <1>1, <1>2, NextTakes

LEMMA BlockIsHealthy ==
    ASSUME NEW s, NEW A \in SUBSET Threads, Settled(s, A), Healthy(s),
           NEW t \in Threads, t = s.current, s.state[t] = "RUNNING",
           NEW r, r = scheduler_block(thread_block(s, t), t)
    PROVE  Healthy(r) /\ Finishes(s, r)
<1>1. PICK p :
        /\ Settled(p, A) /\ p.current = NoThread
        /\ p.mode = s.mode /\ p.queue = s.queue
        /\ p.state[t] = "BLOCKED" /\ \A u \in Threads : u # t => p.state[u] = s.state[u]
        /\ r = scheduler_next(p)
  BY BlockTakes
<1>2. ~ Holds(s.queue, t)
  BY SchedulerAssumption DEF Settled
<1>3. Healthy(p) /\ Finishes(s, p)
  BY <1>1, <1>2 DEF Healthy, Finishes
<1>4. Healthy(r) /\ Finishes(p, r)
  BY <1>1, <1>3, NextIsHealthy
<1> QED
  BY <1>3, <1>4 DEF Finishes

\* A settled CPU is idle with nothing queued, or has a thread that runs.
LEMMA SettledWorks ==
    ASSUME NEW s, NEW A \in SUBSET Threads, Settled(s, A),
           ~ HasReady(s) \/ (s.current # NoThread /\ s.state[s.current] = "RUNNING")
    PROVE  Works(s, A)
<1>1. CASE ~ HasReady(s)
  <2>1. \A l \in Levels : Len(s.queue[l]) = 0
    BY <1>1 DEF HasReady
  <2>2. \A t \in Threads : ~ Holds(s.queue, t)
    BY <2>1 DEF Holds, Contains
  <2> QED
    BY <2>2 DEF Settled, Works
<1>2. CASE s.current # NoThread /\ s.state[s.current] = "RUNNING"
  BY <1>2 DEF Settled, Works
<1> QED
  BY <1>1, <1>2

LEMMA TakeWorks ==
    ASSUME NEW r, NEW A \in SUBSET Threads, Settled(r, A), NEW q, Idle(q, A), TakesFrom(r, q)
    PROVE  Works(r, A)
<1>1. q \in Sched
  BY DEF Idle
<1>2. r.current \in Threads /\ r.state = [q.state EXCEPT ![r.current] = "RUNNING"]
  BY DEF TakesFrom
<1>3. r.current # NoThread /\ r.state[r.current] = "RUNNING"
  BY <1>1, <1>2, SchedulerAssumption DEF Sched
<1> QED
  BY <1>3, SettledWorks

LEMMA NextWorks ==
    ASSUME NEW s, NEW A \in SUBSET Threads, Settled(s, A), NEW r, r = scheduler_next(s)
    PROVE  Works(r, A)
<1>1. Settled(r, A)
  BY NextSettles
<1>2. CASE ~ HasReady(s) /\ r = s
  BY <1>1, <1>2, SettledWorks
<1>3. CASE \E q : Idle(q, A) /\ Requeued(q, s) /\ TakesFrom(r, q)
  BY <1>1, <1>3, TakeWorks
<1> QED
  BY <1>2, <1>3, NextTakes

LEMMA TickIsHealthy ==
    ASSUME NEW s, NEW A \in SUBSET Threads, Settled(s, A), Healthy(s),
           NEW b, b = scheduler_tick(s)
    PROVE  Healthy(b) /\ Finishes(s, b) /\ Works(b, A)
<1>1. PICK p, r :
        /\ Settled(p, A) /\ Clocked(p, s) /\ Settled(r, A)
        /\ \/ (~ HasReady(p) \/ s.current # NoThread) /\ r = p
           \/ /\ s.current = NoThread \/ s.quantum <= 1
              /\ \E q : Idle(q, A) /\ Requeued(q, p) /\ TakesFrom(r, q)
        /\ b \in {r, scheduler_priority_boost(r)}
  BY TickTakes
<1>2. Healthy(p) /\ Finishes(s, p)
  BY <1>1 DEF Clocked, Healthy, Finishes
<1>3. Healthy(r) /\ Finishes(s, r) /\ Works(r, A)
  <2>1. CASE (~ HasReady(p) \/ s.current # NoThread) /\ r = p
    <3>1. ~ HasReady(p) \/ (p.current # NoThread /\ p.state[p.current] = "RUNNING")
      BY <1>1, <1>2, <2>1 DEF Clocked, Healthy
    <3> QED
      BY <1>1, <1>2, <2>1, <3>1, SettledWorks
  <2>2. ASSUME NEW q, Idle(q, A), Requeued(q, p), TakesFrom(r, q)
        PROVE  Healthy(r) /\ Finishes(s, r) /\ Works(r, A)
    <3>1. Healthy(r) /\ Finishes(p, r)
      BY <1>1, <1>2, <2>2, TakeIsHealthy
    <3> QED
      BY <1>1, <1>2, <2>2, <3>1, TakeWorks DEF Finishes
  <2> QED
    BY <1>1, <2>1, <2>2
<1>4. CASE b = r
  BY <1>3, <1>4
<1>5. CASE b = scheduler_priority_boost(r)
  <2>1. r \in Sched /\ Disjoint(r.queue)
    BY <1>1 DEF Settled
  <2>2. /\ \A u \in Threads : Holds(b.queue, u) <=> Holds(r.queue, u)
        /\ b.state = r.state /\ b.current = r.current
    BY <1>5, <2>1, BoostTouches
  <2> QED
    BY <1>3, <2>2 DEF Healthy, Finishes, Works
<1> QED
  BY <1>1, <1>4, <1>5

\* Every call but a kill keeps the queues and the CPU free of finished threads.
LEMMA CallsAreHealthy ==
    IInv /\ Healthy(sched) /\ [Calls]_vars => Healthy(sched') /\ Finishes(sched, sched')
<1> SUFFICES ASSUME IInv, Healthy(sched), [Calls]_vars
             PROVE  Healthy(sched') /\ Finishes(sched, sched')
  OBVIOUS
<1>0. sched \in Sched /\ arrived \in SUBSET Threads /\ Settled(sched, arrived)
  BY DEF IInv, Settled
<1>1. ASSUME NEW t \in Threads, Arrive(t) PROVE Healthy(sched') /\ Finishes(sched, sched')
  <2>1. /\ sched.state[t] = "READY" /\ sched' = scheduler_add(sched, t)
        /\ sched.current # t
    BY <1>0, <1>1, SchedulerAssumption DEF Arrive, Settled
  <2>2. /\ \A u \in Threads : u # t => sched'.state[u] = sched.state[u]
        /\ sched'.state[t] = "READY" /\ sched'.current = sched.current
        /\ \A u \in Threads : Holds(sched'.queue, u) => Holds(sched.queue, u) \/ u = t
    BY <1>0, <2>1, AddTouches
  <2>3. sched.current # NoThread => sched.current \in Threads
    BY <1>0 DEF Sched
  <2> QED
    BY <2>1, <2>2, <2>3 DEF Healthy, Finishes
<1>2. ASSUME NEW t \in Threads, Unblock(t) PROVE Healthy(sched') /\ Finishes(sched, sched')
  <2> DEFINE p == thread_unblock(sched, t)
  <2>1. sched.state[t] = "BLOCKED" /\ sched' = scheduler_add(p, t) /\ sched.current # t
    BY <1>0, <1>2, SchedulerAssumption DEF Unblock, scheduler_unblock, Settled
  <2>2. /\ p \in Sched /\ p.queue = sched.queue /\ p.state[t] = "READY"
        /\ \A u \in Threads : u # t => p.state[u] = sched.state[u]
        /\ p.current = sched.current
    BY <1>0, <2>1 DEF thread_unblock, Sched, ThreadStates
  <2> HIDE DEF p
  <2>3. /\ \A u \in Threads : u # t => sched'.state[u] = p.state[u]
        /\ sched'.state[t] = "READY" /\ sched'.current = p.current
        /\ \A u \in Threads : Holds(sched'.queue, u) => Holds(p.queue, u) \/ u = t
    BY <2>1, <2>2, AddTouches
  <2>4. sched.current # NoThread => sched.current \in Threads
    BY <1>0 DEF Sched
  <2> QED
    BY <2>1, <2>2, <2>3, <2>4 DEF Healthy, Finishes
<1>3. CASE Dispatch
  <2>1. CASE sched' = sched
    BY <2>1 DEF Healthy, Finishes
  <2>2. CASE sched' = scheduler_next(sched)
    BY <1>0, <2>2, NextIsHealthy
  <2> QED
    BY <1>3, <2>1, <2>2 DEF Dispatch
<1>4. ASSUME NEW t \in Threads, BlockCurrent(t) \/ PageFault(t)
      PROVE  Healthy(sched') /\ Finishes(sched, sched')
  BY <1>0, <1>4, BlockIsHealthy DEF BlockCurrent, PageFault, Runs
<1>5. ASSUME NEW t \in Threads, Terminate(t) PROVE Healthy(sched') /\ Finishes(sched, sched')
  <2>1. /\ sched'.queue = sched.queue /\ sched'.current = NoThread
        /\ sched'.state[t] = "DONE"
        /\ \A u \in Threads : u # t => sched'.state[u] = sched.state[u]
    BY <1>0, <1>5, TerminateTouches DEF Terminate, Runs
  <2>2. ~ Holds(sched.queue, t)
    BY <1>0, <1>5, SchedulerAssumption DEF Terminate, Runs, Settled
  <2> QED
    BY <2>1, <2>2 DEF Healthy, Finishes
<1>6. CASE Compute \/ NoPageFault \/ UNCHANGED vars
  BY <1>6 DEF Compute, NoPageFault, vars, Healthy, Finishes
<1>7. CASE Tick
  BY <1>0, <1>7, TickIsHealthy DEF Tick
<1> QED
  BY <1>1, <1>2, <1>3, <1>4, <1>5, <1>6, <1>7 DEF Calls

\* Without crashes and victims, what holds with them and more: the queues hold
\* threads that can run, and only those.
THEOREM StaysHealthy == FaultFreeSpec => [](IInv /\ Healthy(sched))
<1>1. [Calls]_vars => [Next]_vars
  BY DEF Next
<1>2. Init => Healthy(sched)
  <2> SUFFICES ASSUME Init PROVE Healthy(sched)
    OBVIOUS
  <2>1. sched.queue = [l \in Levels |-> << >>] /\ sched.current = NoThread
    BY DEF Init, scheduler_init
  <2>2. \A l \in Levels : Len(sched.queue[l]) = 0
    BY <2>1
  <2> QED
    BY <2>1, <2>2 DEF Healthy, Holds, Contains
<1>3. IInv /\ Healthy(sched) /\ [Calls]_vars => Healthy(sched)'
  BY CallsAreHealthy
<1> QED
  BY <1>1, <1>2, <1>3, StaysSettled, PTL DEF Spec, FaultFreeSpec

\* A thread that has used up its burst never gets the CPU again: neither a
\* late wake-up nor a stale queue entry brings it back.
THEOREM DoneStaysDone == FaultFreeSpec => DoneIsFinal
<1> DEFINE Final == \A t \in Threads : sched.state[t] = "DONE" => sched'.state[t] = "DONE"
<1>1. IInv /\ Healthy(sched) /\ [Calls]_vars => [Final]_vars
  BY CallsAreHealthy DEF Finishes
<1> QED
  BY <1>1, StaysHealthy, PTL DEF FaultFreeSpec, DoneIsFinal

\* After a dispatch and after a tick somebody runs if anybody could: the CPU
\* never idles past a thread that is READY.
THEOREM CPUIsNeverIdle == FaultFreeSpec => WorkConserving
<1> DEFINE Busy ==
        phase # phase' /\ phase' \in {"events", "execute"} =>
          ((\E t \in arrived : sched'.state[t] = "READY")
             => \E t \in arrived : sched'.state[t] = "RUNNING")
<1>1. IInv /\ Healthy(sched) /\ [Calls]_vars => [Busy]_vars
  <2> SUFFICES ASSUME IInv, Healthy(sched), Calls PROVE Busy
    OBVIOUS
  <2>1. arrived \in SUBSET Threads /\ Settled(sched, arrived)
    BY DEF IInv
  <2>2. CASE Dispatch
    <3>1. CASE \E t \in Threads : Runs(t)
      BY <2>1, <2>2, <3>1 DEF Dispatch, Runs, Settled
    <3>2. CASE ~ \E t \in Threads : Runs(t)
      BY <2>1, <2>2, <3>2, NextWorks DEF Dispatch, Works
    <3> QED
      BY <3>1, <3>2
  <2>3. CASE Tick
    BY <2>1, <2>3, TickIsHealthy DEF Tick, Works
  <2>4. CASE \E t \in Threads : \/ Arrive(t) \/ Unblock(t)
                                \/ BlockCurrent(t) \/ Terminate(t) \/ PageFault(t)
    BY <2>4 DEF Arrive, Unblock, BlockCurrent, Terminate, PageFault
  <2>5. CASE Compute \/ NoPageFault
    BY <2>5 DEF Compute, NoPageFault
  <2> QED
    BY <2>2, <2>3, <2>4, <2>5 DEF Calls
<1> QED
  BY <1>1, StaysHealthy, PTL DEF FaultFreeSpec, WorkConserving
=============================================================================
