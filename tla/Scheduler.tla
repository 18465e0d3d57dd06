------------------------------ MODULE Scheduler ------------------------------
(***************************************************************************)
(* The CPU scheduler of src/src/scheduler.c: one round-robin ready queue,  *)
(* or three multi-level feedback queues with a periodic boost, and at most *)
(* one thread that runs.                                                   *)
(*                                                                         *)
(* The functions of scheduler.c and thread.c are operators over one record *)
(* s, so that Kernel can call them too.  The actions below are the calls    *)
(* kernel_run makes in one turn of its loop, for any program the threads   *)
(* could run: which thread computes, blocks, wakes up, ends or is killed   *)
(* is left open, the order of the steps is the code's.                     *)
(*                                                                         *)
(* The record:                                                             *)
(*   mode           sched_mode, chosen by scheduler_init                   *)
(*   state, level   the fields state and mlfq_level of every TCB           *)
(*   queue          the ready queues, oldest thread first; round robin     *)
(*                  uses queue[0] (rr_ready_queue and mlfq_queues[0] are   *)
(*                  never both in use).  ReadyQueue.tla shows that the     *)
(*                  ring arrays of the code are such sequences             *)
(*   current        current_thread                                         *)
(*   current_queue  the level the current thread was taken from            *)
(*   quantum        quantum_remaining; it stays at 0 where the code counts *)
(*                  below it, the code only asks whether it is <= 0        *)
(*   boost_age      tick - last_boost_tick.  The code sets last_boost_tick *)
(*                  at tick 1 (a value of 0 means unset), hence the -2     *)
(***************************************************************************)
EXTENDS Integers, FiniteSets, SequencesExt

CONSTANTS
    Threads,        \* the TCBs
    NoThread,       \* current_thread == NULL
    Priority,       \* the field priority of every TCB
    RRQuantum,      \* SCHED_QUANTUM_RR
    MLFQQuantum,    \* SCHED_QUANTUM_MLFQ_Q0, _Q1, _Q2
    BoostInterval,  \* the 30 of scheduler_tick
    MaxReadyQueue   \* MAX_READY_QUEUE

Levels == 0..2
Priorities == {"CRITICAL", "HIGH", "NORMAL", "LOW"}
ThreadStates == {"READY", "RUNNING", "BLOCKED", "DONE"}

ASSUME SchedulerAssumption ==
    /\ IsFiniteSet(Threads)
    /\ NoThread \notin Threads
    /\ Priority \in [Threads -> Priorities]
    /\ RRQuantum \in Nat \ {0}
    /\ MLFQQuantum \in [Levels -> Nat \ {0}]
    /\ BoostInterval \in Nat \ {0}
    /\ MaxReadyQueue \in Nat
    /\ Cardinality(Threads) <= MaxReadyQueue

VARIABLES
    sched,      \* the scheduler's static variables and the TCBs' states
    arrived,    \* the threads the kernel has handed to scheduler_add so far
    phase       \* the step of kernel_run that comes next

vars == <<sched, arrived, phase>>

-----------------------------------------------------------------------------
(* The ready queues *)

find_in_queue(q, t) == CHOOSE i \in 1..Len(q) : q[i] = t

queue_remove_at(q, i) == RemoveAt(q, i)

queue_push(q, t) ==
    IF Len(q) >= MaxReadyQueue \/ Contains(q, t) THEN q ELSE Append(q, t)

\* The search that scheduler_block and scheduler_terminate share: the thread
\* leaves the first queue that holds it.
RemoveFromQueues(s, t) ==
    LET holding == {l \in Levels : Contains(s.queue[l], t)}
        first == CHOOSE l \in holding : \A m \in holding : l <= m
    IN  IF holding = {} THEN s
        ELSE [s EXCEPT !.queue[first] =
                            queue_remove_at(@, find_in_queue(@, t))]

get_mlfq_level(p) ==
    CASE p \in {"CRITICAL", "HIGH"} -> 0
      [] p = "NORMAL" -> 1
      [] p = "LOW" -> 2

LevelOf(s, t) ==
    IF s.level[t] >= 0 THEN s.level[t] ELSE get_mlfq_level(Priority[t])

Quantum(s, l) == IF s.mode = "RR" THEN RRQuantum ELSE MLFQQuantum[l]

-----------------------------------------------------------------------------
(* thread.c *)

\* Mutant of thread_yield: it forgets to write T_READY.
YieldNothing(s, t) == s

thread_yield(s, t) ==
    IF s.state[t] = "RUNNING" THEN [s EXCEPT !.state[t] = "READY"] ELSE s

thread_block(s, t) == [s EXCEPT !.state[t] = "BLOCKED"]

thread_unblock(s, t) ==
    IF s.state[t] = "BLOCKED" THEN [s EXCEPT !.state[t] = "READY"] ELSE s

-----------------------------------------------------------------------------
(* scheduler.c *)

scheduler_init(mode) ==
    [mode |-> mode,
     state |-> [t \in Threads |-> "READY"],
     level |-> [t \in Threads |-> -1],
     queue |-> [l \in Levels |-> << >>],
     current |-> NoThread,
     current_queue |-> 0,
     quantum |-> IF mode = "RR" THEN RRQuantum ELSE MLFQQuantum[0],
     boost_age |-> -2]

\* A thread already queued at its level is left alone.  A full round-robin
\* queue refuses the thread; a full feedback queue drops it but the thread is
\* READY all the same (scheduler.c:146-149).
scheduler_add(s, t) ==
    LET l == IF s.mode = "RR" THEN 0 ELSE LevelOf(s, t)
        refused == \/ Contains(s.queue[l], t)
                   \/ s.mode = "RR" /\ Len(s.queue[0]) >= MaxReadyQueue
    IN  IF refused THEN s
        ELSE [s EXCEPT !.queue[l] = queue_push(@, t),
                       !.level[t] = IF s.mode = "RR" THEN @ ELSE l,
                       !.state[t] = "READY"]

\* A current thread that still runs goes back to the tail of its queue before
\* the next one is taken.
Requeue(s) ==
    IF s.current = NoThread THEN s
    ELSE LET t == s.current
             l == IF s.mode = "RR" THEN 0 ELSE LevelOf(s, t)
         IN  IF s.state[t] # "RUNNING" THEN s
             ELSE [thread_yield(s, t) EXCEPT
                      !.queue[l] = IF s.mode = "RR" THEN Append(@, t)
                                   ELSE queue_push(@, t),
                      !.level[t] = IF s.mode = "RR" THEN @ ELSE l]

HasReady(s) == \E l \in Levels : s.queue[l] # << >>

\* Mutant of Chosen: the search starts at the lowest level.
ChosenFromBelow(s) == CHOOSE l \in Levels : /\ s.queue[l] # << >>
                                            /\ \A m \in Levels : m > l => s.queue[m] = << >>

Chosen(s) == CHOOSE l \in Levels : /\ s.queue[l] # << >>
                                   /\ \A m \in Levels : m < l => s.queue[m] = << >>

\* Mutant of Take: the thread that gets the CPU stays in the queue.
TakeWithoutPop(s, l) ==
    [s EXCEPT !.current = Head(s.queue[l]), !.current_queue = l,
              !.state[Head(s.queue[l])] = "RUNNING", !.quantum = Quantum(s, l)]

Take(s, l) ==
    LET t == Head(s.queue[l])
    IN  [s EXCEPT !.queue[l] = Tail(@),
                  !.current = t,
                  !.current_queue = l,
                  !.state[t] = "RUNNING",
                  !.quantum = Quantum(s, l)]

\* Nothing queued: the current thread, whatever its state, stays.
scheduler_next(s) ==
    IF HasReady(s) THEN LET r == Requeue(s) IN Take(r, Chosen(r)) ELSE s

scheduler_block(s, t) ==
    CASE s.state[t] = "DONE" -> s
      [] s.state[t] # "DONE" /\ s.current = t ->
            scheduler_next(
                [s EXCEPT !.level[t] = IF s.mode = "RR" THEN @ ELSE s.current_queue,
                          !.current = NoThread])
      [] s.state[t] # "DONE" /\ s.current # t -> RemoveFromQueues(s, t)

scheduler_unblock(s, t) == scheduler_add(s, t)

scheduler_terminate(s, t) ==
    LET left == [s EXCEPT !.current = IF @ = t THEN NoThread ELSE @]
    IN  [RemoveFromQueues(left, t) EXCEPT !.state[t] = "DONE"]

\* Mutants of scheduler_priority_boost: queue 2 is emptied and dropped; the
\* levels stay as they were; the queues are popped from their ends; the loop
\* stops before queue 2.
BoostLosingQueueTwo(s) ==
    [s EXCEPT !.queue = [l \in Levels |-> IF l = 0 THEN @[0] \o @[1] ELSE << >>],
              !.level = [t \in Threads |-> IF Contains(s.queue[1], t) THEN 0 ELSE @[t]],
              !.boost_age = 0]
BoostKeepingLevels(s) ==
    [s EXCEPT !.queue = [l \in Levels |-> IF l = 0 THEN @[0] \o @[1] \o @[2] ELSE << >>],
              !.boost_age = 0]
BoostBackwards(s) ==
    [s EXCEPT !.queue = [l \in Levels |->
                            IF l = 0 THEN @[0] \o Reverse(@[1]) \o Reverse(@[2]) ELSE << >>],
              !.level = [t \in Threads |->
                            IF t \in ToSet(s.queue[1]) \cup ToSet(s.queue[2]) THEN 0 ELSE @[t]],
              !.boost_age = 0]
BoostQueueOneOnly(s) ==
    [s EXCEPT !.queue = [l \in Levels |-> CASE l = 0 -> @[0] \o @[1]
                                            [] l = 1 -> << >>
                                            [] l = 2 -> @[2]],
              !.level = [t \in Threads |-> IF Contains(s.queue[1], t) THEN 0 ELSE @[t]],
              !.boost_age = 0]

\* Pops queue 1 and then queue 2 onto queue 0.  queue_push cannot refuse any
\* of them (QueuesAreDisjoint, SchedulerAssumption), so the result is the
\* concatenation.  The current thread and blocked threads are not touched.
scheduler_priority_boost(s) ==
    LET moved == ToSet(s.queue[1]) \cup ToSet(s.queue[2])
    IN  [s EXCEPT !.queue = [l \in Levels |->
                                IF l = 0 THEN @[0] \o @[1] \o @[2] ELSE << >>],
                  !.level = [t \in Threads |-> IF t \in moved THEN 0 ELSE @[t]],
                  !.boost_age = 0]

\* Mutant of Demote: the lowest level is forgotten.
DemoteUncapped(s) ==
    IF s.mode = "MLFQ" /\ s.state[s.current] = "RUNNING"
    THEN LET t == s.current
             l == s.current_queue + 1
         IN  [thread_yield(s, t) EXCEPT !.queue[l] = queue_push(@, t),
                                        !.level[t] = l]
    ELSE s

\* The end of a feedback quantum: one level down, to the tail of that queue.
Demote(s) ==
    IF s.mode = "MLFQ" /\ s.state[s.current] = "RUNNING"
    THEN LET t == s.current
             l == IF s.current_queue + 1 > 2 THEN 2 ELSE s.current_queue + 1
         IN  [thread_yield(s, t) EXCEPT !.queue[l] = queue_push(@, t),
                                        !.level[t] = l]
    ELSE s

\* The clock of the boost, and that of the quantum.
Age(s) == [s EXCEPT !.boost_age = IF s.mode = "MLFQ" THEN @ + 1 ELSE @]
CountDown(s) == [s EXCEPT !.quantum = IF @ > 0 THEN @ - 1 ELSE 0]

\* Mutant of scheduler_tick: without a current thread it does nothing.
TickWithoutDispatch(s) ==
    LET aged == Age(s)
        spent == CountDown(aged)
        after == CASE s.current = NoThread -> aged
                   [] s.current # NoThread /\ spent.quantum = 0 ->
                            scheduler_next(Demote(spent))
                   [] s.current # NoThread /\ spent.quantum # 0 -> spent
    IN  IF s.mode = "MLFQ" /\ aged.boost_age >= BoostInterval
        THEN scheduler_priority_boost(after)
        ELSE after

scheduler_tick(s) ==
    LET aged == Age(s)
        spent == CountDown(aged)
        after == CASE s.current = NoThread -> scheduler_next(aged)
                   [] s.current # NoThread /\ spent.quantum = 0 ->
                            scheduler_next(Demote(spent))
                   [] s.current # NoThread /\ spent.quantum # 0 -> spent
    IN  IF s.mode = "MLFQ" /\ aged.boost_age >= BoostInterval
        THEN scheduler_priority_boost(after)
        ELSE after

-----------------------------------------------------------------------------
(* The calls of the kernel *)

\* Where kernel_run is in its loop: steps 10 and 1-3 (wake-ups and arrivals),
\* 5 (the current command), 5.5-6 (detection, crash, page fault), 7.
Phases == {"events", "execute", "faults", "tick"}

Init == /\ \E mode \in {"RR", "MLFQ"} : sched = scheduler_init(mode)
        /\ arrived = {}
        /\ phase = "events"

\* Step 1 of kernel_run, and kernel_init for the processes that are there from
\* tick 0: every thread of a NEW process is added, once.
Arrive(t) ==
    /\ phase = "events"
    /\ t \notin arrived
    /\ sched' = scheduler_add(sched, t)
    /\ arrived' = arrived \cup {t}
    /\ UNCHANGED phase

\* Mutant of Unblock: the caller asks only whether the thread runs.
UnblockUnlessRunning(t) ==
    /\ phase # "tick"
    /\ sched.state[t] # "RUNNING"
    /\ sched' = scheduler_unblock(thread_unblock(sched, t), t)
    /\ UNCHANGED <<arrived, phase>>

\* unblock_thread, for the completion of an I/O or a page fault, a buffer
\* wake-up or a resource grant: the caller has checked that t is T_BLOCKED.
Unblock(t) ==
    /\ phase # "tick"
    /\ sched.state[t] = "BLOCKED"
    /\ sched' = scheduler_unblock(thread_unblock(sched, t), t)
    /\ UNCHANGED <<arrived, phase>>

Runs(t) == t = sched.current /\ sched.state[t] = "RUNNING"

\* Mutant of Dispatch: the current thread is replaced although it runs.
DispatchAlways ==
    /\ phase = "events"
    /\ sched' = scheduler_next(sched)
    /\ phase' = "execute"
    /\ UNCHANGED arrived

\* Step 4.
Dispatch ==
    /\ phase = "events"
    /\ sched' = IF \E t \in Threads : Runs(t) THEN sched ELSE scheduler_next(sched)
    /\ phase' = "execute"
    /\ UNCHANGED arrived

\* Step 5: the command changes nothing in the scheduler (or nobody runs),
Compute ==
    /\ phase = "execute"
    /\ phase' = "faults"
    /\ UNCHANGED <<sched, arrived>>

\* or it blocks the current thread (I/O, buffer, resource),
BlockCurrent(t) ==
    /\ phase = "execute"
    /\ Runs(t)
    /\ sched' = scheduler_block(thread_block(sched, t), t)
    /\ phase' = "faults"
    /\ UNCHANGED arrived

\* or it uses up the burst of the current thread.
Terminate(t) ==
    /\ phase = "execute"
    /\ Runs(t)
    /\ sched' = scheduler_terminate(sched, t)
    /\ phase' = "faults"
    /\ UNCHANGED arrived

\* Steps 5.5 and 5.6: cleanup_process writes T_DONE into the threads of a
\* crashed or victim process itself and never calls scheduler_terminate.
Kill(t) ==
    /\ phase = "faults"
    /\ t \in arrived
    /\ sched.state[t] # "DONE"
    /\ sched' = [sched EXCEPT !.state[t] = "DONE"]
    /\ UNCHANGED <<arrived, phase>>

\* Step 6: the thread that runs by now has a page fault, or not.
PageFault(t) ==
    /\ phase = "faults"
    /\ Runs(t)
    /\ sched' = scheduler_block(thread_block(sched, t), t)
    /\ phase' = "tick"
    /\ UNCHANGED arrived

NoPageFault ==
    /\ phase = "faults"
    /\ phase' = "tick"
    /\ UNCHANGED <<sched, arrived>>

\* Step 7.
Tick ==
    /\ phase = "tick"
    /\ sched' = scheduler_tick(sched)
    /\ phase' = "events"
    /\ UNCHANGED arrived

Calls == \/ \E t \in Threads : Arrive(t) \/ Unblock(t)
         \/ Dispatch
         \/ Compute
         \/ \E t \in Threads : BlockCurrent(t) \/ Terminate(t) \/ PageFault(t)
         \/ NoPageFault
         \/ Tick

Next == Calls \/ \E t \in Threads : Kill(t)

Spec == Init /\ [][Next]_vars

\* No crash and no deadlock victim; kernel_run is a loop that does not stop
\* while a process is alive.
FaultFreeSpec == Init /\ [][Calls]_vars /\ WF_vars(Calls)

-----------------------------------------------------------------------------
(* Properties *)

Holds(Q, t) == \E l \in Levels : Contains(Q[l], t)

Sched == [mode : {"RR", "MLFQ"},
          state : [Threads -> ThreadStates],
          level : [Threads -> -1..2],
          queue : [Levels -> Seq(Threads)],
          current : Threads \cup {NoThread},
          current_queue : Levels,
          quantum : Nat,
          boost_age : Int]

Disjoint(Q) ==
    \A l, m \in Levels : \A i \in 1..Len(Q[l]), j \in 1..Len(Q[m]) :
        Q[l][i] = Q[m][j] => l = m /\ i = j

QueuedAtLevel(s) ==
    /\ s.mode = "RR" => Len(s.queue[1]) = 0 /\ Len(s.queue[2]) = 0
    /\ s.mode = "MLFQ" =>
         \A l \in Levels : \A i \in 1..Len(s.queue[l]) : s.level[s.queue[l][i]] = l

\* What every call finds and leaves behind when the kernel has handed over the
\* threads in A.
Settled(s, A) ==
    /\ s \in Sched
    /\ Disjoint(s.queue)
    /\ QueuedAtLevel(s)
    /\ \A t \in Threads :
         /\ s.state[t] = "RUNNING" => t = s.current
         /\ t \in A /\ s.state[t] = "READY" => Holds(s.queue, t)
         /\ Holds(s.queue, t) => t \in A /\ s.state[t] \in {"READY", "DONE"}
         /\ t \notin A => s.state[t] = "READY"
    /\ s.current # NoThread =>
         /\ s.current \in A
         /\ ~ Holds(s.queue, s.current)
         /\ s.state[s.current] # "BLOCKED"
         /\ s.mode = "MLFQ" => s.level[s.current] = s.current_queue
    /\ s.mode = "RR" => s.current_queue = 0

\* The shape of the scheduler's data; in particular every level the code
\* computes is one of the three queues it indexes with it.
TypeOK ==
    /\ sched \in Sched
    /\ arrived \in SUBSET Threads
    /\ phase \in Phases

\* No thread is queued twice, at one level or at two: find_in_queue looks at
\* one queue only, so a level changed behind its back would duplicate a thread.
QueuesAreDisjoint == Disjoint(sched.queue)

\* The thread that holds the CPU waits in no queue, and no other one runs.
OneThreadRuns ==
    /\ sched.current # NoThread => ~ Holds(sched.queue, sched.current)
    /\ \A t \in Threads : sched.state[t] = "RUNNING" => t = sched.current

\* No thread is lost: a READY thread the kernel has handed over is queued, and
\* what is queued is not blocked (it may have been killed where it stood).
NoThreadIsLost ==
    \A t \in Threads :
        /\ t \in arrived /\ sched.state[t] = "READY" => Holds(sched.queue, t)
        /\ Holds(sched.queue, t) => t \in arrived /\ sched.state[t] \in {"READY", "DONE"}
        /\ sched.state[t] = "BLOCKED" => t # sched.current

\* In feedback mode mlfq_level is the queue a thread is in, and current_queue
\* the level of the thread that runs; round robin knows no levels.  The next
\* scheduler_add, Demote and scheduler_block all trust this.
LevelsMatchQueues ==
    /\ sched.mode = "RR" =>
          sched.queue[1] = << >> /\ sched.queue[2] = << >> /\ sched.current_queue = 0
    /\ sched.mode = "MLFQ" =>
          /\ \A l \in Levels : \A i \in 1..Len(sched.queue[l]) :
                sched.level[sched.queue[l][i]] = l
          /\ sched.current # NoThread =>
                sched.level[sched.current] = sched.current_queue

\* Threads are served in the order in which they queue up at a level: of two
\* threads queued there the later one never gets in front of the other one
\* nor gets the CPU while the other one still waits, however the boost merges
\* the queues.
Precedes(s, t, u) ==
    \E l \in Levels : \E i, j \in 1..Len(s.queue[l]) :
        i < j /\ s.queue[l][i] = t /\ s.queue[l][j] = u
FirstComeFirstServed ==
    [][\A t, u \in Threads : Precedes(sched, t, u) =>
          /\ ~ Precedes(sched', u, t)
          /\ sched'.state[u] = "RUNNING" => ~ Holds(sched'.queue, t)]_vars

\* A running thread loses the CPU to another one only when its quantum is used
\* up: neither an arrival nor a wake-up nor the boost of a thread of a higher
\* level preempts it.
NoEarlyPreemption ==
    [][\A t \in Threads :
          sched.state[t] = "RUNNING" /\ sched'.state[t] = "READY"
            => sched.quantum <= 1]_vars

\* The thread that gets the CPU comes from the highest level that has one, and
\* it gets that level's full quantum; after a boost step the merged queue 0
\* does not count, the boost comes after the choice (scheduler.c:313-314).
HighestLevelFirst ==
    [][\A t \in Threads :
          sched.state[t] # "RUNNING" /\ sched'.state[t] = "RUNNING"
            => /\ sched'.quantum = Quantum(sched, sched'.current_queue)
               /\ sched'.boost_age # 0 =>
                    \A l \in Levels :
                        l < sched'.current_queue => sched'.queue[l] = << >>]_vars

\* Without faults the end of a tick and the start of the next never leave the
\* CPU idle while a thread that was handed over is READY.
WorkConserving ==
    [][phase # phase' /\ phase' \in {"events", "execute"} =>
          ((\E t \in arrived : sched'.state[t] = "READY")
             => \E t \in arrived : sched'.state[t] = "RUNNING")]_vars

\* Without faults a finished thread never gets the CPU back.
DoneIsFinal ==
    [][\A t \in Threads : sched.state[t] = "DONE" => sched'.state[t] = "DONE"]_vars

\* Without faults no thread starves: the report promises "starvation-free
\* behaviour" of the boost (docs/report.txt:100), round robin owes it too.
NoStarvation ==
    \A t \in Threads :
        (t \in arrived /\ sched.state[t] = "READY") ~> (sched.state[t] = "RUNNING")
=============================================================================
