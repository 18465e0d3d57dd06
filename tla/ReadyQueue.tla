----------------------------- MODULE ReadyQueue ------------------------------
(***************************************************************************)
(* The ring arrays behind the sequences of Scheduler: struct ReadyQueue of *)
(* scheduler.h with the functions on it in scheduler.c, which exist twice, *)
(* for the feedback queues and for rr_ready_queue.                         *)
(***************************************************************************)
EXTENDS Integers, FiniteSets, FiniteSetsExt, Sequences

CONSTANTS
    Threads,        \* the TCBs
    MaxReadyQueue   \* MAX_READY_QUEUE

ASSUME ReadyQueueAssumption ==
    Threads # {} /\ IsFiniteSet(Threads) /\ MaxReadyQueue \in Nat \ {0}

VARIABLES
    q,          \* the struct: the array queue, head and count
    popped      \* what the last operation returned or took out, << >> if nothing

vars == <<q, popped>>

Slots == 0..(MaxReadyQueue - 1)
None == -1

\* The slot of the i-th element, and the place of a slot in the queue.
Slot(r, i) == (r.head + i) % MaxReadyQueue
Place(r, s) == (s - r.head) % MaxReadyQueue

find_in_queue(r, t) ==
    LET found == {i \in 0..(r.count - 1) : r.queue[Slot(r, i)] = t}
    IN  IF found = {} THEN None ELSE Slot(r, Min(found))

\* Mutant of queue_remove_at: the shift ends at the end of the array.
RemoveWithoutWrap(r, idx) ==
    IF idx = r.head THEN [r EXCEPT !.head = Slot(r, 1), !.count = @ - 1]
    ELSE [r EXCEPT !.queue = [s \in Slots |->
                        IF s \in idx..(MaxReadyQueue - 2) THEN @[s + 1] ELSE @[s]],
                   !.count = @ - 1]

\* The head is dropped; what stands behind any other slot moves up.
queue_remove_at(r, idx) ==
    CASE r.count <= 0 -> r
      [] r.count > 0 /\ idx = r.head -> [r EXCEPT !.head = Slot(r, 1), !.count = @ - 1]
      [] r.count > 0 /\ idx # r.head ->
            [r EXCEPT !.queue = [s \in Slots |->
                          IF Place(r, s) \in Place(r, idx)..(r.count - 2)
                          THEN @[(s + 1) % MaxReadyQueue] ELSE @[s]],
                      !.count = @ - 1]

queue_push(r, t) ==
    IF r.count >= MaxReadyQueue \/ find_in_queue(r, t) # None THEN r
    ELSE [r EXCEPT !.queue[Slot(r, r.count)] = t, !.count = @ + 1]

queue_pop(r) ==
    IF r.count <= 0 THEN r ELSE [r EXCEPT !.head = Slot(r, 1), !.count = @ - 1]

-----------------------------------------------------------------------------
(* Any sequence of the calls scheduler.c makes *)

\* What is in the slots before the first push is never read.
Init == /\ \E t \in Threads : q = [queue |-> [s \in Slots |-> t], head |-> 0, count |-> 0]
        /\ popped = << >>

Push(t) == q' = queue_push(q, t) /\ popped' = << >>

Pop == /\ q' = queue_pop(q)
       /\ popped' = IF q.count > 0 THEN <<q.queue[q.head]>> ELSE << >>

\* scheduler_block and scheduler_terminate.
TakeOut(t) ==
    /\ find_in_queue(q, t) # None
    /\ q' = queue_remove_at(q, find_in_queue(q, t))
    /\ popped' = <<t>>

Next == Pop \/ \E t \in Threads : Push(t) \/ TakeOut(t)
Spec == Init /\ [][Next]_vars

-----------------------------------------------------------------------------
(* Properties *)

\* The content of the ring, oldest thread first.
Content == [i \in 1..q.count |-> q.queue[Slot(q, i - 1)]]

\* The ring is the sequence Scheduler works with, wherever its head is and
\* however often it has wrapped around, and returns what that would.
TheQueue == INSTANCE ThreadQueue WITH Size <- MaxReadyQueue, content <- Content
ImplementsQueue == TheQueue!Spec
=============================================================================
