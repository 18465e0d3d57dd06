---------------------------- MODULE BoundedBuffer ----------------------------
(***************************************************************************)
(* The sensor buffer of src/src/sync.c: a ring of slots under a mutex with *)
(* the condition variables not_full and not_empty.  A call that cannot     *)
(* proceed registers its process and returns -1; the kernel then blocks    *)
(* the thread.  Calls report the processes to wake; wake_buffer_waiters of *)
(* kernel.c empties the condition variables once in every tick.            *)
(*                                                                         *)
(* Every function runs to its end before the next one starts: fleetos is   *)
(* one thread of execution, and the mutex is a record in its memory.       *)
(***************************************************************************)
EXTENDS Integers, FiniteSets, SequencesExt, Compaction

CONSTANTS
    Pids, NoPid,    \* the processes; the -1 of owner_pid
    Items,          \* what producers put in
    Size,           \* RING_BUFFER_SIZE
    MaxProcs,       \* MAX_PROCS: the mutex queue, one broadcast
    MaxThreads      \* MAX_THREADS: a condition variable's queue

ASSUME BufferAssumption ==
    /\ IsFiniteSet(Pids) /\ NoPid \notin Pids
    /\ Size \in Nat \ {0}
    /\ MaxProcs \in Nat /\ MaxThreads \in Nat
    /\ Cardinality(Pids) <= MaxProcs /\ MaxProcs <= MaxThreads

VARIABLES
    buffer,     \* sensor_buf
    refused,    \* the processes whose last call returned -1 and that have not
                \* been reported since
    turn        \* "call" until the command of the tick is done, then "wake"

vars == <<buffer, refused, turn>>

Queues == {"mutex", "not_full", "not_empty"}
Capacity(q) == IF q = "mutex" THEN MaxProcs ELSE MaxThreads
Slots == 0..(Size - 1)

-----------------------------------------------------------------------------
(* sync.c.  An operation returns the new buffer, the -1 or 0 of the code as *)
(* ok, and the processes it reports as wake.                                *)

buffer_init(item) ==
    [slot |-> [i \in Slots |-> item], in |-> 0, out |-> 0, count |-> 0,
     owner |-> NoPid, wait |-> [q \in Queues |-> << >>]]

locked(b) == b.owner # NoPid

\* Mutant of Register: a process that is registered is registered again.
RegisterAgain(b, q, p) == [b EXCEPT !.wait[q] = Append(@, p)]

Register(b, q, p) ==
    IF Contains(b.wait[q], p) \/ Len(b.wait[q]) >= Capacity(q) THEN b
    ELSE [b EXCEPT !.wait[q] = Append(@, p)]

\* The head of a queue, to be reported, and the queue without it.
FirstWaiter(b, q) == IF b.wait[q] = << >> THEN << >> ELSE <<Head(b.wait[q])>>
DropFirst(b, q) ==
    IF b.wait[q] = << >> THEN b ELSE [b EXCEPT !.wait[q] = Tail(@)]

mutex_unlock(b) == [DropFirst(b, "mutex") EXCEPT !.owner = NoPid]

\* cond_wait gives the mutex back and drops what mutex_unlock reports.
cond_wait(b, q, p) == Register(mutex_unlock(b), q, p)

Refused(b) == [buffer |-> b, ok |-> FALSE, wake |-> << >>]

\* The end of a successful call: one waiter of the other side is reported,
\* then the first process that waits for the mutex.
Granted(b, q) ==
    LET signalled == DropFirst(b, q)
    IN  [buffer |-> mutex_unlock(signalled),
         ok |-> TRUE,
         wake |-> FirstWaiter(b, q) \o FirstWaiter(signalled, "mutex")]

buffer_produce(b, item, p) ==
    LET held == [b EXCEPT !.owner = p]
        put == [held EXCEPT !.slot[b.in] = item,
                            !.in = (@ + 1) % Size,
                            !.count = @ + 1]
    IN  CASE locked(b) -> Refused(Register(b, "mutex", p))
          [] ~ locked(b) /\ b.count >= Size -> Refused(cond_wait(held, "not_full", p))
          [] ~ locked(b) /\ b.count < Size -> Granted(put, "not_empty")

\* Mutant of buffer_consume: the index stays where it is.
ConsumeInPlace(b, p) ==
    IF b.count <= 0 THEN Refused(cond_wait([b EXCEPT !.owner = p], "not_empty", p))
    ELSE Granted([b EXCEPT !.owner = p, !.count = @ - 1], "not_full")

buffer_consume(b, p) ==
    LET held == [b EXCEPT !.owner = p]
        got == [held EXCEPT !.out = (@ + 1) % Size, !.count = @ - 1]
    IN  CASE locked(b) -> Refused(Register(b, "mutex", p))
          [] ~ locked(b) /\ b.count <= 0 -> Refused(cond_wait(held, "not_empty", p))
          [] ~ locked(b) /\ b.count > 0 -> Granted(got, "not_full")

buffer_remove_pid(b, p) ==
    [b EXCEPT !.wait = [q \in Queues |-> Keep(@[q], Pids \ {p})]]

buffer_release_mutex(b, p) == IF b.owner = p THEN mutex_unlock(b) ELSE b

\* cond_broadcast hands out the first MaxProcs waiters and forgets the rest.
Broadcast(b, q) ==
    [buffer |-> [b EXCEPT !.wait[q] = << >>],
     wake |-> SubSeq(b.wait[q], 1, IF Len(b.wait[q]) < MaxProcs
                                   THEN Len(b.wait[q]) ELSE MaxProcs)]
Nobody(b) == [buffer |-> b, wake |-> << >>]

\* Mutant of wake_buffer_waiters: the producers are forgotten.
WakeConsumersOnly(b) ==
    IF b.count > 0 THEN Broadcast(b, "not_empty") ELSE Nobody(b)

\* kernel.c: what wake_buffer_waiters does to the buffer, and whom it reports.
wake_buffer_waiters(b) ==
    LET e == IF b.count > 0 THEN Broadcast(b, "not_empty") ELSE Nobody(b)
        f == IF b.count < Size THEN Broadcast(e.buffer, "not_full") ELSE Nobody(e.buffer)
        m == IF locked(b) THEN Nobody(f.buffer)
             ELSE [buffer |-> DropFirst(f.buffer, "mutex"),
                   wake |-> FirstWaiter(f.buffer, "mutex")]
    IN  [buffer |-> m.buffer, wake |-> e.wake \o f.wake \o m.wake]

-----------------------------------------------------------------------------
(* The calls of one turn of kernel_run: at most one command, then cleanups,   *)
(* then wake_buffer_waiters.  Any process may call, refused or not, and even  *)
(* after its cleanup: the kernel also wakes threads that were not reported,   *)
(* and threads of a terminated process may run on.                            *)

Init == /\ \E item \in Items : buffer = buffer_init(item)
        /\ refused = {}
        /\ turn = "call"

Returns(result, p) ==
    /\ turn = "call"
    /\ buffer' = result.buffer
    /\ refused' = (IF result.ok THEN refused \ {p} ELSE refused \cup {p})
                      \ ToSet(result.wake)
    /\ turn' = "wake"

\* Step 5 of kernel_run: CMD_PRODUCE_DATA, CMD_CONSUME_DATA, or anything else.
Produce(p) == \E item \in Items : Returns(buffer_produce(buffer, item, p), p)
Consume(p) == Returns(buffer_consume(buffer, p), p)
OtherCommand ==
    /\ turn = "call"
    /\ turn' = "wake"
    /\ UNCHANGED <<buffer, refused>>

\* cleanup_process: a thread ended, was a deadlock victim or has crashed.
Cleanup(p) ==
    /\ turn = "wake"
    /\ buffer' = buffer_release_mutex(buffer_remove_pid(buffer, p), p)
    /\ refused' = refused \ {p}
    /\ UNCHANGED turn

\* Step 10.
EndOfTick ==
    LET woken == wake_buffer_waiters(buffer)
    IN  /\ turn = "wake"
        /\ buffer' = woken.buffer
        /\ refused' = refused \ ToSet(woken.wake)
        /\ turn' = "call"

Next == \/ \E p \in Pids : Produce(p) \/ Consume(p) \/ Cleanup(p)
        \/ OtherCommand
        \/ EndOfTick

Spec == Init /\ [][Next]_vars

-----------------------------------------------------------------------------
(* Properties *)

Buffers == [slot : [Slots -> Items], in : Slots, out : Slots, count : 0..Size,
            owner : Pids \cup {NoPid}, wait : [Queues -> Seq(Pids)]]

Ring(b) == b.in = (b.out + b.count) % Size

\* What every call finds and leaves behind: the mutex is free.
Sound(b) ==
    /\ b \in Buffers
    /\ b.owner = NoPid /\ b.wait["mutex"] = << >>
    /\ \A q \in Queues : IsInjective(b.wait[q])
    /\ Ring(b)

\* Nobody waits for a condition that holds.
Settled(b) == /\ b.wait["not_empty"] # << >> => b.count = 0
              /\ b.wait["not_full"] # << >> => b.count = Size

\* The shape of the data; the ring indices stay in the ring.
TypeOK ==
    /\ buffer \in Buffers
    /\ refused \in SUBSET Pids
    /\ turn \in {"call", "wake"}

\* The mutex is free between two calls and nobody waits for it: a call that
\* waits for a condition has given it back, so has the one that went through.
MutexIsFree == ~ locked(buffer) /\ buffer.wait["mutex"] = << >>

\* No wake-up is lost in the buffer: a refused process that nobody reported is
\* registered.  No process is registered twice at a condition, so no queue
\* overflows and no broadcast forgets a process.
RefusedAreRegistered ==
    /\ \A p \in refused : \E q \in Queues : Contains(buffer.wait[q], p)
    /\ \A q \in Queues : IsInjective(buffer.wait[q]) /\ Len(buffer.wait[q]) <= MaxProcs

\* Producers and consumers never wait at the same time, and nobody waits into
\* the next tick for a condition that holds already.
OneSideWaits ==
    /\ buffer.wait["not_full"] = << >> \/ buffer.wait["not_empty"] = << >>
    /\ turn = "call" =>
         /\ buffer.wait["not_empty"] # << >> => buffer.count = 0
         /\ buffer.wait["not_full"] # << >> => buffer.count = Size

\* The ring is the channel: what is between out and in, oldest item first.
Content == [i \in 1..buffer.count |-> buffer.slot[(buffer.out + i - 1) % Size]]
TheChannel == INSTANCE Channel WITH content <- Content
ImplementsChannel == TheChannel!Spec
=============================================================================
