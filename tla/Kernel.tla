------------------------------- MODULE Kernel --------------------------------
(***************************************************************************)
(* kernel_run of src/src/kernel.c: the loop that plays one tick after the  *)
(* other on the scheduler, the sensor buffer, the resource graph, the      *)
(* memory and the file system, for the processes that kernel_init and      *)
(* drone.c create.  One action for each numbered step of the loop.         *)
(*                                                                         *)
(* Process p has the main thread 2p and the worker 2p + 1, as kernel_init  *)
(* numbers them: a number can be a process and a thread, and the kernel    *)
(* hands the one to find_thread where it means the other.                  *)
(***************************************************************************)
EXTENDS Integers, FiniteSets, SequencesExt, Compaction

CONSTANTS
    NumProcs,           \* proc_count
    Importance,         \* the priority of every process
    Arrival,            \* its arrival_time
    Program,            \* its commands
    Bursts,             \* the bursts the threads may have
    Configs,            \* the command lines: mode, deadlock, crash, interactive;
                        \* crash_tick is the 30 of kernel.c:670
    MaxTicks,           \* max_ticks
    RRQuantum, MLFQQuantum, BoostInterval, MaxReadyQueue,       \* scheduler.c
    RingBufferSize, MaxProcs, MaxThreads,                       \* sync.c
    FrameCount, MaxPages, MaxFiles, BlockCount,
    IODuration, PageFaultDuration, PageFaultInterval,
    DetectInterval, SnapshotInterval,
    MaxPending,         \* MAX_PROCS * 2, the slots of pending_events
    Lines,              \* the lines a user types at the prompt
    LeftOver            \* values of step_target that an earlier run may have left

Pids == 0..(NumProcs - 1)
Tids == 0..(2 * NumProcs - 1)
None == -1
MainThread(p) == 2 * p
Owner(t) == t \div 2
ThreadsOf(p) == {2 * p, 2 * p + 1}
Events == 0..(MaxPending - 1)

ASSUME KernelAssumption ==
    /\ NumProcs \in Nat \ {0} /\ NumProcs <= MaxProcs
    /\ 2 * NumProcs <= MaxThreads /\ MaxProcs <= MaxThreads
    /\ Importance \in [Pids -> {"CRITICAL", "HIGH", "NORMAL", "LOW"}]
    /\ Arrival \in [Pids -> Nat]
    /\ \A t \in Tids : Len(Program[t]) \in Nat \ {0}
    /\ Bursts \subseteq [Tids -> Nat]
    /\ \A c \in Configs : c.mode \in {"RR", "MLFQ"}
    /\ RRQuantum \in Nat \ {0} /\ MLFQQuantum \in [0..2 -> Nat \ {0}]
    /\ BoostInterval \in Nat \ {0} /\ MaxReadyQueue \in Nat /\ 2 * NumProcs <= MaxReadyQueue
    /\ {MaxProcs, MaxThreads, RingBufferSize, FrameCount, MaxPages, MaxFiles} \subseteq Nat \ {0}
    /\ {IODuration, PageFaultDuration, MaxPending} \subseteq Nat
    /\ \A line \in Lines : /\ line = [cmd |-> line.cmd, n |-> line.n]
                           /\ line.n \in Nat /\ (line.n > 0 => line.cmd = "run_n")
    /\ MaxTicks \in Nat /\ DetectInterval \in Nat \ {0} /\ SnapshotInterval \in Nat \ {0}
    /\ 2 * NumProcs <= FrameCount /\ 2 <= MaxPages      \* what kernel_init loads
    /\ 3 <= MaxFiles                                    \* and creates
    /\ LeftOver \subseteq Nat

VARIABLES
    config,     \* config
    tick,       \* current_tick
    step,       \* the step of the loop that comes next
    console,    \* the prompt
    asked,      \* how many ticks the user has asked for: a history variable
    sys         \* everything else: the components and the kernel's own tables

vars == <<config, tick, step, console, asked, sys>>

\* The kernel's own part of sys:
\*   pc, burst, reason        local_pc, burst_remaining, wait_reason of the TCBs
\*   pstate, preason          state and blocked_reason of the PCBs
\*   wait_time, completion    wait_time and completion_tick of the PCBs
\*   phase                    deadlock_phase, 1 standing for every value above 0
\*   pending, pending_count   pending_events
\*   io_seq
-----------------------------------------------------------------------------
(* The components *)

\* The resource a process asks for in CMD_ACQUIRE_RESOURCE (kernel.c:580-589).
LandingPad == 0
ChargeStation == 1
CommChannel == 2
Wants == [p \in Pids |-> [k \in 0..1 |->
            CASE p = 0 -> IF k = 0 THEN LandingPad ELSE ChargeStation
              [] p = 1 -> IF k = 0 THEN ChargeStation ELSE LandingPad
              [] p > 1 -> CommChannel]]
\* Mutant of Rank: the enumeration is read from its other end.
RankUpsideDown == [p \in Pids |-> CASE Importance[p] = "CRITICAL" -> 3
                                    [] Importance[p] = "HIGH" -> 2
                                    [] Importance[p] = "NORMAL" -> 1
                                    [] Importance[p] = "LOW" -> 0]

Rank == [p \in Pids |-> CASE Importance[p] = "CRITICAL" -> 0
                          [] Importance[p] = "HIGH" -> 1
                          [] Importance[p] = "NORMAL" -> 2
                          [] Importance[p] = "LOW" -> 3]

\* What CMD_PRODUCE_DATA puts into the buffer.
Item(p) == tick * 100 + p
Items == 0..(100 * MaxTicks + NumProcs)

\* The steps between the command of a tick and the wake-ups of its end.
Late == {"detect", "crash", "page_fault", "tick", "count", "snapshot", "wake"}

BlockedFor(s, why) == {t \in Tids : s.sched.state[t] = "BLOCKED" /\ s.reason[t] = why}
Arrived == UNION {ThreadsOf(p) : p \in {q \in Pids : sys.pstate[q] # "NEW"}}
ActiveEvents(s, why) == {i \in Events : /\ i < s.pending_count
                                        /\ s.pending[i].active
                                        /\ s.pending[i].reason = why}

S == INSTANCE Scheduler WITH
        Threads <- Tids, NoThread <- None,
        Priority <- [t \in Tids |-> Importance[Owner(t)]],
        sched <- sys.sched, arrived <- Arrived,
        phase <- CASE step = "execute" -> "execute"
                   [] step \in {"detect", "crash", "page_fault"} -> "faults"
                   [] step = "tick" -> "tick"
                   [] OTHER -> "events"
B == INSTANCE BoundedBuffer WITH
        NoPid <- None, Items <- Items, Size <- RingBufferSize,
        buffer <- sys.buffer, refused <- {Owner(t) : t \in BlockedFor(sys, "MUTEX_WAIT")},
        turn <- IF step \in Late THEN "wake" ELSE "call"
G == INSTANCE ResourceGraph WITH
        NumResources <- 3,
        graph <- sys.graph, phase <- sys.phase,
        thread <- [p \in Pids |->
                     IF MainThread(p) \in BlockedFor(sys, "RESOURCE_WAIT") THEN "BLOCKED"
                     ELSE IF sys.sched.state[MainThread(p)] = "DONE" THEN "DONE" ELSE "READY"]
M == INSTANCE Memory WITH
        NoPid <- None, MaxTick <- MaxTicks, mem <- sys.mem,
        faults <- {<<sys.pending[i].pid, sys.pending[i].page>> :
                      i \in ActiveEvents(sys, "PAGE_FAULT")}
F == INSTANCE Filesystem WITH NoPid <- None, fs <- sys.fs
C == INSTANCE Console

\* for (x = 0; ..) s = op(s, x), over the numbers below n.
ForEach(n, s, op(_, _)) ==
    LET after[x \in 0..n] == IF x = 0 THEN s ELSE op(after[x - 1], x - 1)
    IN  after[n]

-----------------------------------------------------------------------------
(* Threads and processes *)

\* Mutant of sync_pcb_state: without the return for a terminated process.
SyncTerminated(s, p) ==
    LET In(state) == \E t \in ThreadsOf(p) : s.sched.state[t] = state
    IN  [s EXCEPT !.pstate[p] = CASE In("RUNNING") -> "RUNNING"
                                  [] ~ In("RUNNING") /\ In("READY") -> "READY"
                                  [] ~ In("RUNNING") /\ ~ In("READY") /\ In("BLOCKED") -> "BLOCKED"
                                  [] OTHER -> @]

\* sync_pcb_state_from_threads.
sync_pcb_state(s, p) ==
    LET live == {t \in ThreadsOf(p) : s.sched.state[t] # "DONE"}
        In(state) == \E t \in live : s.sched.state[t] = state
        first == CHOOSE t \in live : \A u \in live : t <= u
        state == IF In("RUNNING") THEN "RUNNING" ELSE IF In("READY") THEN "READY" ELSE "BLOCKED"
    IN  IF s.pstate[p] \in {"TERMINATED", "NEW"} \/ live = {} THEN s
        ELSE [s EXCEPT !.pstate[p] = state,
                       !.preason[p] = IF state = "BLOCKED" THEN s.reason[first] ELSE "NONE"]

\* Mutant of block_thread: the scheduler is not told.
BlockBehindScheduler(s, t, why) ==
    IF s.sched.state[t] = "BLOCKED" THEN s
    ELSE sync_pcb_state([s EXCEPT !.sched = S!thread_block(@, t), !.reason[t] = why], Owner(t))

\* The process of the thread that gets the CPU instead is not told.
block_thread(s, t, why) ==
    IF s.sched.state[t] = "BLOCKED" THEN s
    ELSE sync_pcb_state([s EXCEPT !.sched = S!scheduler_block(S!thread_block(@, t), t),
                                  !.reason[t] = why], Owner(t))

\* The callers have checked that t is blocked.
unblock_thread(s, t) ==
    sync_pcb_state([s EXCEPT !.sched = S!scheduler_unblock(S!thread_unblock(@, t), t),
                             !.reason[t] = "NONE"], Owner(t))

\* Every thread of p that is blocked for this reason, in the order of the table.
UnblockIf(s, t, p, why) ==
    IF Owner(t) = p /\ t \in BlockedFor(s, why) THEN unblock_thread(s, t) ELSE s
UnblockAll(s, p, why) ==
    ForEach(2 * NumProcs, s, LAMBDA r, t : UnblockIf(r, t, p, why))

\* The kernel looks for a thread with the number of the process.
WakeNumber(s, p) ==
    IF p \in Tids /\ s.sched.state[p] = "BLOCKED" THEN unblock_thread(s, p) ELSE s
WakeReported(s, pids) == ForEach(Len(pids), s, LAMBDA r, i : WakeNumber(r, pids[i + 1]))

Advance(s, t) == [s EXCEPT !.pc[t] = (@ + 1) % Len(Program[t]), !.burst[t] = @ - 1]

\* command_ticks_remaining is 1 before every command.
thread_execute(s, t) ==
    IF s.sched.state[t] # "RUNNING" \/ s.burst[t] <= 0 THEN s ELSE Advance(s, t)

\* Mutant of deadlock_wake_callback: it looks for another reason.
GrantWithoutWake(s, p) == s

\* deadlock_wake_callback.
ResumeIf(s, t, p) ==
    IF Owner(t) = p /\ t \in BlockedFor(s, "RESOURCE_WAIT")
    THEN Advance([unblock_thread(s, t) EXCEPT !.phase[p] = 1], t) ELSE s
deadlock_wake_callback(s, p) ==
    ForEach(2 * NumProcs, s, LAMBDA r, t : ResumeIf(r, t, p))

\* Mutant of ReleaseResources: the victim keeps what it holds.
ReleaseNothing(s, p) == s

\* deadlock_cleanup_process, and deadlock_wake_waiters for every resource.
ReleaseResources(s, p) ==
    LET freed == G!deadlock_resolve(s.graph, p)
    IN  ForEach(Len(freed.granted), [s EXCEPT !.graph = freed.graph],
                LAMBDA r, i : deadlock_wake_callback(r, freed.granted[i + 1]))

\* cleanup_process without and with release_resources.
Bury(s, p) ==
    [s EXCEPT
        !.pending = [i \in Events |->
            IF i < s.pending_count /\ @[i].pid = p THEN [@[i] EXCEPT !.active = FALSE] ELSE @[i]],
        !.buffer = B!buffer_release_mutex(B!buffer_remove_pid(@, p), p),
        !.mem = M!mem_free_process(@, p),
        !.pstate[p] = "TERMINATED",
        !.completion[p] = tick,
        !.sched.state = [t \in Tids |-> IF Owner(t) = p THEN "DONE" ELSE @[t]]]
cleanup_process(s, p) == Bury(s, p)
\* Mutant of cleanup_and_release: the files are left behind.
CleanupKeepingFiles(s, p) == Bury(ReleaseResources(s, p), p)

cleanup_and_release(s, p) ==
    Bury([ReleaseResources(s, p) EXCEPT !.fs = F!fs_cleanup_process(@, p)], p)

-----------------------------------------------------------------------------
(* Pending events *)

NoEvent == [pid |-> 0, completion_tick |-> 0, reason |-> "NONE",
            path |-> F!Unused, page |-> 0, active |-> FALSE]

Due(s, i, why) == /\ s.pending[i].active
                  /\ s.pending[i].reason = why
                  /\ tick >= s.pending[i].completion_tick

Retire(s, i) == [s EXCEPT !.pending[i].active = FALSE]

CompleteIO(s, i) ==
    LET e == s.pending[i]
    IN  IF Due(s, i, "IO_BLOCK")
        THEN Retire(UnblockAll([s EXCEPT !.fs = F!fs_write(@, e.path)], e.pid, "IO_BLOCK"), i)
        ELSE s
complete_io_events(s) == ForEach(s.pending_count, s, CompleteIO)

CompleteFault(s, i) ==
    LET e == s.pending[i]
    IN  IF Due(s, i, "PAGE_FAULT")
        THEN Retire(UnblockAll([s EXCEPT !.mem = M!mem_allocate_page(@, e.pid, e.page, tick)],
                               e.pid, "PAGE_FAULT"), i)
        ELSE s
complete_page_faults(s) == ForEach(s.pending_count, s, CompleteFault)

\* The active records move to the front; what they leave behind beyond the new
\* count stays as it is, marked active.
compact_pending_events(s) ==
    LET kept == Keep([i \in 1..s.pending_count |-> i - 1], {i \in Events : s.pending[i].active})
    IN  [s EXCEPT !.pending = [i \in Events |-> IF i < Len(kept) THEN @[kept[i + 1]] ELSE @[i]],
                  !.pending_count = Len(kept)]

\* CMD_IO_WRITE takes the first slot of the whole table that is not active, a
\* page fault the first one below the count or else the one at the count.
Idle(s) == {i \in Events : ~ s.pending[i].active}
SlotForIO(s) == {i \in Idle(s) : \A j \in Idle(s) : i <= j}
SlotForFault(s) ==
    LET below == {i \in Idle(s) : i < s.pending_count}
    IN  IF below # {} THEN {i \in below : \A j \in below : i <= j}
        ELSE {s.pending_count} \cap Events

\* Mutant of AddEvent: the event stands behind the part that is looked at.
AddUncounted(s, slots, e) ==
    IF slots = {} THEN s
    ELSE [s EXCEPT !.pending[CHOOSE j \in slots : TRUE] = e]

\* A full table drops the event.
AddEvent(s, slots, e) ==
    IF slots = {} THEN s
    ELSE LET i == CHOOSE j \in slots : TRUE
         IN  [s EXCEPT !.pending[i] = e,
                       !.pending_count = IF i >= @ THEN i + 1 ELSE @]
-----------------------------------------------------------------------------
(* kernel_init *)

\* The two pages every process has from the start, loaded process by process.
LoadPage(m, i) == M!mem_allocate_page(m, i \div 2, i % 2, 0)
LoadedMemory == ForEach(2 * NumProcs, M!mem_init, LoadPage)

\* The threads of A are handed to the scheduler, in the order of the table.
AddIf(q, t, A) == IF t \in A THEN S!scheduler_add(q, t) ELSE q
AddThreads(q, A) == ForEach(2 * NumProcs, q, LAMBDA r, t : AddIf(r, t, A))
EarlyThreads == {t \in Tids : Arrival[Owner(t)] = 0}

\* A PCB and a TCB as pcb_create and thread_create leave them.
pcb_create == [pstate |-> "NEW", preason |-> "NONE", wait_time |-> 0, completion |-> None]
thread_create(burst) == [pc |-> 0, burst |-> burst, reason |-> "NONE"]

Booted(mode, bursts) ==
    LET tcb == [t \in Tids |-> thread_create(bursts[t])]
    IN  [pstate |-> [p \in Pids |-> IF Arrival[p] = 0 THEN "READY" ELSE pcb_create.pstate],
         preason |-> [p \in Pids |-> pcb_create.preason],
         wait_time |-> [p \in Pids |-> pcb_create.wait_time],
         completion |-> [p \in Pids |-> pcb_create.completion],
         pc |-> [t \in Tids |-> tcb[t].pc], burst |-> [t \in Tids |-> tcb[t].burst],
         reason |-> [t \in Tids |-> tcb[t].reason],
         phase |-> [p \in Pids |-> 0],
         pending |-> [i \in Events |-> NoEvent], pending_count |-> 0, io_seq |-> 0,
         sched |-> AddThreads(S!scheduler_init(mode), EarlyThreads),
         buffer |-> B!buffer_init(0), graph |-> G!deadlock_init, mem |-> LoadedMemory,
         fs |-> F!fs_init]

Init == /\ config \in Configs
        /\ tick = 0
        /\ step = "start"
        /\ asked \in IF config.interactive THEN LeftOver ELSE {0}
        /\ console \in {[paused |-> p, target |-> asked] : p \in {asked = 0, FALSE}}
        /\ \E bursts \in Bursts : sys = Booted(config.mode, bursts)

-----------------------------------------------------------------------------
(* kernel_run *)

\* One step of the loop: it leaves s behind and the next one is to.
Moves(from, s, to) ==
    /\ step = from /\ step' = to
    /\ sys' = s
    /\ UNCHANGED <<config, tick, console, asked>>

\* The head of the loop: max_ticks is reached, or the tick is played, at once or
\* when the prompt says so.  Neither kernel_init nor the end of a run resets the
\* prompt: the second run of --compare finds it as the first one left it.
Complete == tick >= MaxTicks /\ Moves("start", sys, "stopped")
Start == tick < MaxTicks /\ ~ config.interactive /\ Moves("start", sys, "arrivals")

\* process_interactive.  A terminal hands over one line at a time.
AtPrompt == step = "start" /\ tick < MaxTicks /\ config.interactive /\ C!Waits(console)
Type(line) ==
    /\ AtPrompt /\ line # C!QuitLine
    /\ console' = C!obey(console, line)
    /\ asked' = asked + C!Ticks(line)
    /\ UNCHANGED <<config, tick, step, sys>>
Quit == AtPrompt /\ Moves("start", sys, "stopped")
Play ==
    /\ step = "start" /\ tick < MaxTicks /\ config.interactive /\ ~ C!Waits(console)
    /\ console' = C!play(console)
    /\ step' = "arrivals"
    /\ UNCHANGED <<config, tick, asked, sys>>

\* 1. The processes whose time has come.
Arrivals ==
    LET due == {p \in Pids : sys.pstate[p] = "NEW" /\ Arrival[p] <= tick}
    IN  Moves("arrivals",
              [sys EXCEPT !.pstate = [p \in Pids |-> IF p \in due THEN "READY" ELSE @[p]],
                          !.sched = AddThreads(@, {t \in Tids : Owner(t) \in due})],
              "events")

\* 2. and 3.
CompleteEvents ==
    LET written == complete_io_events(sys)
    IN  Moves("events", compact_pending_events(complete_page_faults(written)), "dispatch")

\* 4.
Current(s) == s.sched.current
Runs(s) == Current(s) # None /\ s.sched.state[Current(s)] = "RUNNING"

Dispatch ==
    Moves("dispatch",
          IF Runs(sys) THEN sys ELSE [sys EXCEPT !.sched = S!scheduler_next(@)],
          "execute")

\* 5. The command of the current thread has left s behind.  The thread ends
\* when its burst is used up; its process ends with its last thread.
EndOfBurst(s, t) ==
    LET ended == [s EXCEPT !.sched = S!scheduler_terminate(@, t)]
    IN  CASE s.sched.state[t] # "RUNNING" \/ s.burst[t] > 0 -> s
          [] OTHER -> IF \A u \in ThreadsOf(Owner(t)) : ended.sched.state[u] = "DONE"
                      THEN cleanup_process(ended, Owner(t)) ELSE ended

Executing(t, command) ==
    Runs(sys) /\ t = Current(sys) /\ Program[t][sys.pc[t] + 1] = command
Executed(s, t) == Moves("execute", EndOfBurst(s, t), "detect")

Compute(t) == Executing(t, "COMPUTE") /\ Executed(thread_execute(sys, t), t)

BufferCall(t, result) ==
    LET called == [sys EXCEPT !.buffer = result.buffer]
    IN  Executed(IF result.ok THEN WakeReported(thread_execute(called, t), result.wake)
                 ELSE block_thread(called, t, "MUTEX_WAIT"), t)

Produce(t) == /\ Executing(t, "PRODUCE_DATA")
              /\ BufferCall(t, B!buffer_produce(sys.buffer, Item(Owner(t)), Owner(t)))
Consume(t) == /\ Executing(t, "CONSUME_DATA")
              /\ BufferCall(t, B!buffer_consume(sys.buffer, Owner(t)))

\* Without deadlock mode the command only computes.
AcquireNothing(t) ==
    /\ Executing(t, "ACQUIRE_RESOURCE") /\ ~ config.deadlock
    /\ Executed(thread_execute(sys, t), t)

Acquire(t) ==
    LET p == Owner(t)
        r == Wants[p][sys.phase[p]]
        result == G!Result(sys.graph, p, r)
        answered == [sys EXCEPT !.graph = G!deadlock_request(@, p, r),
                             !.phase[p] = IF result = "granted" THEN 1 ELSE @]
    IN  /\ Executing(t, "ACQUIRE_RESOURCE") /\ config.deadlock
        /\ Executed(IF result = "refused" THEN block_thread(answered, t, "RESOURCE_WAIT")
                    ELSE Advance(answered, t), t)

IOWrite(t) ==
    LET p == Owner(t)
        path == F!Path(p, sys.io_seq)
        opened == [sys EXCEPT !.io_seq = @ + 1, !.fs = F!fs_create(@, path)]
        blocked == block_thread(Advance(opened, t), t, "IO_BLOCK")
        event == [NoEvent EXCEPT !.pid = p, !.completion_tick = tick + IODuration,
                                 !.reason = "IO_BLOCK", !.path = path, !.active = TRUE]
    IN  /\ Executing(t, "IO_WRITE")
        /\ Executed(AddEvent(blocked, SlotForIO(blocked), event), t)

NobodyRuns == ~ Runs(sys) /\ Moves("execute", sys, "detect")

Execute == \/ \E t \in Tids : \/ Compute(t) \/ Produce(t) \/ Consume(t)
                              \/ AcquireNothing(t) \/ Acquire(t) \/ IOWrite(t)
           \/ NobodyRuns

\* 5.5.  deadlock_resolve releases, cleanup_process does not.
Every(interval) == tick > 0 /\ tick % interval = 0

Detect(p) == /\ Every(DetectInterval) /\ G!IsVictim(sys.graph, p)
             /\ Moves("detect", cleanup_process(ReleaseResources(sys, p), p), "crash")
NoDeadlock == /\ ~ (Every(DetectInterval) /\ \E p \in Pids : G!IsVictim(sys.graph, p))
              /\ Moves("detect", sys, "crash")

\* 5.6.  The process of the thread that runs crashes.
CrashNow == config.crash /\ tick = config.crash_tick /\ Runs(sys)
Crash == /\ CrashNow
         /\ Moves("crash", cleanup_and_release(sys, Owner(Current(sys))), "page_fault")
NoCrash == ~ CrashNow /\ Moves("crash", sys, "page_fault")

\* 6.  trigger_page_fault for the page after the resident ones.
Page == M!mem_get_page_count(sys.mem, Owner(Current(sys)))
Accesses == /\ ~ config.deadlock /\ Every(PageFaultInterval) /\ Runs(sys)
            /\ Page < MaxPages
Missing == sys.mem.page_table[Owner(Current(sys))][Page] = None

TouchPage ==
    /\ Accesses /\ ~ Missing
    /\ Moves("page_fault", [sys EXCEPT !.mem = M!Touch(@, Owner(Current(sys)), Page, tick)],
             "tick")
PageFault ==
    LET t == Current(sys)
        blocked == block_thread(sys, t, "PAGE_FAULT")
        event == [NoEvent EXCEPT !.pid = Owner(t), !.completion_tick = tick + PageFaultDuration,
                                 !.reason = "PAGE_FAULT", !.page = Page, !.active = TRUE]
    IN  /\ Accesses /\ Missing
        /\ Moves("page_fault", AddEvent(blocked, SlotForFault(blocked), event), "tick")
NoAccess == ~ Accesses /\ Moves("page_fault", sys, "tick")

\* 7.
SchedulerTick == Moves("tick", [sys EXCEPT !.sched = S!scheduler_tick(@)], "count")

\* Mutant of Waiting: the threads are asked, not the process.
WaitingThreads == {p \in Pids : \E t \in ThreadsOf(p) : sys.sched.state[t] = "READY"}

\* 8.
Waiting == {p \in Pids : sys.pstate[p] = "READY"}
CountWaiting == Moves("count",
                      [sys EXCEPT !.wait_time = [p \in Pids |-> IF p \in Waiting THEN @[p] + 1
                                                                ELSE @[p]]],
                      "snapshot")

\* 9.  The snapshot brings the states of the processes up to date.
Snapshot == Moves("snapshot",
                  IF tick % SnapshotInterval = 0 THEN ForEach(NumProcs, sys, sync_pcb_state)
                  ELSE sys,
                  "wake")

\* 10.
WakeBufferWaiters ==
    LET woken == B!wake_buffer_waiters(sys.buffer)
    IN  Moves("wake", WakeReported([sys EXCEPT !.buffer = woken.buffer], woken.wake), "check")

\* 11.
Finished == \A p \in Pids : sys.pstate[p] = "TERMINATED"
AllTerminated == Finished /\ Moves("check", sys, "stopped")
NextTurn == /\ ~ Finished /\ step = "check"
            /\ step' = "start" /\ tick' = tick + 1
            /\ UNCHANGED <<config, console, asked, sys>>

\* kernel_shutdown, called by main when kernel_run returns.
Shutdown == Moves("stopped",
                  [sys EXCEPT !.mem = ForEach(NumProcs, @, M!mem_free_process)], "off")

\* kernel_get_metrics; the averages follow from it, and what the scheduler counts is
\* left out.
turnaround(p) == sys.completion[p] - Arrival[p]
kernel_get_metrics ==
    LET done == {p \in Pids : sys.completion[p] >= 0}
        Total(f(_), set) == FoldSet(LAMBDA p, sum : sum + f(p), 0, set)
        Most(f(_), set) == Max({0} \cup {f(p) : p \in set})
        waited(p) == sys.wait_time[p]
    IN  [terminated |-> Cardinality({p \in Pids : sys.pstate[p] = "TERMINATED"}),
         total_wait |-> Total(waited, Pids), max_wait |-> Most(waited, Pids),
         total_turnaround |-> Total(turnaround, done), max_turnaround |-> Most(turnaround, done)]

Faults == (\E p \in Pids : Detect(p)) \/ NoDeadlock \/ Crash \/ NoCrash
Paging == TouchPage \/ PageFault \/ NoAccess
Prompting == (\E line \in Lines : Type(line)) \/ Quit \/ Play
Next == \/ Complete \/ Start \/ Prompting
        \/ Arrivals \/ CompleteEvents \/ Dispatch \/ Execute \/ Faults \/ Paging
        \/ SchedulerTick \/ CountWaiting \/ Snapshot \/ WakeBufferWaiters
        \/ AllTerminated \/ NextTurn
        \/ Shutdown

\* The loop runs on by itself: nothing in it waits when it is not interactive.
Spec == Init /\ [][Next]_vars /\ WF_vars(Next /\ ~ AtPrompt)
-----------------------------------------------------------------------------
(* Properties *)

BlockReasons == {"NONE", "IO_BLOCK", "PAGE_FAULT", "MUTEX_WAIT", "RESOURCE_WAIT"}
ProcessStates == {"NEW", "READY", "RUNNING", "BLOCKED", "TERMINATED"}

\* The shape of the kernel's own tables; a program counter stays in its
\* program and no process asks for a resource outside of its two phases.
TypeOK ==
    /\ tick \in 0..MaxTicks
    /\ sys.pc \in [Tids -> Nat] /\ \A t \in Tids : sys.pc[t] < Len(Program[t])
    /\ sys.burst \in [Tids -> Int]
    /\ sys.reason \in [Tids -> BlockReasons] /\ sys.preason \in [Pids -> BlockReasons]
    /\ sys.pstate \in [Pids -> ProcessStates]
    /\ sys.wait_time \in [Pids -> Nat] /\ sys.completion \in [Pids -> 0..MaxTicks \cup {None}]
    /\ sys.phase \in [Pids -> 0..1]
    /\ sys.pending_count \in 0..MaxPending
    /\ sys.io_seq \in Nat

\* What Scheduler shows for the calls of any kernel holds for this one, which
\* makes several of them in one step and kills threads behind its back.
SchedulerIsSound ==
    S!QueuesAreDisjoint /\ S!OneThreadRuns /\ S!NoThreadIsLost /\ S!LevelsMatchQueues

\* So does what ResourceGraph shows, although a terminated process may still
\* hold resources and ask for more.
GraphIsSound == G!TypeOK /\ G!UnitsAreConserved /\ G!BlockedIsRegistered /\ G!DetectionIsExact

\* The page tables the kernel invalidates agree with the frame table.
MemoryIsSound == M!TypeOK /\ M!FramesMatchPageTables /\ M!CountersAreExact

\* The tables keep their shape, and between two steps the mutex of the buffer is
\* free and the file table and its count agree, even when the table is full.
TablesAreSound == TypeOK /\ B!TypeOK /\ B!MutexIsFree /\ F!TableIsConsistent

\* Between "step", "run n" and the end, exactly as many ticks are played as were
\* asked for, whatever else is typed in between; "run n" cannot be cut short.
Begun == IF step = "start" THEN tick ELSE tick + 1
PromptIsObeyed ==
    config.interactive /\ step \notin {"stopped", "off"} => Begun + console.target = asked

\* What --compare compares makes sense: the time a process has waited is part of the
\* time it was there, although its state is brought up to date at times only, its
\* threads run on after its end, and its end may come twice.
WaitFitsTurnaround ==
    \A p \in Pids :
        LET played == IF step \in {"snapshot", "wake", "check"} THEN tick + 1 ELSE tick
        IN  /\ sys.completion[p] = None <=> sys.pstate[p] # "TERMINATED"
            /\ sys.wait_time[p] <= IF sys.completion[p] # None THEN turnaround(p)
                                   ELSE IF sys.pstate[p] = "NEW" THEN 0
                                   ELSE played - Arrival[p]

\* Nobody waits for ever, or too long, for a device: a thread blocked for I/O
\* or a page fault has an event of its process in the table, in the part the
\* kernel looks at, that is due within the duration of the operation.
WaitIsBounded ==
    \A t \in Tids, why \in {"IO_BLOCK", "PAGE_FAULT"} :
        t \in BlockedFor(sys, why) =>
            \E i \in ActiveEvents(sys, why) :
                LET due == sys.pending[i].completion_tick
                    duration == IF why = "IO_BLOCK" THEN IODuration ELSE PageFaultDuration
                IN  /\ sys.pending[i].pid = Owner(t)
                    /\ due <= tick + duration
                    /\ tick <= due
                    /\ tick = due => step \in {"start", "arrivals", "events", "stopped", "off"}

\* No step brings a terminated process back to life, although its threads may
\* get the CPU again: sync_pcb_state_from_threads leaves it alone.
TerminatedIsFinal ==
    [][\A p \in Pids : sys.pstate[p] = "TERMINATED" => sys'.pstate[p] = "TERMINATED"]_vars

\* "no orphaned resources, no stuck wait queues, no memory leak.  Remaining
\* processes continue unaffected" (docs/report.txt:345-347): right after a crash
\* the process holds no frame, file, unit or mutex, waits in no queue for one, has
\* no event in the part of the table the kernel looks at, and its threads are DONE;
\* the others have all their pages, files and events and every unit they had.
\* Nothing is said of where its threads stand: they stay in the ready queues, or
\* current, and can be dispatched again.  Nor of its events behind pending_count,
\* which stay active and can be counted again.
HasHoldings(s, p) ==
    \/ \E f \in M!Frames : s.mem.frames[f] = p
    \/ \E i \in F!Used(s.fs) : s.fs.path[i][1] = p
    \/ \E r \in G!Resources : \/ s.graph.allocation[p][r] > 0 \/ s.graph.request[p][r] > 0
                              \/ Contains(s.graph.wait[r], p)
    \/ \E q \in B!Queues : Contains(s.buffer.wait[q], p)
    \/ s.buffer.owner = p
    \/ \E i \in Events : i < s.pending_count /\ s.pending[i].active /\ s.pending[i].pid = p
Spared(s, r, p) ==
    /\ \A q \in Pids \ {p} : /\ r.mem.page_table[q] = s.mem.page_table[q]
                             /\ \A k \in G!Resources :
                                   r.graph.allocation[q][k] >= s.graph.allocation[q][k]
    /\ \A i \in F!Used(s.fs) : s.fs.path[i][1] # p => r.fs.path[i] = s.fs.path[i]
    /\ \A i \in Events : s.pending[i].pid # p => r.pending[i] = s.pending[i]
CrashReleasesHoldings ==
    [][Crash => LET p == Owner(Current(sys))
                IN  /\ ~ HasHoldings(sys', p) /\ Spared(sys, sys', p)
                    /\ \A t \in ThreadsOf(p) : sys'.sched.state[t] = "DONE"]_vars

\* A deadlock is gone for certain when the detector has run.
DeadlockIsShort ==
    step = "crash" /\ Every(DetectInterval) => G!Deadlocked = {}

\* The victim is in a deadlock, and never the process of critical importance.
VictimsAreExpendable ==
    [][\A p \in Pids : Detect(p) => p \in G!Deadlocked /\ Importance[p] # "CRITICAL"]_vars

\* Flight and Battery, the two processes of high importance, are at their end
\* when the loop stops after 120 ticks, under each of the eight command lines
\* without a prompt (Mapping and LogCollector need not be: they can starve on the
\* buffer).  A shorter run can stop before that: with --ticks 100 round robin ends
\* one process (ReportIsReproduced).
ImportantProcessesFinish ==
    step = "stopped" =>
        \A p \in Pids : Importance[p] \in {"CRITICAL", "HIGH"} => sys.pstate[p] = "TERMINATED"

-----------------------------------------------------------------------------
(* What the documents say of the program, and the program does not do *)

\* "cond_signal on not_full/not_empty condition variables wakes threads waiting
\* on buffer state" (docs/report.txt:261): a process that waits for the buffer
\* stays registered until it is woken.
RefusedAreRegistered == step = "start" => B!RefusedAreRegistered

\* "after 3 ticks, complete_io_events() ... unblocks the thread"
\* (docs/report.txt:229): when a thread is unblocked by a completed I/O no
\* other I/O of its process is still under way.
OwnIOUnblocks ==
    [][CompleteEvents =>
          \A t \in BlockedFor(sys, "IO_BLOCK") :
              sys'.sched.state[t] # "BLOCKED" =>
                  \A i \in ActiveEvents(sys', "IO_BLOCK") : sys'.pending[i].pid # Owner(t)]_vars
=============================================================================
