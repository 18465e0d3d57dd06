# FleetOS, specified in TLA+

FleetOS (`src/src/*.c`) simulates a small operating system: four drone processes
of two threads each share a CPU, a sensor buffer, three resources, sixteen memory
frames and a file system.  The simulator is a single loop, `kernel_run`, that plays one tick
after the other.  `web/server.py` starts it as a child process and steps it through
its standard input; a browser page draws what it logs.

This directory holds TLA+ modules of the simulator, the TLC runs that check
them, and proofs about the scheduler, the buffer, the resource graph, the memory, the web controller
and the kernel's loop on top of them.  `PROJECT.json` lists the components, the runs, the mutants, the findings, the hazards and, for every definition, the lines it translates.

    tlc -workers 2 -config MCScheduler.cfg MCScheduler.tla    # any run
    tlapm SchedulerProofs.tla                                 # any proofs: a few minutes (KernelProofs: 15)

## 1. Inventory

| Component | Source | State | Operations | What makes it correct |
|---|---|---|---|---|
| CPU scheduler | `scheduler.c` | ring arrays of ready threads (one, or one per feedback level), current thread, its level, remaining quantum, last boost | add, next, tick, block, unblock, terminate, boost | no thread lost, doubled or starved; one thread at a time; FIFO per level; no preemption before the quantum ends |
| Threads | `thread.c` | state, level, program counter, burst, wait reason | block, unblock, yield, execute | a finished thread stays finished |
| Sensor buffer | `sync.c` | ring of 8 items, mutex, two conditions with wait queues | produce, consume, remove a pid, wake | a FIFO channel; no lost wake-up; the mutex is never left locked |
| Resource graph | `deadlock.c` | allocation, request and availability matrices, a wait queue per resource | request, detect, resolve, wake waiters | units conserved; a deadlock is found exactly when there is one, and broken for good |
| Memory | `memory.c` | 16 frames with owner, page and last access; page tables in the PCBs | allocate (LRU eviction), access, free | frame table and page tables are the same mapping; the counters are exact |
| File system | `filesystem.c` | 16 files, FAT of 64 blocks | create, write, read, list, clean-up | table and count agree; what is written is there |
| Kernel | `kernel.c` | tick, PCB states, pending events, deadlock phases, everything above | eleven steps per tick; init and shutdown | whoever waits is woken; a crash releases what its process holds; processes end |
| PCBs, drone programs | `pcb.c`, `drone.c`, `common.h` | four processes: commands, priority, arrival, burst | construction | - |
| Console | `process_interactive` in `kernel.c` | paused flag, ticks still to play; lines in the pipe and in stdio | step, run n, run, pause, status, quit | a command plays as many ticks as it says; no line is lost; quit ends the program |
| Command line | `main.c` | mode, deadlock, crash, interactive | parse; compare two runs | the metrics compared are those of the runs |
| Web controller | `web/server.py` | the global `sim`; per controller the child, `paused`, `_running`, the stepping thread; handler, stepper and reader threads | start, resume, pause, step, stop, compare, speed | a pause is obeyed; every step is played once; a child told to quit ends; the end of a run is noticed |
| Dashboard, logger, build | `web/static`, `logger.c`, `Makefile` | - | presentation | - |

Interaction.  The kernel calls all the others; none of them calls back, with one
exception: `deadlock_wake_waiters` calls the kernel's `deadlock_wake_callback` for
every grant, in the middle of `deadlock_resolve`.  The thread states are shared: the
scheduler, `thread.c` and `cleanup_process` all write them.  The mapping of memory is
kept twice, in the frames and in the PCBs.  Buffer wake-ups travel as lists of pids.

What is hard in it.  Nothing in the simulator runs in parallel, so the hazards are
those of a long sequence of legal calls: a thread blocks, ends or is killed between two
steps of a tick that use the same pointer; a deadlock builds up over many ticks; a
crash hits any of the half-done operations; an event record is cancelled, moved or
reused before it is due; a queue or a table is at its limit.  True concurrency
exists in the controller only: its threads share flags and take no lock, and the simulator at the other end
of the pipe goes on by itself.  The `hazards` of PROJECT.json give the line where each one
bites and the properties that would catch it, or says why none does.

## 2. Modules

    ThreadQueue <--implements-- ReadyQueue        Channel <--implements-- BoundedBuffer
                                                                             |
                Scheduler   ResourceGraph   Memory   Filesystem              |
                     \             |            |          |                 /
                      +------------+-- Kernel --+----------+----------------+
                                                 |
                       Console --> Kernel --> MCKernel --> Workload
                          \
                           +--> Controller --> MCController

Every module has its theorems in a module named after it: `SchedulerProofs`, `ReadyQueueProofs`,
`BoundedBufferProofs`, `ResourceGraphProofs`, `MemoryProofs`, `ControllerProofs`, `KernelProofs`.
All but the first use `DataProofs`, the lemmas about sequences, rings and counting; `KernelProofs` uses
the theorems of the four components below it.  `Compaction` is the loop that closes the gaps in a
wait queue (`sync.c`, `deadlock.c`) and in the table of pending events (`kernel.c`).

Every component keeps its state in one record and its C functions as operators
from record to record, under the names of the source.  The same operators serve the
component's own specification, where any caller is possible, and `Kernel`, where the
caller is `kernel_run`.  What one C call does is one step: a function that locks,
works, signals and unlocks is one operator.  What a call may rely on and leaves behind, `Settled` or
`Sound`, is stated next to it, and is what the proofs pass from component to kernel.

- **Scheduler** - `scheduler.c` with the states of `thread.c`.  `queue[0..2]` are the
  feedback queues; round robin uses `queue[0]`.  The variable `phase` is the
  step of the tick, so that calls come in the kernel's order (wake-ups and arrivals;
  dispatch; one command; faults; tick), with every choice of thread.  `Kill` is the
  `T_DONE` that `cleanup_process` writes without telling the scheduler.
  `quantum` stops at 0 where the C counter goes on below it (only `<= 0` is asked) and
  `boost_age` is the distance to `last_boost_tick`.
- **ReadyQueue** - `queue_push`, `queue_pop`, `queue_remove_at`, `find_in_queue` on head,
  count and an array that wraps; what lies in unused slots is kept, as in the code.
  `popped` is what the last call returned or took out.  The kernel itself never takes a thread
  from the middle; the module lets any caller do it.  **ThreadQueue** is the sequence
  `Scheduler` uses in its place, with the same `popped`.
- **BoundedBuffer** - `sync.c` and `wake_buffer_waiters` of `kernel.c`: ring, mutex, two
  conditions.  A `cond_wait` of the code does not wait: the call fails and the thread is
  blocked by its caller, who repeats the command later.  `refused` is a history
  variable: who was refused and has not been reported since.  **Channel** is its promise.
- **ResourceGraph** - `deadlock.c` with the phases and `RESOURCE_WAIT` of the kernel.
  The depth-first search is `Suspects`: the stack at the first cycle met, beginning
  with the lowest active pid.  `SpuriousWake` stands for the buffer wake-ups the
  kernel sends to a thread without asking why it is blocked.
- **Memory** - `memory.c` and the page tables.  The kernel invalidates the page-table
  entry of an evicted page in the same call, so it is part of `mem_allocate_page`.
- **Filesystem** - the calls the kernel makes; operators only.  `memset(fs.fat, -2,
  ..)` makes every entry 0xFEFEFEFE, so no block is ever free; `fs_write` ends at
  that point and the loop behind it is not modelled.
- **Console** - `process_interactive`, as operators on the prompt (its two statics) and on the
  input (the pipe, and what stdio has read ahead).  `select` looks at the pipe only, `fgets` takes
  all that is there and returns one line: a second line stays out of sight until more comes.
  `Kernel` uses `obey` and `play` with a user who types one line at a time; `Controller`
  uses all of it, with a pipe.
- **Controller** - `server.py`.  One action for each stretch of statements between which no
  other thread can make a difference: the flags, the look at `_running`, the write, the sleep
  and the terminate of `stop` are separate, so are the look at `sim` and its use, `Popen` and the
  assignment of what it returns, the check and the start in `resume`, and, in `_auto_step`, the check before the
  sleep, the check after it and the write.  `Dead` is a child that has ended.  A run is at most
  `MaxTicks` ticks and may end before (all processes terminated).
  External, and modelled from how the code uses it: one thread per event
  (python-socketio), a full pipe that blocks its writer, and CPython, which keeps the `Popen` of a
  running child in `subprocess._active` when nothing else refers to it: the pipe of a child never
  closes while the server lives, so the end of the input, at which the prompt would spin (`kernel.c:77`),
  is not modelled.  One step is made of two reads of `self.proc`: in `write` and `flush` (`server.py:102-103`,
  `114-115`, `123-124`), and in `poll` and `terminate` (`server.py:129-130`).  If another handler changes it between them,
  the line stays in the buffer of a child that has been given up, or another child than the polled one gets the signal;
  neither is in the model, and "written" means flushed.  The 0.3 s sleep of `stop` and the speed are left out: they promise
  nothing about what the others have done meanwhile.  The output of the child is taken to be drained.
- **Kernel** - `kernel_init`, every step of `kernel_run` as an action of its own
  (`step` is the program counter of the loop), `kernel_get_metrics` and `kernel_shutdown`.  Process p has the
  threads 2p and 2p+1; a pid that is looked up as a tid therefore finds
  another process's thread, as in the code.
- **Workload** - `drone.c`, the worker threads of `kernel_init` and the flags of `main.c`, which
  `MCKernel` gives to the constants of `Kernel`.  `--compare` is two of these command lines
  one after the other; every `*_init` sets all of its variables again, so each is a run
  of its own - but for the prompt, which keeps what the first run left (`LeftOver`).

The choices in `Kernel` are the command line, the bursts, what an earlier run left in the
prompt and the lines typed at it; all else is determined, as in the program.  Two comparisons say that it is
this program.  An instrumented build and the model were run side by side on the eight command lines
without `--interactive`: all 960 end-of-tick states (ready queues, current thread,
thread states, program counters, bursts, PCB states, buffer and its wait queues,
pending events, frames, files, resource graph) are the same.  And `kernel_shipped` checks
`ReportIsReproduced`: after 100 ticks the model's metrics are the numbers that
`./drone_fleet_os --compare --ticks 100` prints, alone (the table of `docs/report.md:269-283`), with
`--deadlock`, with `--crash` and with both.

Left out on purpose: logging, JSON, names, the counters of context switches and boosts, the
averages, which follow from the totals, and the bytes of a file.  `fs_read`, `fs_list`,
`drone_execute` and others without a caller are not modelled.

## 3. Runs

| Run | Instance | What it shows |
|---|---|---|
| `scheduler` | 3 threads of levels 0, 1, 2; quanta 1, 2, 3; boost after 4 ticks | queues disjoint, one thread runs, none is lost, levels right, FIFO, no early preemption, highest level first - killed threads included |
| `scheduler_fault_free` | the same without `Kill` | CPU never idle with work to do, done is final, no starvation |
| `ready_queue` | 4 threads, 3 slots | the ring implements `ThreadQueue`: content and returned thread are the sequence's |
| `buffer` | 3 processes that produce and consume, 2 kinds of item, 3 slots | the ring implements `Channel`; refused processes are registered; the two sides never wait at once |
| `resource_graph` | the shipped requests and a third process | units conserved, waiters registered, detection exact, a deadlock is broken at once and for good |
| `memory` | 2 processes, 3 pages, 3 frames, 4 ticks | one mapping, exact counters, LRU |
| `kernel_shipped` | the shipped program, 8 command lines, 120 ticks | the victim is in the deadlock and not critical, no deadlock after a detection, important processes finish, the metrics are the printed ones |
| `kernel_explored` | scarce frames, buffer, files; crash at 12 different ticks; 3 sets of bursts; seven lines typed at the prompt in any order, a prompt left at 0 or 2 | types and component invariants hold in the composition (the mutex of the buffer is free between steps, too); waits for devices are bounded; a crash releases what its process holds and spares the others; waiting fits into turnaround; a prompt plays what it was asked for; terminated is final |
| `controller` | 5 requests one at a time, 3 at once, 5 starts, steps and stops two at a time; 2 runs of 2 ticks, 2 steppers, pipes of 2 lines | steps are conserved from the page to the tick; at most one late step after a pause; a child told to quit ends, if not for a `quit` read ahead and a terminate that hit another; the end of a child is noticed |
| `kernel_*` (2), `controller_stop_ends_the_run` | the shipped program; 5 requests one at a time | the findings of section 5 |

Why these bounds are enough.  *Scheduler*: with one thread per entry level, quanta
that differ and a boost interval shorter than a trip through the levels, every
interleaving of demotion, boost and wake-up occurs; two threads meet in
one queue at all levels, three in the merge of the boost.  A queue of 32 never
fills with 8 threads, and the proofs show why: a queue holds no thread twice.
*ReadyQueue*: one slot fewer than threads, so the ring is full, refuses, wraps, and loses an
element from its middle at every position of the head.  *BoundedBuffer*: the ring
wraps at odd offsets; three processes make queues of two with a third
that steals the item from a woken one.  `MaxProcs = 3` is the number of processes, as
the code's 16 is at least it.  *ResourceGraph*: Flight and Battery cross over landing pad and charge station,
the third process only takes the channel.  *Memory*: three frames for six pages and three
time stamps, so that frames are taken away and stamps tie.  *Kernel*: 120 ticks stand for `--ticks 120`,
three boosts, the crash and eleven detections long; without `--ticks` the loop goes on
until every process has terminated, beyond any bound if one of them starves.  The explored run shrinks it to 60, with shorter
bursts so that processes end within it, nine frames for eight loaded pages so that
page faults evict, a ring of two items, six files, a page fault at every third tick and a
boost at every tenth.  The interactive prompt is asked in every tick of the runs with a
crash at tick 5.  *Controller*: two runs, since every interference is between a run and the one before it;
two steppers, since `resume` can start a second one; pipes of two lines, so that a line is
read ahead, another waits and a writer blocks; two ticks, so that a run ends by itself before
it is stopped.  Five requests are what two starts, a step and two stops take, by which a
terminate misses its child.  `CHECK_DEADLOCK FALSE` stands in the
configurations of the kernel, which ends, and of the controller, which rests when no request comes.

Fairness.  `FaultFreeSpec` has WF on the calls: `kernel_run` is a loop without waiting.  It says
nothing of which call is next; `phase` and the order of the loop do that.
`NoStarvation` is claimed without `Kill`: a killed thread that is dispatched as a zombie
may hold the CPU for good.  `ResourceGraph!Spec` has WF on `Detect`: the detector
is called in every tenth tick while the loop runs.  `Kernel!Spec` has
WF on its loop, but for the prompt, at which nobody has to type.  `Controller!Spec` has WF on
`System`: every thread and child gets the processor again; no page has to send anything.
One condition for all of them is enough there, because every thread comes to rest or waits.  The states of `Kernel` form chains that end, so the promise that the important
processes finish is stated at the chain's end (`step = "stopped"`), where it needs no fairness.

Mutants.  Every property comes with a plausible bug of a mapped definition that
breaks it (`mutants` in PROJECT.json; the operators named "Mutant of ..." just before the
definition they would replace).  They are used by no specification.

## 4. Proofs

The theorems hold for every value of the constants that the `ASSUME` of the module allows; TLC
checks the assumption in every run.  None of them is stronger than the code: finitely many threads or
processes, positive quanta, sizes and intervals, and tables that are at least as long as there are
processes (32 slots for threads, 16 for processes).

| Module | Theorem | Statement |
|---|---|---|
| `SchedulerProofs` | `TypeCorrect`, `StaysSettled` | the type, and the inductive invariant `IInv` |
| | `QueuesStayDisjoint` | no thread is queued twice, at one level or at two |
| | `OneThreadAtATime` | who has the CPU is not queued, and no other thread is RUNNING |
| | `NoThreadGetsLost` | a READY thread that has arrived is queued; what is queued is READY or was killed |
| | `LevelsStayMatched` | `mlfq_level` is the queue a thread stands in, `current_queue` the level of the one that runs |
| | `QuantumIsGranted` | no step but the end of a quantum sends a running thread back |
| | `HighestLevelIsServed` | who gets the CPU is the head of the first queue that has one, with that level's quantum |
| | `OrderIsKept` | nobody is overtaken in a queue by who stood behind it |
| | `StaysHealthy` | without faults what is queued can run, and who has the CPU runs |
| | `DoneStaysDone`, `CPUIsNeverIdle` | without faults a finished thread never returns, and the CPU is not idle with work to do |
| `ReadyQueueProofs` | `RingImplementsQueue` | the ring array implements the queue that `Scheduler` uses |
| `BoundedBufferProofs` | `BufferTypeCorrect` | indices stay in the ring, the mutex is free between two calls |
| | `RefusedStayRegistered` | no wake-up is lost and no wait queue overflows |
| | `WaitersAreOnOneSide` | producers and consumers never wait at once |
| | `BufferImplementsChannel` | the ring implements a FIFO channel |
| `MemoryProofs` | `MemoryTypeCorrect`, `TablesMatch`, `CountersCount` | frame table and page tables are one mapping, and the counters count it |
| | `EvictionIsLeastRecentlyUsed` | a page is lost to a fault in a full memory only, and then no page was untouched for longer |
| `ResourceGraphProofs` | `GraphTypeCorrect`, `UnitsStayConserved` | a unit is available or held by one process |
| | `NoGrantIsForgotten` | while no wait queue is full, who is blocked is registered for something that is taken |
| `ControllerProofs` | `StepsStayConserved` | steps written = ticks played + what the prompt, stdio and the pipe hold |
| | `PauseIsObeyed` | one late step at most after a pause |
| `KernelProofs` | `KernelInvariance` | the inductive invariant `KInv` of the loop |
| | `SchedulerStaysSound` | disjoint queues, one running thread, none lost, levels right: in every state of the kernel |
| | `MemoryStaysSound` | one mapping and exact counters, through faults, crashes, victims and shutdown |
| | `TablesStaySound` | the kernel's tables are typed, the mutex is free between steps, the file table agrees with its count |
| | `UnitsStayWithTheKernel` | a unit is available or held by one process, terminated ones included |
| | `CrashAlwaysReleases` | right after a crash its process holds and waits for nothing, its threads are DONE, and nothing is taken from the others |
| | `TerminatedStaysTerminated` | no step brings a terminated process back |
| | `PromptStaysObeyed` | the ticks played are those asked for, with any input |

Each of these modules has a theorem `Invariance` (`StaysSettled` in the scheduler, `KernelInvariance` in the
kernel) of its inductive invariant.

**The scheduler.**  None of its four invariants is inductive alone.  `queue_push` refuses a thread
it finds in *its* queue only, so disjointness across levels needs that a
thread is pushed at the level it is said to have and is not queued elsewhere, i.e. that
blocked, running and not yet arrived threads are in no queue; that needs to know
what is queued; and that a thread is queued after a push (it is not lost) needs that
the queue has room, which follows from disjointness by counting: an injective sequence over `Threads`
is no longer than `Cardinality(Threads)` (`QueueHasRoom`).  So `IInv` (by way of
`Settled`) carries all of them at once.  The lemmas follow the calls: for every C
function one that it keeps the type and one that it keeps `Settled`; the functions are
broken down to the two things that happen to queues, `EnterQueue` and `LeaveQueue`, and, for the
boost, the merge of three queues into one (`MergeQueues`).  The DONE threads are the delicate
case: `cleanup_process` leaves them queued or current, so `Settled` allows both.
For the action properties every call is shown to be one of two kinds (`CallKinds`): *quiet*, nobody gets the CPU, nobody is
sent back and the queues keep their order, or *serving*, `Take` of the first level's head.  The
properties without faults need a second invariant, `Healthy` (what is queued is READY, the current thread is
RUNNING), which a kill would break.

**The ring buffer and the ready queue.**  The invariants say where `in` is, given `out` and
`count`, that the mutex is free, and that nobody stands in a queue twice; with as many slots as
processes no queue is ever full.  The refinements compare the ring with a sequence: a put appends
(`PutContent`), a get takes the head (`GetContent`), `queue_remove_at` shifts and removes one
(`RemoveAt`).  That producers and consumers never wait at once needs what holds at the end of a tick only, that nobody waits
for a condition that is true (`Settled`).

**Memory.**  One mapping kept twice is not inductive: an emptied frame must have lost owner *and* page (`Paired`), a
frame that is not free must have a page to take away, and the free frames must be counted exactly, since
`mem_allocate_page` looks for a victim when there is no free frame.

**The resource graph.**  Units are conserved because `available` is 1 exactly when nobody holds the
resource (`OneUnit`).  `NoGrantIsForgotten` has a hypothesis, `QueuesHaveRoom`, and needs it: a process
that is woken for another reason asks again and is registered again, its earlier entries stay, and
`deadlock_request` (`deadlock.c:74`) registers nobody in a full queue without saying so.  With five processes and
a queue of two TLC finds a process that waits for a free resource in this way.  The simulator's
queues have 16 entries, and its four processes compete for two resources.

**The controller.**  Two halves that meet in the write: the threads (a stepper that wrote after a pause is
back at the top of its loop, and the pause is still on) and the children (what was written is played, is at the prompt, in stdio or in the
pipe).

**The kernel.**  A component's theorem is about its own specification, with any caller; the kernel is one caller,
and it does to a component what no action of that component's specification allows: it kills threads of several processes at once,
adds threads of a process that was given up for arrived, wakes a pid for a tid.  So the proof passes what each
*call* does from the component to the kernel.  `Promises` lists it: under which conditions `scheduler_tick`,
`buffer_remove_pid`, `deadlock_resolve` or `mem_allocate_page` keeps its component `Settled` or `Sound`, and what it returns (pids, a
free wait queue).  The lemmas about the loop assume `Promises` and know nothing else of the components;
`PromisesHold` proves it from their proof modules, which are instantiated at the kernel's constants.  It is
an assumption of lemmas only: no theorem has it.

The kernel's own part is what has to be true when a call is made.  A thread is blocked when it is the one that
runs, unblocked when it is BLOCKED, added when its process has just arrived, and its command, page and path exist.  `KInv` says so:
`Fits` has the types of the kernel's tables, with every pending event able to be carried out (its pid exists, an I/O has a path),
and each component settled, the scheduler for the threads of the processes that are not NEW.  The buffer is the exception.  Between
the command of a tick and the wake-ups at its end somebody may wait for what is there already, so
`KInv` asks for a settled buffer only at the steps before (`step \notin Late`), and a crash, which falls in that
gap, removes a pid from a buffer that need not be settled.

Loops over threads, events and frames are `ForEach`, a recursive function, and so are the loops over wake-up lists.
`Turn` names what one turn of each loop does; that a state property kept by every turn is kept by the
loop is then proved once (`LoopKeeps`).  `CrashAlwaysReleases` follows the crash through the
components: each lemma says what it removes for the process and what it leaves alone for the others (pages, files, events, and
every unit, although the clean-up hands out units in its middle).  It speaks of holdings and of the step of the crash alone.  What
`cleanup_process` leaves is not part of it: DONE threads that stand in a ready queue or are current and may be dispatched
again, and active copies of events behind `pending_count` (section 5).
`PromptStaysObeyed` has an invariant of its own (`PInv`), which relates the ticks begun (`Begun`) to those
asked for and those still to play.

What `KernelProofs` assumes of an instance (`KernelAssumption`) is what `kernel_init` builds: at least one process and no more than the
tables hold, programs that are not empty, positive quanta and sizes, and room for the two pages of every process and the three
files it starts with.  The commands, the bursts, when a crash comes and what is typed are free.

Lemmas over sequences.  What a recursive function computes is proved by induction over a *set* of indices
(`IntervalInduction` in `DataProofs`): the set of those for which the claim holds is the whole interval.  That needs no
theorem with an operator parameter.  For the same reason the wait queues are compacted with `Keep`, a recursive
function, and not with `SelectSeq`.

Only model-checked:

- liveness (`NoStarvation`, `DeadlockIsBroken`, `QuitChildEnds`, `EndIsNoticed`), which is outside the prover's reach;
- `DetectionIsExact` and what depends on it (`DetectionBreaksDeadlock`, `DeadlockIsShort`, `VictimsAreExpendable`).  It is no
  theorem: it is true of the shipped requests and not of all.  The suspects are the whole stack at the first cycle met, so a process
  that only waits for one in the cycle is suspected too; give the third process of `resource_graph` the landing pad to ask for, and TLC finds it
  within a few steps.  And what the depth-first search computes is a recursion over data.  `GraphIsSound` asks for the same, and for
  `BlockedIsRegistered`, which needs wait queues that never fill (see the resource graph); the rest of it is `UnitsStayWithTheKernel`;
- `WaitFitsTurnaround`, because of the same search: it needs that a victim has arrived, and who can be a victim is what
  the search computes;
- `WaitIsBounded`, which needs that the table of events never fills (a full one drops the event, and the thread stays
  blocked).  The copies that the compaction leaves behind (section 5, 2) count towards it, and how many there can be depends on
  the programs;
- `ImportantProcessesFinish`, which depends on the bursts and commands of the shipped program;
- `ReportIsReproduced`, a fact about one program.

## 5. What the program does otherwise than its documents say

Each has a run of its own that TLC refutes.

1. **`RefusedAreRegistered`** (`kernel.c:553`).  A buffer wake-up is a pid and is looked up
   as a tid.  Pid 2 (Mapping, main thread 4) wakes thread 2, which is Battery's.  Mapping stays
   blocked, in no wait queue.  The buffer itself loses no wake-up (run `buffer`).
2. **`OwnIOUnblocks`** (`kernel.c:633`).  The compaction of the event table leaves copies behind
   that are marked active; a later I/O raises the count over one, which then completes
   a second time and unblocks a thread whose own I/O is still under way.
3. **`StopEndsTheRun`** (`server.py:86`).  Start, Start, Stop.  The second start ends the first
   child, and the first reader gets to its `finally` after the second run has begun: it clears `_running`,
   which the two runs share.  Stop then writes no "quit", does not terminate, and forgets the
   child, which waits at its prompt for ever: `subprocess` keeps the `Popen` of a running child, so its
   input does not end.  The page says the simulation has stopped.  The real `server.py`, with Flask replaced by a stub, was seen to do it.

Seen on the way, without a run:

- A crash or a detection leaves `T_DONE` threads in the queues (`kernel.c:216`), and `scheduler_next`
  sets the thread it takes to `T_RUNNING`; `docs/report.txt:341-342` says that `T_DONE` prevents further scheduling.  So a
  process can end twice: with `--mode rr --deadlock`, Flight is killed at tick 40 and "terminated" again at 46, which its
  turnaround then says.  `WaitFitsTurnaround` holds all the same.
- The active copies that the compaction leaves behind `pending_count` (finding 2) outlive a crash: `cleanup_process` cancels
  only the events before it.  One that is counted again can load a page or create a file for the dead process.
- A victim of the detector keeps its files, since `cleanup_process` then runs without `release_resources`;
  `docs/report.txt:279-280` says that it "deletes owned files".
- The second run of `--compare --interactive` plays ticks that were typed for the first (`kernel.c:52`).
- No I/O stores anything: `memset` with -2 (`filesystem.c:10`) fills the FAT with 0xFEFEFEFE,
  no block is ever free and every file stays empty (`docs/report.txt:229-230` says it is written).
- The PCB state is not always the one its threads imply (`docs/report.txt:363-366`), since it is recomputed
  at blocking, unblocking and snapshots only; a process that ends normally keeps its resources
  (`docs/report.txt:358-361`); the boost moves queued threads only - one that runs or is blocked
  keeps its level; and, with `--deadlock`, page faults are off.
- At the prompt "run" alone plays nothing, "pause" is read only after the last tick of "run n", and
  of two lines written at once the second waits for a third.
- When two stops overlap, the terminate of one can hit the next child; if the first has read its "quit" ahead, behind a
  "step", it waits at its prompt for ever (`QuitChildEnds` leaves out just this child).
- In the controller two resumes can start two steppers; a stop and a start at the same time can end the new run
  instead of the old one, or leave it without a controller; Step shows "paused"
  (`dashboard.js:633-637`) while the server steps on; `summaryeng.md` names port 5000, the server takes 8080.

## 6. Not modelled yet, and the plan

Done, in the order of importance: Scheduler with its proofs, ReadyQueue, BoundedBuffer and Channel,
ResourceGraph, Memory, Filesystem, Kernel with the metrics, Console, Controller.

Not modelled, and why: the loop of `fs_write` behind the search for a free block, and the read path,
which no state of the program reaches; the parsing of the command line; the logger, JSON output
and the build, on which no state depends; the dashboard, which draws what it is told and is, to
the server, the source of requests in any order.
