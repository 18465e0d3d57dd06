---------------------------- MODULE KernelProofs -----------------------------
(* The simulator's loop on its components: what they promise to any caller,   *)
(* they promise to this one.                                                  *)
EXTENDS Kernel, DataProofs

-----------------------------------------------------------------------------
(* Processes and threads *)

LEMMA Numbers ==
    /\ NumProcs \in Nat \ {0} /\ NumProcs <= MaxProcs /\ 2 * NumProcs <= MaxThreads
    /\ IsFiniteSet(Pids) /\ Cardinality(Pids) = NumProcs
    /\ IsFiniteSet(Tids) /\ Cardinality(Tids) = 2 * NumProcs
    /\ None \notin Pids /\ None \notin Tids
    /\ 0 \in Pids
<1>1. NumProcs \in Nat \ {0} /\ NumProcs <= MaxProcs /\ 2 * NumProcs <= MaxThreads
  BY KernelAssumption, Zenon
<1>2. 0 \in Int /\ NumProcs - 1 \in Int /\ 2 * NumProcs - 1 \in Int
  BY <1>1
<1>3. /\ IsFiniteSet(Pids)
      /\ Cardinality(Pids) = IF 0 > NumProcs - 1 THEN 0 ELSE NumProcs - 1 - 0 + 1
  BY <1>2, FS_Interval, Zenon DEF Pids
<1>4. /\ IsFiniteSet(Tids)
      /\ Cardinality(Tids) = IF 0 > 2 * NumProcs - 1 THEN 0 ELSE 2 * NumProcs - 1 - 0 + 1
  BY <1>2, FS_Interval, Zenon DEF Tids
<1> QED
  BY <1>1, <1>3, <1>4 DEF None, Pids, Tids

LEMMA OwnerType == \A t \in Tids : Owner(t) \in Pids
BY Numbers DEF Owner, Tids, Pids

\* The threads of the processes that are not NEW.
ArrivedIn(s) == {t \in Tids : s.pstate[Owner(t)] # "NEW"}

-----------------------------------------------------------------------------
(* What the loop needs of its components.  The lemmas about the loop assume   *)
(* these promises; PromisesHold, below, draws them from the components' own   *)
(* proofs.                                                                    *)

SchedulerPromise ==
    /\ \A mode \in {"RR", "MLFQ"} : S!Settled(S!scheduler_init(mode), {})
    /\ \A A \in SUBSET Tids : \A q : S!Settled(q, A) =>
           /\ S!Settled(S!scheduler_next(q), A)
           /\ S!Settled(S!scheduler_tick(q), A)
           /\ \A t \in Tids : q.state[t] = "BLOCKED" =>
                 S!Settled(S!scheduler_unblock(S!thread_unblock(q, t), t), A)
           /\ \A t \in Tids : t = q.current /\ q.state[t] = "RUNNING" =>
                 S!Settled(S!scheduler_block(S!thread_block(q, t), t), A)
           /\ \A t \in Tids : t = q.current => S!Settled(S!scheduler_terminate(q, t), A)
           /\ \A t \in Tids \ A : S!Settled(S!scheduler_add(q, t), A \cup {t})
           /\ \A D \in SUBSET Tids :
                 S!Settled([q EXCEPT !.state = [t \in Tids |-> IF t \in D THEN "DONE" ELSE @[t]]],
                           A \cup D)

BufferPromise ==
    /\ LET b == B!buffer_init(0) IN B!Sound(b) /\ B!Settled(b)
    /\ \A b : B!Sound(b) =>
           LET w == B!wake_buffer_waiters(b)
           IN  B!Sound(w.buffer) /\ B!Settled(w.buffer) /\ w.wake \in Seq(Pids)
    /\ \A p \in Pids : \A b : B!Sound(b) =>
           /\ B!Settled(b) =>
                 /\ \A item \in Items :
                       LET result == B!buffer_produce(b, item, p)
                       IN  B!Sound(result.buffer) /\ result.wake \in Seq(Pids)
                 /\ LET result == B!buffer_consume(b, p)
                    IN  B!Sound(result.buffer) /\ result.wake \in Seq(Pids)
           /\ LET c == B!buffer_release_mutex(B!buffer_remove_pid(b, p), p)
              IN  /\ B!Sound(c) /\ (B!Settled(b) => B!Settled(c))
                  /\ c.owner # p /\ \A q \in B!Queues : ~ Contains(c.wait[q], p)

GraphPromise ==
    /\ G!Sound(G!deadlock_init)
    /\ \A p \in Pids : \A g : G!Sound(g) =>
           /\ \A r \in 0..2 : G!Sound(G!deadlock_request(g, p, r))
           /\ LET freed == G!deadlock_resolve(g, p)
              IN  /\ G!Sound(freed.graph) /\ freed.granted \in Seq(Pids)
                  /\ \A r \in G!Resources : /\ freed.graph.allocation[p][r] = 0
                                            /\ freed.graph.request[p][r] = 0
                                            /\ ~ Contains(freed.graph.wait[r], p)
                  /\ \A q \in Pids \ {p}, r \in G!Resources :
                        freed.graph.allocation[q][r] >= g.allocation[q][r]

MemoryPromise ==
    /\ M!Sound(M!mem_init)
    /\ \A p \in Pids : \A m : M!Sound(m) =>
           /\ \A page \in M!Pages, now \in 0..MaxTicks :
                 /\ M!Sound(M!mem_allocate_page(m, p, page, now))
                 /\ m.page_table[p][page] # None => M!Sound(M!Touch(m, p, page, now))
           /\ M!Sound(M!mem_free_process(m, p))

Promises == SchedulerPromise /\ BufferPromise /\ GraphPromise /\ MemoryPromise

\* The thread that runs is one that has arrived.
LEMMA SchedulerShape ==
    ASSUME NEW q, NEW A \in SUBSET Tids, S!Settled(q, A)
    PROVE  /\ q.current \in A \cup {None}
           /\ q.state \in [Tids -> {"READY", "RUNNING", "BLOCKED", "DONE"}]
           /\ \A t \in Tids : q.state[t] = "RUNNING" => t = q.current
BY Zenon DEF S!Settled, S!Sched, S!ThreadStates

-----------------------------------------------------------------------------
(* The loops of the kernel *)

\* One turn, for the number x, of the loop k: its name and its parameters.
Turn(k, s, x) ==
    CASE k[1] = "unblock" -> UnblockIf(s, x, k[2], k[3])
      [] k[1] = "wake"    -> WakeNumber(s, k[2][x + 1])
      [] k[1] = "resume"  -> ResumeIf(s, x, k[2])
      [] k[1] = "grant"   -> deadlock_wake_callback(s, k[2][x + 1])
      [] k[1] = "io"      -> CompleteIO(s, x)
      [] k[1] = "fault"   -> CompleteFault(s, x)
      [] k[1] = "sync"    -> sync_pcb_state(s, x)
      [] k[1] = "add"     -> AddIf(s, x, k[2])
      [] k[1] = "load"    -> LoadPage(s, x)
      [] k[1] = "free"    -> M!mem_free_process(s, x)

\* f[x] is what the loop k has made of s after x turns of n.
Loops(f, k, n, s) == f = [x \in 0..n |-> IF x = 0 THEN s ELSE Turn(k, f[x - 1], x - 1)]
Yields(k, n, s, r) == \E f : Loops(f, k, n, s) /\ r = f[n]

LEMMA LoopsAt ==
    ASSUME NEW f, NEW k, NEW n \in Nat, NEW s, Loops(f, k, n, s)
    PROVE  f[0] = s /\ \A x \in 1..n : f[x] = Turn(k, f[x - 1], x - 1)
<1> DEFINE turn(x) == IF x = 0 THEN s ELSE Turn(k, f[x - 1], x - 1)
<1>1. f = [x \in 0..n |-> turn(x)]
  BY Zenon DEF Loops
<1> HIDE DEF turn
<1>2. \A x \in 0..n : f[x] = turn(x)
  BY <1>1, Zenon
<1>3. 0 \in 0..n /\ \A x \in 1..n : x \in 0..n /\ x # 0
  OBVIOUS
<1> QED
  BY <1>2, <1>3, Zenon DEF turn

LEMMA LoopExists ==
    ASSUME NEW k, NEW n \in Nat, NEW s
    PROVE  \E f : Loops(f, k, n, s)
<1> DEFINE P == {m \in 0..n : \E f : Loops(f, k, m, s)}
<1>1. 0 \in P
  <2> DEFINE f == [x \in 0..0 |-> s]
  <2>1. \A x \in 0..0 : x = 0
    OBVIOUS
  <2>2. Loops(f, k, 0, s)
    BY <2>1, Zenon DEF Loops
  <2> QED
    BY <2>2
<1>2. ASSUME NEW m \in 1..n, m - 1 \in P
      PROVE  m \in P
  <2>1. PICK f : Loops(f, k, m - 1, s)
    BY <1>2, Zenon
  <2>2. m - 1 \in Nat
    OBVIOUS
  <2>3. f[0] = s /\ \A x \in 1..(m - 1) : f[x] = Turn(k, f[x - 1], x - 1)
    BY <2>1, <2>2, LoopsAt, Zenon
  <2> DEFINE last == Turn(k, f[m - 1], m - 1)
             g == [x \in 0..m |-> IF x < m THEN f[x] ELSE last]
  <2> HIDE DEF last
  <2>4. ASSUME NEW x \in 0..m
        PROVE  g[x] = IF x = 0 THEN s ELSE Turn(k, g[x - 1], x - 1)
    <3>1. CASE x = 0
      BY <2>3, <3>1
    <3>2. CASE x \in 1..(m - 1)
      <4>1. g[x] = f[x] /\ g[x - 1] = f[x - 1] /\ x # 0
        BY <3>2
      <4> HIDE DEF g
      <4> QED
        BY <2>3, <3>2, <4>1, Zenon
    <3>3. CASE x = m
      <4>1. g[x] = last /\ g[x - 1] = f[m - 1] /\ x # 0
        BY <3>3
      <4> HIDE DEF g
      <4> QED
        BY <3>3, <4>1, Zenon DEF last
    <3> QED
      BY <3>1, <3>2, <3>3
  <2>5. Loops(g, k, m, s)
    BY <2>4, Zenon DEF Loops
  <2> QED
    BY <2>5
<1>3. P = 0..n
  BY <1>1, <1>2, IntervalInduction, Zenon
<1> QED
  BY <1>3

LEMMA UnblockLoop ==
    ASSUME NEW s, NEW p, NEW why
    PROVE  Yields(<<"unblock", p, why>>, 2 * NumProcs, s, UnblockAll(s, p, why))
<1> DEFINE P(f) == f = [x \in 0..2 * NumProcs |-> IF x = 0 THEN s ELSE UnblockIf(f[x - 1], x - 1, p, why)]
           chosen == CHOOSE f : P(f)
<1>1. 2 * NumProcs \in Nat
  BY Numbers
<1>2. ASSUME NEW r, NEW x
      PROVE  Turn(<<"unblock", p, why>>, r, x) = UnblockIf(r, x, p, why)
  BY Zenon DEF Turn
<1>3. ASSUME NEW f
      PROVE  P(f) <=> Loops(f, <<"unblock", p, why>>, 2 * NumProcs, s)
  BY <1>2, Zenon DEF Loops
<1>4. \E f : P(f)
  BY <1>1, <1>3, LoopExists, Zenon
<1>5. P(chosen)
  BY <1>4, Zenon
<1>6. UnblockAll(s, p, why) = chosen[2 * NumProcs]
  BY Zenon DEF UnblockAll, ForEach
<1> QED
  BY <1>3, <1>5, <1>6, Zenon DEF Yields

LEMMA WakeLoop ==
    ASSUME NEW s, NEW pids, Len(pids) \in Nat
    PROVE  Yields(<<"wake", pids>>, Len(pids), s, WakeReported(s, pids))
<1> DEFINE P(f) == f = [x \in 0..Len(pids) |-> IF x = 0 THEN s ELSE WakeNumber(f[x - 1], pids[x - 1 + 1])]
           chosen == CHOOSE f : P(f)
<1>1. Len(pids) \in Nat
  BY Zenon
<1>2. ASSUME NEW r, NEW x
      PROVE  Turn(<<"wake", pids>>, r, x) = WakeNumber(r, pids[x + 1])
  BY Zenon DEF Turn
<1>3. ASSUME NEW f
      PROVE  P(f) <=> Loops(f, <<"wake", pids>>, Len(pids), s)
  BY <1>2, Zenon DEF Loops
<1>4. \E f : P(f)
  BY <1>1, <1>3, LoopExists, Zenon
<1>5. P(chosen)
  BY <1>4, Zenon
<1>6. WakeReported(s, pids) = chosen[Len(pids)]
  BY Zenon DEF WakeReported, ForEach
<1> QED
  BY <1>3, <1>5, <1>6, Zenon DEF Yields

LEMMA ResumeLoop ==
    ASSUME NEW s, NEW p
    PROVE  Yields(<<"resume", p>>, 2 * NumProcs, s, deadlock_wake_callback(s, p))
<1> DEFINE P(f) == f = [x \in 0..2 * NumProcs |-> IF x = 0 THEN s ELSE ResumeIf(f[x - 1], x - 1, p)]
           chosen == CHOOSE f : P(f)
<1>1. 2 * NumProcs \in Nat
  BY Numbers
<1>2. ASSUME NEW r, NEW x
      PROVE  Turn(<<"resume", p>>, r, x) = ResumeIf(r, x, p)
  BY Zenon DEF Turn
<1>3. ASSUME NEW f
      PROVE  P(f) <=> Loops(f, <<"resume", p>>, 2 * NumProcs, s)
  BY <1>2, Zenon DEF Loops
<1>4. \E f : P(f)
  BY <1>1, <1>3, LoopExists, Zenon
<1>5. P(chosen)
  BY <1>4, Zenon
<1>6. deadlock_wake_callback(s, p) = chosen[2 * NumProcs]
  BY Zenon DEF deadlock_wake_callback, ForEach
<1> QED
  BY <1>3, <1>5, <1>6, Zenon DEF Yields

LEMMA IOLoop ==
    ASSUME NEW s, s.pending_count \in Nat
    PROVE  Yields(<<"io">>, s.pending_count, s, complete_io_events(s))
<1> DEFINE P(f) == f = [x \in 0..s.pending_count |-> IF x = 0 THEN s ELSE CompleteIO(f[x - 1], x - 1)]
           chosen == CHOOSE f : P(f)
<1>1. s.pending_count \in Nat
  BY Zenon
<1>2. ASSUME NEW r, NEW x
      PROVE  Turn(<<"io">>, r, x) = CompleteIO(r, x)
  BY Zenon DEF Turn
<1>3. ASSUME NEW f
      PROVE  P(f) <=> Loops(f, <<"io">>, s.pending_count, s)
  BY <1>2, Zenon DEF Loops
<1>4. \E f : P(f)
  BY <1>1, <1>3, LoopExists, Zenon
<1>5. P(chosen)
  BY <1>4, Zenon
<1>6. complete_io_events(s) = chosen[s.pending_count]
  BY Zenon DEF complete_io_events, ForEach
<1> QED
  BY <1>3, <1>5, <1>6, Zenon DEF Yields

LEMMA FaultLoop ==
    ASSUME NEW s, s.pending_count \in Nat
    PROVE  Yields(<<"fault">>, s.pending_count, s, complete_page_faults(s))
<1> DEFINE P(f) == f = [x \in 0..s.pending_count |-> IF x = 0 THEN s ELSE CompleteFault(f[x - 1], x - 1)]
           chosen == CHOOSE f : P(f)
<1>1. s.pending_count \in Nat
  BY Zenon
<1>2. ASSUME NEW r, NEW x
      PROVE  Turn(<<"fault">>, r, x) = CompleteFault(r, x)
  BY Zenon DEF Turn
<1>3. ASSUME NEW f
      PROVE  P(f) <=> Loops(f, <<"fault">>, s.pending_count, s)
  BY <1>2, Zenon DEF Loops
<1>4. \E f : P(f)
  BY <1>1, <1>3, LoopExists, Zenon
<1>5. P(chosen)
  BY <1>4, Zenon
<1>6. complete_page_faults(s) = chosen[s.pending_count]
  BY Zenon DEF complete_page_faults, ForEach
<1> QED
  BY <1>3, <1>5, <1>6, Zenon DEF Yields

LEMMA SyncLoop ==
    ASSUME NEW s
    PROVE  Yields(<<"sync">>, NumProcs, s, ForEach(NumProcs, s, sync_pcb_state))
<1> DEFINE P(f) == f = [x \in 0..NumProcs |-> IF x = 0 THEN s ELSE sync_pcb_state(f[x - 1], x - 1)]
           chosen == CHOOSE f : P(f)
<1>1. NumProcs \in Nat
  BY Numbers, Zenon
<1>2. ASSUME NEW r, NEW x
      PROVE  Turn(<<"sync">>, r, x) = sync_pcb_state(r, x)
  BY Zenon DEF Turn
<1>3. ASSUME NEW f
      PROVE  P(f) <=> Loops(f, <<"sync">>, NumProcs, s)
  BY <1>2, Zenon DEF Loops
<1>4. \E f : P(f)
  BY <1>1, <1>3, LoopExists, Zenon
<1>5. P(chosen)
  BY <1>4, Zenon
<1>6. ForEach(NumProcs, s, sync_pcb_state) = chosen[NumProcs]
  BY Zenon DEF ForEach
<1> QED
  BY <1>3, <1>5, <1>6, Zenon DEF Yields

LEMMA AddLoop ==
    ASSUME NEW s, NEW A
    PROVE  Yields(<<"add", A>>, 2 * NumProcs, s, AddThreads(s, A))
<1> DEFINE P(f) == f = [x \in 0..2 * NumProcs |-> IF x = 0 THEN s ELSE AddIf(f[x - 1], x - 1, A)]
           chosen == CHOOSE f : P(f)
<1>1. 2 * NumProcs \in Nat
  BY Numbers
<1>2. ASSUME NEW r, NEW x
      PROVE  Turn(<<"add", A>>, r, x) = AddIf(r, x, A)
  BY Zenon DEF Turn
<1>3. ASSUME NEW f
      PROVE  P(f) <=> Loops(f, <<"add", A>>, 2 * NumProcs, s)
  BY <1>2, Zenon DEF Loops
<1>4. \E f : P(f)
  BY <1>1, <1>3, LoopExists, Zenon
<1>5. P(chosen)
  BY <1>4, Zenon
<1>6. AddThreads(s, A) = chosen[2 * NumProcs]
  BY Zenon DEF AddThreads, ForEach
<1> QED
  BY <1>3, <1>5, <1>6, Zenon DEF Yields

LEMMA LoadLoop ==
    ASSUME NEW s
    PROVE  Yields(<<"load">>, 2 * NumProcs, s, ForEach(2 * NumProcs, s, LoadPage))
<1> DEFINE P(f) == f = [x \in 0..2 * NumProcs |-> IF x = 0 THEN s ELSE LoadPage(f[x - 1], x - 1)]
           chosen == CHOOSE f : P(f)
<1>1. 2 * NumProcs \in Nat
  BY Numbers
<1>2. ASSUME NEW r, NEW x
      PROVE  Turn(<<"load">>, r, x) = LoadPage(r, x)
  BY Zenon DEF Turn
<1>3. ASSUME NEW f
      PROVE  P(f) <=> Loops(f, <<"load">>, 2 * NumProcs, s)
  BY <1>2, Zenon DEF Loops
<1>4. \E f : P(f)
  BY <1>1, <1>3, LoopExists, Zenon
<1>5. P(chosen)
  BY <1>4, Zenon
<1>6. ForEach(2 * NumProcs, s, LoadPage) = chosen[2 * NumProcs]
  BY Zenon DEF ForEach
<1> QED
  BY <1>3, <1>5, <1>6, Zenon DEF Yields

LEMMA FreeLoop ==
    ASSUME NEW s
    PROVE  Yields(<<"free">>, NumProcs, s, ForEach(NumProcs, s, M!mem_free_process))
<1> DEFINE P(f) == f = [x \in 0..NumProcs |-> IF x = 0 THEN s ELSE M!mem_free_process(f[x - 1], x - 1)]
           chosen == CHOOSE f : P(f)
<1>1. NumProcs \in Nat
  BY Numbers, Zenon
<1>2. ASSUME NEW r, NEW x
      PROVE  Turn(<<"free">>, r, x) = M!mem_free_process(r, x)
  BY Zenon DEF Turn
<1>3. ASSUME NEW f
      PROVE  P(f) <=> Loops(f, <<"free">>, NumProcs, s)
  BY <1>2, Zenon DEF Loops
<1>4. \E f : P(f)
  BY <1>1, <1>3, LoopExists, Zenon
<1>5. P(chosen)
  BY <1>4, Zenon
<1>6. ForEach(NumProcs, s, M!mem_free_process) = chosen[NumProcs]
  BY Zenon DEF ForEach
<1> QED
  BY <1>3, <1>5, <1>6, Zenon DEF Yields

-----------------------------------------------------------------------------
(* What the kernel keeps *)

Fields == {"pc", "burst", "reason", "pstate", "preason", "wait_time", "completion", "phase",
           "pending", "pending_count", "io_seq", "sched", "buffer", "graph", "mem", "fs"}
Record(s) == s = [x \in Fields |-> s[x]]

Paths == (Pids \cup {None}) \X Int
EventRecords == [pid : Pids, completion_tick : Nat, reason : BlockReasons,
                 path : Paths, page : M!Pages, active : BOOLEAN]

\* F!TableIsConsistent, of any file table.
Consistent(f) ==
    /\ f = [x \in {"fat", "path", "size", "file_count"} |-> f[x]]
    /\ f.path \in [F!Slots -> Paths]
    /\ f.size \in [F!Slots -> Int]
    /\ f.file_count = Cardinality(F!Used(f))
    /\ \A i, j \in F!Used(f) : f.path[i] = f.path[j] => i = j

\* The kernel's own tables.
ThreadTables(s) ==
    /\ s.pc \in [Tids -> Nat] /\ \A t \in Tids : s.pc[t] < Len(Program[t])
    /\ s.burst \in [Tids -> Int]
    /\ s.reason \in [Tids -> BlockReasons]
ProcessTables(s) ==
    /\ s.pstate \in [Pids -> ProcessStates] /\ s.preason \in [Pids -> BlockReasons]
    /\ s.wait_time \in [Pids -> Nat] /\ s.completion \in [Pids -> 0..MaxTicks \cup {None}]
    /\ s.phase \in [Pids -> 0..1]
EventTables(s) ==
    /\ s.pending \in [Events -> EventRecords]
    /\ \A i \in Events : s.pending[i].reason = "IO_BLOCK" => s.pending[i].path # F!Unused
    /\ s.pending_count \in 0..MaxPending
    /\ s.io_seq \in Nat

Fits(s) ==
    /\ Record(s) /\ ThreadTables(s) /\ ProcessTables(s) /\ EventTables(s)
    /\ S!Settled(s.sched, ArrivedIn(s))
    /\ B!Sound(s.buffer) /\ G!Sound(s.graph) /\ M!Sound(s.mem) /\ Consistent(s.fs)

\* No process arrives or ends between s and r.
Marks(s, r) == \A p \in Pids : /\ r.pstate[p] = "NEW" <=> s.pstate[p] = "NEW"
                               /\ r.pstate[p] = "TERMINATED" <=> s.pstate[p] = "TERMINATED"

\* What a completed event leaves alone, and what a thread that is woken or
\* blocked does.
Follows(s, r) == /\ Fits(r) /\ Marks(s, r)
                 /\ r.buffer = s.buffer /\ r.pending_count = s.pending_count
Unmoved(s, r) == /\ r.graph = s.graph /\ r.mem = s.mem /\ r.fs = s.fs
                 /\ r.pending = s.pending /\ r.io_seq = s.io_seq
                 /\ r.wait_time = s.wait_time /\ r.completion = s.completion
Keeps(quiet, s, r) == Follows(s, r) /\ (quiet => Unmoved(s, r))
Quietly(s, r) == Keeps(TRUE, s, r)

LEMMA KeepsChains ==
    ASSUME NEW quiet \in BOOLEAN, NEW s, NEW r, NEW u, Keeps(quiet, s, r), Keeps(quiet, r, u)
    PROVE  Keeps(quiet, s, u)
BY Zenon DEF Keeps, Follows, Unmoved, Marks

LEMMA KeepsStays ==
    ASSUME NEW quiet, NEW s, Fits(s)
    PROVE  Keeps(quiet, s, s)
BY Zenon DEF Keeps, Follows, Unmoved, Marks

LEMMA QuietlyKeeps ==
    ASSUME NEW quiet, NEW s, NEW r, Quietly(s, r)
    PROVE  Keeps(quiet, s, r)
BY Zenon DEF Keeps, Quietly

\* A loop keeps what each of its turns keeps.
LEMMA LoopKeeps ==
    ASSUME NEW quiet \in BOOLEAN, NEW k, NEW n \in Nat, NEW s, NEW r, Fits(s), Yields(k, n, s, r),
           \A x \in 0..(n - 1) : \A u : Fits(u) => Keeps(quiet, u, Turn(k, u, x))
    PROVE  Keeps(quiet, s, r)
<1>1. PICK f : Loops(f, k, n, s) /\ r = f[n]
  BY Zenon DEF Yields
<1>2. f[0] = s /\ \A x \in 1..n : f[x] = Turn(k, f[x - 1], x - 1)
  BY <1>1, LoopsAt, Zenon
<1> DEFINE P == {x \in 0..n : Keeps(quiet, s, f[x])}
<1>3. 0 \in P
  BY <1>2, KeepsStays
<1>4. ASSUME NEW x \in 1..n, x - 1 \in P
      PROVE  x \in P
  <2>1. Keeps(quiet, s, f[x - 1]) /\ x - 1 \in 0..(n - 1)
    BY <1>4
  <2>2. Fits(f[x - 1])
    BY <2>1, Zenon DEF Keeps, Follows
  <2>3. Keeps(quiet, f[x - 1], f[x])
    BY <1>2, <2>1, <2>2, Zenon
  <2>4. Keeps(quiet, s, f[x])
    BY <2>1, <2>3, KeepsChains, Zenon
  <2> QED
    BY <2>4
<1>5. P = 0..n
  BY <1>3, <1>4, IntervalInduction, Zenon
<1> QED
  BY <1>1, <1>5

LEMMA StateKeeps ==
    ASSUME NEW s, Fits(s), NEW p \in Pids, s.pstate[p] \notin {"NEW", "TERMINATED"},
           NEW state \in {"RUNNING", "READY", "BLOCKED"}, NEW why \in BlockReasons
    PROVE  Quietly(s, [s EXCEPT !.pstate[p] = state, !.preason[p] = why])
<1> DEFINE r == [s EXCEPT !.pstate[p] = state, !.preason[p] = why]
<1>1. Record(s)
  BY Zenon DEF Fits
<1>2. /\ Record(r)
      /\ r.pstate = [s.pstate EXCEPT ![p] = state] /\ r.preason = [s.preason EXCEPT ![p] = why]
      /\ r.pc = s.pc /\ r.burst = s.burst /\ r.reason = s.reason
      /\ r.wait_time = s.wait_time /\ r.completion = s.completion /\ r.phase = s.phase
      /\ r.pending = s.pending /\ r.pending_count = s.pending_count /\ r.io_seq = s.io_seq
      /\ r.sched = s.sched /\ r.buffer = s.buffer /\ r.graph = s.graph
      /\ r.mem = s.mem /\ r.fs = s.fs
  BY <1>1, Zenon DEF Record, Fields
<1> HIDE DEF r
<1>3. s.pstate \in [Pids -> ProcessStates] /\ s.preason \in [Pids -> BlockReasons]
  BY Zenon DEF Fits, ProcessTables
<1>4. r.pstate \in [Pids -> ProcessStates] /\ r.preason \in [Pids -> BlockReasons]
  BY <1>2, <1>3 DEF ProcessStates
<1>5. Marks(s, r)
  BY <1>2, <1>3, Zenon DEF Marks
<1>6. ArrivedIn(r) = ArrivedIn(s)
  BY <1>5, OwnerType, Zenon DEF Marks, ArrivedIn
<1>7. ProcessTables(r)
  BY <1>2, <1>4, Zenon DEF Fits, ProcessTables
<1>8. ThreadTables(r) /\ EventTables(r)
  BY <1>2, Zenon DEF Fits, ThreadTables, EventTables
<1>9. Fits(r)
  BY <1>2, <1>6, <1>7, <1>8, Zenon DEF Fits
<1>10. Quietly(s, r)
  BY <1>2, <1>5, <1>9, Zenon DEF Quietly, Keeps, Follows, Unmoved
<1> QED
  BY <1>10, Zenon DEF r

\* The states of the processes follow those of the threads.
LEMMA SyncKeeps ==
    ASSUME NEW s, Fits(s), NEW p \in Pids
    PROVE  Quietly(s, sync_pcb_state(s, p))
<1> DEFINE live == {t \in ThreadsOf(p) : s.sched.state[t] # "DONE"}
           first == CHOOSE t \in live : \A u \in live : t <= u
<1>1. CASE s.pstate[p] \in {"TERMINATED", "NEW"} \/ live = {}
  BY <1>1, KeepsStays, Zenon DEF sync_pcb_state, Quietly
<1>2. CASE ~ (s.pstate[p] \in {"TERMINATED", "NEW"} \/ live = {})
  <2>1. ThreadsOf(p) \in SUBSET Tids
    BY Numbers DEF ThreadsOf, Tids, Pids
  <2>2. live \in SUBSET Nat /\ live # {}
    BY <1>2, <2>1 DEF Tids
  <2>3. \E t \in live : \A u \in live : t <= u
    BY <2>2, LeastNatural, Zenon
  <2>4. first \in live
    BY <2>3, Zenon
  <2>5. first \in Tids
    BY <2>1, <2>4, Zenon
  <2> HIDE DEF first
  <2>6. PICK state \in {"RUNNING", "READY", "BLOCKED"}, why \in BlockReasons :
            sync_pcb_state(s, p) = [s EXCEPT !.pstate[p] = state, !.preason[p] = why]
    <3>1. s.reason[first] \in BlockReasons /\ "NONE" \in BlockReasons
      BY <2>5, Zenon DEF Fits, ThreadTables, BlockReasons
    <3> QED
      BY <1>2, <3>1, Zenon DEF sync_pcb_state, first
  <2> DEFINE r == [s EXCEPT !.pstate[p] = state, !.preason[p] = why]
  <2>7. Quietly(s, r)
    BY <1>2, StateKeeps, Zenon
  <2> QED
    BY <2>6, <2>7, Zenon
<1> QED
  BY <1>1, <1>2, Zenon
\* A call of the scheduler and the reason a thread is left with.
LEMMA CallKeeps ==
    ASSUME NEW s, Fits(s), NEW q, S!Settled(q, ArrivedIn(s)),
           NEW t \in Tids, NEW why \in BlockReasons
    PROVE  Quietly(s, [s EXCEPT !.sched = q, !.reason[t] = why])
<1> DEFINE r == [s EXCEPT !.sched = q, !.reason[t] = why]
<1>1. Record(s)
  BY Zenon DEF Fits
<1>2. /\ Record(r)
      /\ r.sched = q /\ r.reason = [s.reason EXCEPT ![t] = why]
      /\ r.pc = s.pc /\ r.burst = s.burst /\ r.pstate = s.pstate /\ r.preason = s.preason
      /\ r.wait_time = s.wait_time /\ r.completion = s.completion /\ r.phase = s.phase
      /\ r.pending = s.pending /\ r.pending_count = s.pending_count /\ r.io_seq = s.io_seq
      /\ r.buffer = s.buffer /\ r.graph = s.graph /\ r.mem = s.mem /\ r.fs = s.fs
  BY <1>1, Zenon DEF Record, Fields
<1> HIDE DEF r
<1>3. s.reason \in [Tids -> BlockReasons]
  BY Zenon DEF Fits, ThreadTables
<1>4. r.reason \in [Tids -> BlockReasons]
  BY <1>2, <1>3, Zenon
<1>5. Marks(s, r) /\ ArrivedIn(r) = ArrivedIn(s)
  BY <1>2, Zenon DEF Marks, ArrivedIn
<1>6. ThreadTables(r)
  BY <1>2, <1>4, Zenon DEF Fits, ThreadTables
<1>7. ProcessTables(r) /\ EventTables(r)
  BY <1>2, Zenon DEF Fits, ProcessTables, EventTables
<1>8. Fits(r)
  BY <1>2, <1>5, <1>6, <1>7, Zenon DEF Fits
<1>9. Quietly(s, r)
  BY <1>2, <1>5, <1>8, Zenon DEF Quietly, Keeps, Follows, Unmoved
<1> QED
  BY <1>9, Zenon DEF r

\* The program counter, the burst and the phase move on.
LEMMA AdvanceKeeps ==
    ASSUME NEW s, Fits(s), NEW t \in Tids
    PROVE  /\ Quietly(s, Advance(s, t))
           /\ \A p \in Pids : Quietly(s, Advance([s EXCEPT !.phase[p] = 1], t))
<1> DEFINE next == (s.pc[t] + 1) % Len(Program[t])
<1>1. ASSUME NEW r, Record(r), ThreadTables(r), ProcessTables(r),
             r.pstate = s.pstate, r.sched = s.sched,
             r.wait_time = s.wait_time, r.completion = s.completion,
             r.pending = s.pending, r.pending_count = s.pending_count, r.io_seq = s.io_seq,
             r.buffer = s.buffer, r.graph = s.graph, r.mem = s.mem, r.fs = s.fs
      PROVE  Quietly(s, r)
  <2>1. Marks(s, r) /\ ArrivedIn(r) = ArrivedIn(s)
    BY <1>1, Zenon DEF Marks, ArrivedIn
  <2>2. EventTables(r)
    BY <1>1, Zenon DEF Fits, EventTables
  <2>3. Fits(r)
    BY <1>1, <2>1, <2>2, Zenon DEF Fits
  <2> QED
    BY <1>1, <2>1, <2>3, Zenon DEF Quietly, Keeps, Follows, Unmoved
<1>2. Record(s) /\ ThreadTables(s) /\ ProcessTables(s)
  BY Zenon DEF Fits
<1>3. next \in Nat /\ next < Len(Program[t])
  <2>1. Len(Program[t]) \in Nat \ {0} /\ s.pc[t] \in Nat
    BY <1>2, KernelAssumption, Zenon DEF ThreadTables
  <2> QED
    BY <2>1
<1> HIDE DEF next
<1>4. ASSUME NEW r, Record(r), ThreadTables(r), NEW u, u = Advance(r, t), r.pc = s.pc
      PROVE  /\ Record(u) /\ ThreadTables(u)
             /\ u.pstate = r.pstate /\ u.preason = r.preason
             /\ u.wait_time = r.wait_time /\ u.completion = r.completion /\ u.phase = r.phase
             /\ u.pending = r.pending /\ u.pending_count = r.pending_count /\ u.io_seq = r.io_seq
             /\ u.sched = r.sched /\ u.buffer = r.buffer /\ u.graph = r.graph
             /\ u.mem = r.mem /\ u.fs = r.fs
  <2>1. /\ Record(u)
        /\ u.pc = [r.pc EXCEPT ![t] = next] /\ u.burst = [r.burst EXCEPT ![t] = @ - 1]
        /\ u.reason = r.reason /\ u.pstate = r.pstate /\ u.preason = r.preason
        /\ u.wait_time = r.wait_time /\ u.completion = r.completion /\ u.phase = r.phase
        /\ u.pending = r.pending /\ u.pending_count = r.pending_count /\ u.io_seq = r.io_seq
        /\ u.sched = r.sched /\ u.buffer = r.buffer /\ u.graph = r.graph
        /\ u.mem = r.mem /\ u.fs = r.fs
    BY <1>4, Zenon DEF Advance, Record, Fields, next
  <2>2. ThreadTables(u)
    BY <1>3, <1>4, <2>1 DEF ThreadTables
  <2> QED
    BY <2>1, <2>2, Zenon
<1>5. Quietly(s, Advance(s, t))
  <2> DEFINE u == Advance(s, t)
  <2>1. /\ Record(u) /\ ThreadTables(u)
        /\ u.pstate = s.pstate /\ u.preason = s.preason
        /\ u.wait_time = s.wait_time /\ u.completion = s.completion /\ u.phase = s.phase
        /\ u.pending = s.pending /\ u.pending_count = s.pending_count /\ u.io_seq = s.io_seq
        /\ u.sched = s.sched /\ u.buffer = s.buffer /\ u.graph = s.graph
        /\ u.mem = s.mem /\ u.fs = s.fs
    BY <1>2, <1>4, Zenon
  <2> HIDE DEF u
  <2>2. ProcessTables(u)
    BY <1>2, <2>1, Zenon DEF ProcessTables
  <2>3. Quietly(s, u)
    BY <1>1, <2>1, <2>2, Zenon
  <2> QED
    BY <2>3, Zenon DEF u
<1>6. ASSUME NEW p \in Pids
      PROVE  Quietly(s, Advance([s EXCEPT !.phase[p] = 1], t))
  <2> DEFINE r == [s EXCEPT !.phase[p] = 1]
             u == Advance(r, t)
  <2>1. /\ Record(r)
        /\ r.phase = [s.phase EXCEPT ![p] = 1] /\ r.pc = s.pc /\ r.burst = s.burst
        /\ r.reason = s.reason /\ r.pstate = s.pstate /\ r.preason = s.preason
        /\ r.wait_time = s.wait_time /\ r.completion = s.completion
        /\ r.pending = s.pending /\ r.pending_count = s.pending_count /\ r.io_seq = s.io_seq
        /\ r.sched = s.sched /\ r.buffer = s.buffer /\ r.graph = s.graph
        /\ r.mem = s.mem /\ r.fs = s.fs
    BY <1>2, Zenon DEF Record, Fields
  <2>2. ThreadTables(r)
    BY <1>2, <2>1, Zenon DEF ThreadTables
  <2>3. ProcessTables(r)
    BY <1>2, <2>1 DEF ProcessTables
  <2> HIDE DEF r
  <2>4. /\ Record(u) /\ ThreadTables(u)
        /\ u.pstate = r.pstate /\ u.preason = r.preason
        /\ u.wait_time = r.wait_time /\ u.completion = r.completion /\ u.phase = r.phase
        /\ u.pending = r.pending /\ u.pending_count = r.pending_count /\ u.io_seq = r.io_seq
        /\ u.sched = r.sched /\ u.buffer = r.buffer /\ u.graph = r.graph
        /\ u.mem = r.mem /\ u.fs = r.fs
    BY <1>4, <2>1, <2>2
  <2> HIDE DEF u
  <2>5. ProcessTables(u)
    BY <2>3, <2>4, Zenon DEF ProcessTables
  <2>6. Quietly(s, u)
    BY <1>1, <2>1, <2>4, <2>5, Zenon
  <2> QED
    BY <2>6, Zenon DEF u, r
<1> QED
  BY <1>5, <1>6, Zenon
LEMMA ExecuteKeeps ==
    ASSUME NEW s, Fits(s), NEW t \in Tids
    PROVE  Quietly(s, thread_execute(s, t))
BY AdvanceKeeps, KeepsStays, Zenon DEF thread_execute, Quietly

LEMMA BlockKeeps ==
    ASSUME Promises, NEW s, Fits(s), NEW t \in Tids, t = s.sched.current, s.sched.state[t] = "RUNNING",
           NEW why \in BlockReasons
    PROVE  Quietly(s, block_thread(s, t, why))
<1> DEFINE q == S!scheduler_block(S!thread_block(s.sched, t), t)
           r == [s EXCEPT !.sched = q, !.reason[t] = why]
<1>1. S!Settled(s.sched, ArrivedIn(s)) /\ ArrivedIn(s) \in SUBSET Tids
  BY Zenon DEF Fits, ArrivedIn
<1>2. S!Settled(q, ArrivedIn(s))
  BY <1>1, Zenon DEF Promises, SchedulerPromise
<1>3. block_thread(s, t, why) = sync_pcb_state(r, Owner(t))
  BY Zenon DEF block_thread
<1> HIDE DEF q
<1>4. Quietly(s, r)
  BY <1>2, CallKeeps, Zenon
<1> HIDE DEF r
<1>5. Quietly(r, sync_pcb_state(r, Owner(t)))
  BY <1>4, OwnerType, SyncKeeps, Zenon DEF Quietly, Keeps, Follows
<1> QED
  BY <1>3, <1>4, <1>5, KeepsChains, Zenon DEF Quietly

LEMMA UnblockKeeps ==
    ASSUME Promises, NEW s, Fits(s), NEW t \in Tids, s.sched.state[t] = "BLOCKED"
    PROVE  Quietly(s, unblock_thread(s, t))
<1> DEFINE q == S!scheduler_unblock(S!thread_unblock(s.sched, t), t)
           r == [s EXCEPT !.sched = q, !.reason[t] = "NONE"]
<1>1. S!Settled(s.sched, ArrivedIn(s)) /\ ArrivedIn(s) \in SUBSET Tids
  BY Zenon DEF Fits, ArrivedIn
<1>2. S!Settled(q, ArrivedIn(s))
  BY <1>1, Zenon DEF Promises, SchedulerPromise
<1>3. unblock_thread(s, t) = sync_pcb_state(r, Owner(t))
  BY Zenon DEF unblock_thread
<1> HIDE DEF q
<1>4. Quietly(s, r)
  BY <1>2, CallKeeps, Zenon DEF BlockReasons
<1> HIDE DEF r
<1>5. Quietly(r, sync_pcb_state(r, Owner(t)))
  BY <1>4, OwnerType, SyncKeeps, Zenon DEF Quietly, Keeps, Follows
<1> QED
  BY <1>3, <1>4, <1>5, KeepsChains, Zenon DEF Quietly

\* The loops that wake threads.
LEMMA UnblockAllKeeps ==
    ASSUME Promises, NEW s, Fits(s), NEW p, NEW why
    PROVE  Quietly(s, UnblockAll(s, p, why))
<1> DEFINE k == <<"unblock", p, why>>
<1>1. ASSUME NEW x \in 0..(2 * NumProcs - 1), NEW u, Fits(u)
      PROVE  Keeps(TRUE, u, Turn(k, u, x))
  <2>1. Turn(k, u, x) = UnblockIf(u, x, p, why)
    BY Zenon DEF Turn
  <2>2. Owner(x) = p /\ x \in BlockedFor(u, why) => Quietly(u, unblock_thread(u, x))
    BY <1>1, UnblockKeeps, Zenon DEF BlockedFor, Tids
  <2> QED
    BY <1>1, <2>1, <2>2, KeepsStays, Zenon DEF UnblockIf, Quietly
<1>2. 2 * NumProcs \in Nat
  BY Numbers
<1> HIDE DEF k
<1>3. Yields(k, 2 * NumProcs, s, UnblockAll(s, p, why))
  BY UnblockLoop, Zenon DEF k
<1> QED
  BY <1>1, <1>2, <1>3, LoopKeeps, Zenon DEF Quietly

LEMMA WakeReportedKeeps ==
    ASSUME Promises, NEW s, Fits(s), NEW pids \in Seq(Pids)
    PROVE  Quietly(s, WakeReported(s, pids))
<1> DEFINE k == <<"wake", pids>>
<1>1. ASSUME NEW x \in 0..(Len(pids) - 1), NEW u, Fits(u)
      PROVE  Keeps(TRUE, u, Turn(k, u, x))
  <2>1. Turn(k, u, x) = WakeNumber(u, pids[x + 1])
    BY Zenon DEF Turn
  <2>2. \A t \in Tids : u.sched.state[t] = "BLOCKED" => Quietly(u, unblock_thread(u, t))
    BY <1>1, UnblockKeeps, Zenon
  <2> QED
    BY <1>1, <2>1, <2>2, KeepsStays, Zenon DEF WakeNumber, Quietly
<1>2. Len(pids) \in Nat
  OBVIOUS
<1> HIDE DEF k
<1>3. Yields(k, Len(pids), s, WakeReported(s, pids))
  BY <1>2, WakeLoop, Zenon DEF k
<1> QED
  BY <1>1, <1>2, <1>3, LoopKeeps, Zenon DEF Quietly

LEMMA ResumeKeeps ==
    ASSUME Promises, NEW s, Fits(s), NEW p \in Pids
    PROVE  Quietly(s, deadlock_wake_callback(s, p))
<1> DEFINE k == <<"resume", p>>
<1>1. ASSUME NEW x \in 0..(2 * NumProcs - 1), NEW u, Fits(u)
      PROVE  Keeps(TRUE, u, Turn(k, u, x))
  <2>1. Turn(k, u, x) = ResumeIf(u, x, p)
    BY Zenon DEF Turn
  <2>2. CASE Owner(x) = p /\ x \in BlockedFor(u, "RESOURCE_WAIT")
    <3> DEFINE r == unblock_thread(u, x)
    <3>1. x \in Tids /\ Quietly(u, r)
      BY <1>1, <2>2, UnblockKeeps, Zenon DEF BlockedFor, Tids
    <3>2. ResumeIf(u, x, p) = Advance([r EXCEPT !.phase[p] = 1], x)
      BY <2>2, Zenon DEF ResumeIf
    <3> HIDE DEF r
    <3>3. Quietly(r, Advance([r EXCEPT !.phase[p] = 1], x))
      BY <3>1, AdvanceKeeps, Zenon DEF Quietly, Keeps, Follows
    <3> QED
      BY <2>1, <3>1, <3>2, <3>3, KeepsChains, Zenon DEF Quietly
  <2>3. CASE ~ (Owner(x) = p /\ x \in BlockedFor(u, "RESOURCE_WAIT"))
    BY <1>1, <2>1, <2>3, KeepsStays, Zenon DEF ResumeIf
  <2> QED
    BY <2>2, <2>3, Zenon
<1>2. 2 * NumProcs \in Nat
  BY Numbers
<1> HIDE DEF k
<1>3. Yields(k, 2 * NumProcs, s, deadlock_wake_callback(s, p))
  BY ResumeLoop, Zenon DEF k
<1> QED
  BY <1>1, <1>2, <1>3, LoopKeeps, Zenon DEF Quietly

LEMMA GrantKeeps ==
    ASSUME Promises, NEW s, Fits(s), NEW granted \in Seq(Pids)
    PROVE  Quietly(s, ForEach(Len(granted), s,
                              LAMBDA r, i : deadlock_wake_callback(r, granted[i + 1])))
<1> DEFINE k == <<"grant", granted>>
           P(f) == f = [x \in 0..Len(granted) |->
                            IF x = 0 THEN s ELSE deadlock_wake_callback(f[x - 1], granted[x - 1 + 1])]
           chosen == CHOOSE f : P(f)
<1>1. ASSUME NEW x \in 0..(Len(granted) - 1), NEW u, Fits(u)
      PROVE  Keeps(TRUE, u, Turn(k, u, x))
  <2>1. Turn(k, u, x) = deadlock_wake_callback(u, granted[x + 1])
    BY Zenon DEF Turn
  <2>2. granted[x + 1] \in Pids
    OBVIOUS
  <2> QED
    BY <1>1, <2>1, <2>2, ResumeKeeps, Zenon DEF Quietly
<1>2. Len(granted) \in Nat
  OBVIOUS
<1>3. ASSUME NEW f
      PROVE  P(f) <=> Loops(f, k, Len(granted), s)
  <2>1. ASSUME NEW r, NEW x
        PROVE  Turn(k, r, x) = deadlock_wake_callback(r, granted[x + 1])
    BY Zenon DEF Turn
  <2> QED
    BY <2>1, Zenon DEF Loops
<1>4. Loops(chosen, k, Len(granted), s)
  <2>1. \E f : P(f)
    BY <1>2, <1>3, LoopExists, Zenon
  <2> QED
    BY <1>3, <2>1, Zenon
<1>5. ForEach(Len(granted), s, LAMBDA r, i : deadlock_wake_callback(r, granted[i + 1]))
        = chosen[Len(granted)]
  BY Zenon DEF ForEach
<1> HIDE DEF k, chosen
<1>6. Quietly(s, chosen[Len(granted)])
  BY <1>1, <1>2, <1>4, LoopKeeps, Zenon DEF Quietly, Yields
<1> QED
  BY <1>5, <1>6, Zenon

LEMMA SnapshotKeeps ==
    ASSUME NEW s, Fits(s)
    PROVE  Quietly(s, ForEach(NumProcs, s, sync_pcb_state))
<1> DEFINE k == <<"sync">>
<1>1. ASSUME NEW x \in 0..(NumProcs - 1), NEW u, Fits(u)
      PROVE  Keeps(TRUE, u, Turn(k, u, x))
  <2>1. Turn(k, u, x) = sync_pcb_state(u, x)
    BY Zenon DEF Turn
  <2> QED
    BY <1>1, <2>1, SyncKeeps, Zenon DEF Quietly, Pids
<1>2. NumProcs \in Nat
  BY Numbers, Zenon
<1> HIDE DEF k
<1>3. Yields(k, NumProcs, s, ForEach(NumProcs, s, sync_pcb_state))
  BY SyncLoop, Zenon DEF k
<1> QED
  BY <1>1, <1>2, <1>3, LoopKeeps, Zenon DEF Quietly
-----------------------------------------------------------------------------
(* The file system *)

LEMMA FileNumbers ==
    /\ MaxFiles \in Nat \ {0} /\ 3 <= MaxFiles
    /\ IsFiniteSet(F!Slots) /\ F!Slots \in SUBSET Nat
    /\ \A T : F!Cardinality(T) = Cardinality(T)
    /\ \A T : F!Min(T) = CHOOSE x \in T : \A y \in T : x <= y
<1>1. MaxFiles \in Nat \ {0} /\ 3 <= MaxFiles
  BY KernelAssumption, Zenon
<1>2. 0 \in Int /\ MaxFiles - 1 \in Int
  BY <1>1
<1>3. IsFiniteSet(F!Slots)
  BY <1>2, FS_Interval, Zenon DEF F!Slots
<1>4. F!Slots \in SUBSET Nat
  BY DEF F!Slots
<1>5. \A T : F!Cardinality(T) = Cardinality(T)
  BY Zenon DEF F!Cardinality, Cardinality
<1>6. \A T : F!Min(T) = CHOOSE x \in T : \A y \in T : x <= y
  BY Zenon DEF F!Min
<1> QED
  BY <1>1, <1>3, <1>4, <1>5, <1>6, Zenon

LEMMA UsedIsFinite ==
    ASSUME NEW f
    PROVE  /\ IsFiniteSet(F!Used(f)) /\ F!Used(f) \in SUBSET F!Slots
           /\ Cardinality(F!Used(f)) \in Nat
<1>1. F!Used(f) \in SUBSET F!Slots
  BY Zenon DEF F!Used
<1>2. IsFiniteSet(F!Used(f))
  BY <1>1, FileNumbers, FS_Subset, Zenon
<1> QED
  BY <1>1, <1>2, FS_CardinalityType, Zenon

LEMMA CreateIsConsistent ==
    ASSUME NEW f, Consistent(f), NEW path \in Paths, path # F!Unused
    PROVE  Consistent(F!fs_create(f, path))
<1>1. CASE f.file_count >= MaxFiles \/ F!find_file(f, path) # {} \/ F!Used(f) = F!Slots
  BY <1>1, Zenon DEF F!fs_create
<1>2. CASE ~ (f.file_count >= MaxFiles \/ F!find_file(f, path) # {} \/ F!Used(f) = F!Slots)
  <2> DEFINE i == F!Min(F!Slots \ F!Used(f))
             g == [f EXCEPT !.path[i] = path, !.size[i] = 0, !.file_count = @ + 1]
  <2>1. F!fs_create(f, path) = g
    BY <1>2, Zenon DEF F!fs_create
  <2>2. i \in F!Slots \ F!Used(f)
    <3>1. F!Slots \ F!Used(f) # {} /\ F!Slots \ F!Used(f) \in SUBSET Nat
      BY <1>2, FileNumbers, UsedIsFinite, Zenon
    <3>2. \E x \in F!Slots \ F!Used(f) : \A y \in F!Slots \ F!Used(f) : x <= y
      BY <3>1, LeastNatural, Zenon
    <3> QED
      BY <3>2, FileNumbers, Zenon
  <2> HIDE DEF i
  <2>3. /\ g = [x \in {"fat", "path", "size", "file_count"} |-> g[x]]
        /\ g.path = [f.path EXCEPT ![i] = path] /\ g.size = [f.size EXCEPT ![i] = 0]
        /\ g.file_count = f.file_count + 1
    BY Zenon DEF Consistent
  <2> HIDE DEF g
  <2>4. g.path \in [F!Slots -> Paths] /\ g.size \in [F!Slots -> Int]
    BY <2>2, <2>3 DEF Consistent
  <2>5. F!Used(g) = F!Used(f) \cup {i}
    BY <2>2, <2>3 DEF F!Used, Consistent
  <2>6. Cardinality(F!Used(g)) = Cardinality(F!Used(f)) + 1
    BY <2>2, <2>5, UsedIsFinite, FS_AddElement, Zenon
  <2>7. \A k \in F!Used(f) : f.path[k] # path
    BY <1>2, Zenon DEF F!find_file
  <2>8. \A k, j \in F!Used(g) : g.path[k] = g.path[j] => k = j
    BY <2>2, <2>3, <2>5, <2>7, UsedIsFinite, Zenon DEF Consistent
  <2>9. Consistent(g)
    BY <2>3, <2>4, <2>6, <2>8, Zenon DEF Consistent
  <2> QED
    BY <2>1, <2>9, Zenon
<1> QED
  BY <1>1, <1>2, Zenon

LEMMA WriteIsConsistent ==
    ASSUME NEW f, Consistent(f), NEW path \in Paths, path # F!Unused
    PROVE  Consistent(F!fs_write(f, path))
<1> DEFINE g == F!fs_create(f, path)
           block == F!find_free_block(g)
           i == F!Min(F!find_file(g, path))
           b == F!Min(block)
           h == [g EXCEPT !.fat[b] = -1, !.size[i] = @ + 1]
<1>1. Consistent(g)
  BY CreateIsConsistent, Zenon
<1>2. F!fs_write(f, path) = g \/ F!fs_write(f, path) = h
  BY Zenon DEF F!fs_write
<1> HIDE DEF g, i, b
<1>3. /\ h = [x \in {"fat", "path", "size", "file_count"} |-> h[x]]
      /\ h.path = g.path /\ h.size = [g.size EXCEPT ![i] = @ + 1]
      /\ h.file_count = g.file_count
  BY <1>1, Zenon DEF Consistent
<1> HIDE DEF h
<1>4. h.size \in [F!Slots -> Int]
  BY <1>1, <1>3 DEF Consistent
<1>5. F!Used(h) = F!Used(g)
  BY <1>3, Zenon DEF F!Used
<1>6. Consistent(h)
  BY <1>1, <1>3, <1>4, <1>5, Zenon DEF Consistent
<1> QED
  BY <1>1, <1>2, <1>6, Zenon

\* A crash removes the files of the process, and no others.
LEMMA CleanupIsConsistent ==
    ASSUME NEW f, Consistent(f), NEW p \in Pids
    PROVE  LET g == F!fs_cleanup_process(f, p)
           IN  /\ Consistent(g)
               /\ \A i \in F!Used(g) : g.path[i][1] # p
               /\ \A i \in F!Used(f) : f.path[i][1] # p => g.path[i] = f.path[i]
<1> DEFINE gone == {i \in F!Used(f) : f.path[i][1] = p}
           paths == [i \in F!Slots |-> IF i \in gone THEN F!Unused ELSE f.path[i]]
           g == [f EXCEPT !.path = paths, !.file_count = @ - F!Cardinality(gone)]
<1>1. F!fs_cleanup_process(f, p) = g
  BY Zenon DEF F!fs_cleanup_process
<1>2. F!Unused \in Paths
  BY DEF F!Unused, F!Path, Paths
<1>3. gone \in SUBSET F!Used(f)
  BY Zenon
<1>4. paths \in [F!Slots -> Paths]
  BY <1>2, Zenon DEF Consistent
<1>5. \A i \in F!Slots : paths[i] = IF i \in gone THEN F!Unused ELSE f.path[i]
  BY Zenon
<1>6. \A i \in F!Used(f) : i \in gone <=> f.path[i][1] = p
  BY Zenon
<1> HIDE DEF gone, paths
<1>7. /\ g = [x \in {"fat", "path", "size", "file_count"} |-> g[x]]
      /\ g.path = paths /\ g.size = f.size
      /\ g.file_count = f.file_count - Cardinality(gone)
  BY FileNumbers, Zenon DEF Consistent
<1> HIDE DEF g
<1>8. F!Used(g) = F!Used(f) \ gone
  BY <1>3, <1>5, <1>7, Zenon DEF F!Used
<1>9. Cardinality(F!Used(g)) = Cardinality(F!Used(f)) - Cardinality(gone)
  <2>1. IsFiniteSet(gone) /\ IsFiniteSet(F!Used(g))
    BY <1>3, UsedIsFinite, FS_Subset, Zenon
  <2>2. gone \cap F!Used(g) = {} /\ gone \cup F!Used(g) = F!Used(f)
    BY <1>3, <1>8, Zenon
  <2>3. Cardinality(F!Used(f)) = Cardinality(gone) + Cardinality(F!Used(g))
    BY <2>1, <2>2, DisjointCardinality, Zenon
  <2>4. Cardinality(gone) \in Nat /\ Cardinality(F!Used(g)) \in Nat
    BY <2>1, FS_CardinalityType, Zenon
  <2> QED
    BY <2>3, <2>4
<1>10. Consistent(g)
  BY <1>4, <1>5, <1>7, <1>8, <1>9, UsedIsFinite, Zenon DEF Consistent
<1>11. \A i \in F!Used(g) : g.path[i][1] # p
  BY <1>5, <1>6, <1>7, <1>8, UsedIsFinite, Zenon
<1>12. \A i \in F!Used(f) : f.path[i][1] # p => g.path[i] = f.path[i]
  BY <1>5, <1>6, <1>7, UsedIsFinite, Zenon
<1> QED
  BY <1>1, <1>10, <1>11, <1>12, Zenon

LEMMA FilesOpen == Consistent(F!fs_init)
<1> DEFINE f == F!fs_init
           paths == [i \in F!Slots |-> IF i \in 0..2 THEN F!Path(None, i) ELSE F!Unused]
<1>1. /\ f = [x \in {"fat", "path", "size", "file_count"} |-> f[x]]
      /\ f.path = paths /\ f.size = [i \in F!Slots |-> 0] /\ f.file_count = 3
  BY Zenon DEF F!fs_init
<1> HIDE DEF f
<1>2. paths \in [F!Slots -> Paths]
  BY DEF F!Unused, F!Path, Paths
<1>3. 0..2 \in SUBSET F!Slots
  BY FileNumbers DEF F!Slots
<1>4. F!Used(f) = 0..2
  BY <1>1, <1>3 DEF F!Used, F!Unused, F!Path
<1>5. Cardinality(0..2) = 3
  <2>1. 0 \in Int /\ 2 \in Int
    OBVIOUS
  <2>2. Cardinality(0..2) = IF 0 > 2 THEN 0 ELSE 2 - 0 + 1
    BY <2>1, FS_Interval, Zenon
  <2> QED
    BY <2>2
<1>6. \A i, j \in 0..2 : paths[i] = paths[j] => i = j
  BY <1>3, Zenon DEF F!Path
<1>7. Consistent(f)
  <2>1. f.size \in [F!Slots -> Int]
    BY <1>1
  <2> QED
    BY <1>1, <1>2, <1>4, <1>5, <1>6, <2>1, Zenon DEF Consistent
<1> QED
  BY <1>7, Zenon DEF f
-----------------------------------------------------------------------------
(* The ends of processes *)

\* What is left of Fits and Marks to show when only components change.
LEMMA PartsFit ==
    ASSUME NEW s, Fits(s), NEW r, Record(r),
           r.pc = s.pc, r.burst = s.burst, r.reason = s.reason,
           r.pstate = s.pstate, r.preason = s.preason, r.phase = s.phase,
           r.wait_time = s.wait_time, r.completion = s.completion,
           r.pending = s.pending, r.pending_count = s.pending_count, r.io_seq = s.io_seq,
           S!Settled(r.sched, ArrivedIn(s)), B!Sound(r.buffer), G!Sound(r.graph),
           M!Sound(r.mem), Consistent(r.fs)
    PROVE  Fits(r) /\ Marks(s, r)
<1>1. ThreadTables(r)
  BY Zenon DEF Fits, ThreadTables
<1>2. ProcessTables(r)
  BY Zenon DEF Fits, ProcessTables
<1>3. EventTables(r)
  BY Zenon DEF Fits, EventTables
<1>4. ArrivedIn(r) = ArrivedIn(s)
  BY Zenon DEF ArrivedIn
<1> QED
  BY <1>1, <1>2, <1>3, <1>4, Zenon DEF Fits, Marks

LEMMA OnePartFits ==
    ASSUME NEW s, Fits(s)
    PROVE  /\ \A q : S!Settled(q, ArrivedIn(s)) =>
                 LET r == [s EXCEPT !.sched = q]
                 IN  Fits(r) /\ Follows(s, r) /\ Unmoved(s, r) /\ r.sched = q
           /\ \A b : B!Sound(b) =>
                 LET r == [s EXCEPT !.buffer = b]
                 IN  /\ Fits(r) /\ Marks(s, r) /\ Unmoved(s, r)
                     /\ r.buffer = b /\ r.sched = s.sched /\ r.pending_count = s.pending_count
           /\ \A g : G!Sound(g) =>
                 LET r == [s EXCEPT !.graph = g]
                 IN  /\ Follows(s, r) /\ r.graph = g /\ r.sched = s.sched
                     /\ r.mem = s.mem /\ r.fs = s.fs /\ r.pending = s.pending
                     /\ r.io_seq = s.io_seq
                     /\ r.wait_time = s.wait_time /\ r.completion = s.completion
           /\ \A m : M!Sound(m) =>
                 LET r == [s EXCEPT !.mem = m]
                 IN  Follows(s, r) /\ r.mem = m /\ r.pending = s.pending
           /\ \A f : Consistent(f) =>
                 LET r == [s EXCEPT !.fs = f]
                 IN  /\ Follows(s, r) /\ r.fs = f /\ r.graph = s.graph /\ r.mem = s.mem
                     /\ r.pending = s.pending
<1>0. /\ Record(s) /\ S!Settled(s.sched, ArrivedIn(s)) /\ B!Sound(s.buffer) /\ G!Sound(s.graph)
      /\ M!Sound(s.mem) /\ Consistent(s.fs)
  BY Zenon DEF Fits
<1>1. ASSUME NEW q, S!Settled(q, ArrivedIn(s))
      PROVE  LET r == [s EXCEPT !.sched = q]
             IN  Fits(r) /\ Follows(s, r) /\ Unmoved(s, r) /\ r.sched = q
  <2> DEFINE r == [s EXCEPT !.sched = q]
  <2>1. /\ Record(r)
        /\ r.sched = q /\ r.buffer = s.buffer /\ r.graph = s.graph /\ r.mem = s.mem /\ r.fs = s.fs
        /\ r.pc = s.pc /\ r.burst = s.burst /\ r.reason = s.reason
        /\ r.pstate = s.pstate /\ r.preason = s.preason /\ r.phase = s.phase
        /\ r.wait_time = s.wait_time /\ r.completion = s.completion
        /\ r.pending = s.pending /\ r.pending_count = s.pending_count /\ r.io_seq = s.io_seq
    BY <1>0, Zenon DEF Record, Fields
  <2> HIDE DEF r
  <2>2. Fits(r) /\ Marks(s, r)
    BY <1>0, <1>1, <2>1, PartsFit, Zenon
  <2>3. Fits(r) /\ Follows(s, r) /\ Unmoved(s, r) /\ r.sched = q
    BY <2>1, <2>2, Zenon DEF Follows, Unmoved
  <2> QED
    BY <2>3, Zenon DEF r
<1>2. ASSUME NEW b, B!Sound(b)
      PROVE  LET r == [s EXCEPT !.buffer = b]
             IN  /\ Fits(r) /\ Marks(s, r) /\ Unmoved(s, r)
                 /\ r.buffer = b /\ r.sched = s.sched /\ r.pending_count = s.pending_count
  <2> DEFINE r == [s EXCEPT !.buffer = b]
  <2>1. /\ Record(r)
        /\ r.sched = s.sched /\ r.buffer = b /\ r.graph = s.graph /\ r.mem = s.mem /\ r.fs = s.fs
        /\ r.pc = s.pc /\ r.burst = s.burst /\ r.reason = s.reason
        /\ r.pstate = s.pstate /\ r.preason = s.preason /\ r.phase = s.phase
        /\ r.wait_time = s.wait_time /\ r.completion = s.completion
        /\ r.pending = s.pending /\ r.pending_count = s.pending_count /\ r.io_seq = s.io_seq
    BY <1>0, Zenon DEF Record, Fields
  <2> HIDE DEF r
  <2>2. Fits(r) /\ Marks(s, r)
    BY <1>0, <1>2, <2>1, PartsFit, Zenon
  <2>3. /\ Fits(r) /\ Marks(s, r) /\ Unmoved(s, r)
        /\ r.buffer = b /\ r.sched = s.sched /\ r.pending_count = s.pending_count
    BY <2>1, <2>2, Zenon DEF Unmoved
  <2> QED
    BY <2>3, Zenon DEF r
<1>3. ASSUME NEW g, G!Sound(g)
      PROVE  LET r == [s EXCEPT !.graph = g]
             IN  /\ Follows(s, r) /\ r.graph = g /\ r.sched = s.sched
                 /\ r.mem = s.mem /\ r.fs = s.fs /\ r.pending = s.pending /\ r.io_seq = s.io_seq
                 /\ r.wait_time = s.wait_time /\ r.completion = s.completion
  <2> DEFINE r == [s EXCEPT !.graph = g]
  <2>1. /\ Record(r)
        /\ r.sched = s.sched /\ r.buffer = s.buffer /\ r.graph = g /\ r.mem = s.mem /\ r.fs = s.fs
        /\ r.pc = s.pc /\ r.burst = s.burst /\ r.reason = s.reason
        /\ r.pstate = s.pstate /\ r.preason = s.preason /\ r.phase = s.phase
        /\ r.wait_time = s.wait_time /\ r.completion = s.completion
        /\ r.pending = s.pending /\ r.pending_count = s.pending_count /\ r.io_seq = s.io_seq
    BY <1>0, Zenon DEF Record, Fields
  <2> HIDE DEF r
  <2>2. Fits(r) /\ Marks(s, r)
    BY <1>0, <1>3, <2>1, PartsFit, Zenon
  <2>3. /\ Follows(s, r) /\ r.graph = g /\ r.sched = s.sched
        /\ r.mem = s.mem /\ r.fs = s.fs /\ r.pending = s.pending /\ r.io_seq = s.io_seq
        /\ r.wait_time = s.wait_time /\ r.completion = s.completion
    BY <2>1, <2>2, Zenon DEF Follows
  <2> QED
    BY <2>3, Zenon DEF r
<1>4. ASSUME NEW m, M!Sound(m)
      PROVE  LET r == [s EXCEPT !.mem = m]
             IN  Follows(s, r) /\ r.mem = m /\ r.pending = s.pending
  <2> DEFINE r == [s EXCEPT !.mem = m]
  <2>1. /\ Record(r)
        /\ r.sched = s.sched /\ r.buffer = s.buffer /\ r.graph = s.graph /\ r.mem = m /\ r.fs = s.fs
        /\ r.pc = s.pc /\ r.burst = s.burst /\ r.reason = s.reason
        /\ r.pstate = s.pstate /\ r.preason = s.preason /\ r.phase = s.phase
        /\ r.wait_time = s.wait_time /\ r.completion = s.completion
        /\ r.pending = s.pending /\ r.pending_count = s.pending_count /\ r.io_seq = s.io_seq
    BY <1>0, Zenon DEF Record, Fields
  <2> HIDE DEF r
  <2>2. Fits(r) /\ Marks(s, r)
    BY <1>0, <1>4, <2>1, PartsFit, Zenon
  <2>3. Follows(s, r) /\ r.mem = m /\ r.pending = s.pending
    BY <2>1, <2>2, Zenon DEF Follows
  <2> QED
    BY <2>3, Zenon DEF r
<1>5. ASSUME NEW f, Consistent(f)
      PROVE  LET r == [s EXCEPT !.fs = f]
             IN  /\ Follows(s, r) /\ r.fs = f /\ r.graph = s.graph /\ r.mem = s.mem
                 /\ r.pending = s.pending
  <2> DEFINE r == [s EXCEPT !.fs = f]
  <2>1. /\ Record(r)
        /\ r.sched = s.sched /\ r.buffer = s.buffer /\ r.graph = s.graph /\ r.mem = s.mem /\ r.fs = f
        /\ r.pc = s.pc /\ r.burst = s.burst /\ r.reason = s.reason
        /\ r.pstate = s.pstate /\ r.preason = s.preason /\ r.phase = s.phase
        /\ r.wait_time = s.wait_time /\ r.completion = s.completion
        /\ r.pending = s.pending /\ r.pending_count = s.pending_count /\ r.io_seq = s.io_seq
    BY <1>0, Zenon DEF Record, Fields
  <2> HIDE DEF r
  <2>2. Fits(r) /\ Marks(s, r)
    BY <1>0, <1>5, <2>1, PartsFit, Zenon
  <2>3. /\ Follows(s, r) /\ r.fs = f /\ r.graph = s.graph /\ r.mem = s.mem
        /\ r.pending = s.pending
    BY <2>1, <2>2, Zenon DEF Follows
  <2> QED
    BY <2>3, Zenon DEF r
<1> QED
  BY <1>1, <1>2, <1>3, <1>4, <1>5, Zenon

LEMMA ReleaseKeeps ==
    ASSUME Promises, NEW s, Fits(s), NEW p \in Pids
    PROVE  LET r == ReleaseResources(s, p)
           IN  /\ Follows(s, r) /\ r.mem = s.mem /\ r.fs = s.fs /\ r.pending = s.pending
               /\ \A k \in G!Resources : /\ r.graph.allocation[p][k] = 0
                                         /\ r.graph.request[p][k] = 0
                                         /\ ~ Contains(r.graph.wait[k], p)
               /\ \A q \in Pids \ {p}, k \in G!Resources :
                     r.graph.allocation[q][k] >= s.graph.allocation[q][k]
<1> DEFINE freed == G!deadlock_resolve(s.graph, p)
           u == [s EXCEPT !.graph = freed.graph]
           r == ForEach(Len(freed.granted), u,
                        LAMBDA w, i : deadlock_wake_callback(w, freed.granted[i + 1]))
<1>1. G!Sound(s.graph)
  BY Zenon DEF Fits
<1>2. /\ G!Sound(freed.graph) /\ freed.granted \in Seq(Pids)
      /\ \A k \in G!Resources : /\ freed.graph.allocation[p][k] = 0
                                /\ freed.graph.request[p][k] = 0
                                /\ ~ Contains(freed.graph.wait[k], p)
      /\ \A q \in Pids \ {p}, k \in G!Resources :
            freed.graph.allocation[q][k] >= s.graph.allocation[q][k]
  BY <1>1, Zenon DEF Promises, GraphPromise
<1>3. ReleaseResources(s, p) = r
  BY Zenon DEF ReleaseResources
<1> HIDE DEF freed
<1>4. /\ Follows(s, u) /\ u.graph = freed.graph
      /\ u.mem = s.mem /\ u.fs = s.fs /\ u.pending = s.pending
  BY <1>2, OnePartFits
<1> HIDE DEF u
<1>5. Fits(u)
  BY <1>4, Zenon DEF Follows
<1>6. Quietly(u, r)
  BY <1>2, <1>5, GrantKeeps, Zenon
<1> HIDE DEF r
<1>7. Follows(s, r) /\ r.graph = u.graph /\ r.mem = s.mem /\ r.fs = s.fs /\ r.pending = s.pending
  BY <1>4, <1>6, Zenon DEF Quietly, Keeps, Follows, Unmoved, Marks
<1> QED
  BY <1>2, <1>3, <1>4, <1>7, Zenon
LEMMA ThreadsOfOwner ==
    ASSUME NEW p \in Pids
    PROVE  \A t \in ThreadsOf(p) : t \in Tids /\ Owner(t) = p
<1>1. p \in Nat /\ p <= NumProcs - 1 /\ NumProcs \in Nat
  BY Numbers DEF Pids
<1>2. 2 * p \in Tids /\ 2 * p + 1 \in Tids
  BY <1>1 DEF Tids
<1>3. (2 * p) \div 2 = p /\ (2 * p + 1) \div 2 = p
  BY <1>1
<1> QED
  BY <1>2, <1>3, Zenon DEF ThreadsOf, Owner

LEMMA BuryKeeps ==
    ASSUME Promises, NEW s, Fits(s), NEW p \in Pids, tick \in 0..MaxTicks
    PROVE  LET r == Bury(s, p)
           IN  /\ Fits(r) /\ r.pending_count = s.pending_count
               /\ r.graph = s.graph /\ r.fs = s.fs /\ r.mem = M!mem_free_process(s.mem, p)
               /\ r.pstate = [s.pstate EXCEPT ![p] = "TERMINATED"]
               /\ B!Settled(s.buffer) => B!Settled(r.buffer)
               /\ r.buffer.owner # p /\ \A q \in B!Queues : ~ Contains(r.buffer.wait[q], p)
               /\ \A t \in ThreadsOf(p) : r.sched.state[t] = "DONE"
               /\ \A i \in Events : /\ i < r.pending_count /\ r.pending[i].pid = p => ~ r.pending[i].active
                                    /\ s.pending[i].pid # p => r.pending[i] = s.pending[i]
<1> DEFINE dead == {t \in Tids : Owner(t) = p}
           states == [t \in Tids |-> IF t \in dead THEN "DONE" ELSE s.sched.state[t]]
           events == [i \in Events |->
                        IF i < s.pending_count /\ s.pending[i].pid = p
                        THEN [s.pending[i] EXCEPT !.active = FALSE] ELSE s.pending[i]]
           b == B!buffer_release_mutex(B!buffer_remove_pid(s.buffer, p), p)
           m == M!mem_free_process(s.mem, p)
           q == [s.sched EXCEPT !.state = states]
           r == Bury(s, p)
<1>0. /\ Record(s) /\ S!Settled(s.sched, ArrivedIn(s)) /\ B!Sound(s.buffer) /\ G!Sound(s.graph)
      /\ M!Sound(s.mem) /\ Consistent(s.fs)
      /\ ThreadTables(s) /\ ProcessTables(s) /\ EventTables(s)
  BY Zenon DEF Fits
<1>1. states = [t \in Tids |-> IF Owner(t) = p THEN "DONE" ELSE s.sched.state[t]]
  BY Zenon
<1>2. r = [s EXCEPT !.pending = events, !.buffer = b, !.mem = m, !.pstate[p] = "TERMINATED",
                    !.completion[p] = tick, !.sched.state = states]
  BY <1>1, Zenon DEF Bury
<1>3. S!Settled(q, ArrivedIn(s) \cup dead)
  <2>1. ArrivedIn(s) \in SUBSET Tids /\ dead \in SUBSET Tids
    BY Zenon DEF ArrivedIn
  <2> QED
    BY <1>0, <2>1, Zenon DEF Promises, SchedulerPromise
<1>4. /\ B!Sound(b) /\ (B!Settled(s.buffer) => B!Settled(b))
      /\ b.owner # p /\ \A k \in B!Queues : ~ Contains(b.wait[k], p)
  BY <1>0, Zenon DEF Promises, BufferPromise
<1>5. M!Sound(m)
  BY <1>0, Zenon DEF Promises, MemoryPromise
<1>6. /\ events \in [Events -> EventRecords]
      /\ \A i \in Events : /\ events[i].reason = s.pending[i].reason
                           /\ events[i].path = s.pending[i].path
                           /\ events[i].pid = s.pending[i].pid
                           /\ i < s.pending_count /\ events[i].pid = p => ~ events[i].active
                           /\ s.pending[i].pid # p => events[i] = s.pending[i]
  BY <1>0, Zenon DEF EventTables, EventRecords
<1>7. \A t \in ThreadsOf(p) : states[t] = "DONE"
  BY ThreadsOfOwner, Zenon
<1>8. q.state = states
  BY <1>0, Zenon DEF S!Settled, S!Sched
<1> HIDE DEF events, b, m, states, r
<1>9. /\ Record(r)
      /\ r.sched = q /\ r.buffer = b /\ r.graph = s.graph /\ r.mem = m /\ r.fs = s.fs
      /\ r.pc = s.pc /\ r.burst = s.burst /\ r.reason = s.reason
      /\ r.pstate = [s.pstate EXCEPT ![p] = "TERMINATED"]
      /\ r.preason = s.preason /\ r.phase = s.phase /\ r.wait_time = s.wait_time
      /\ r.completion = [s.completion EXCEPT ![p] = tick]
      /\ r.pending = events /\ r.pending_count = s.pending_count /\ r.io_seq = s.io_seq
  BY <1>0, <1>2, Zenon DEF Record, Fields
<1> HIDE DEF q
<1>10. ThreadTables(r)
  BY <1>0, <1>9, Zenon DEF ThreadTables
<1>11. ProcessTables(r)
  BY <1>0, <1>9 DEF ProcessTables, ProcessStates
<1>12. EventTables(r)
  BY <1>0, <1>6, <1>9, Zenon DEF EventTables
<1>13. ArrivedIn(r) = ArrivedIn(s) \cup dead
  BY <1>0, <1>9, OwnerType, Zenon DEF ArrivedIn, ProcessTables
<1>14. Fits(r)
  BY <1>0, <1>3, <1>4, <1>5, <1>9, <1>10, <1>11, <1>12, <1>13, Zenon DEF Fits
<1>15. \A i \in Events : /\ i < r.pending_count /\ r.pending[i].pid = p => ~ r.pending[i].active
                         /\ s.pending[i].pid # p => r.pending[i] = s.pending[i]
  BY <1>6, <1>9, Zenon
<1>16. \A t \in ThreadsOf(p) : r.sched.state[t] = "DONE"
  BY <1>7, <1>8, <1>9, Zenon
<1> QED
  BY <1>4, <1>9, <1>14, <1>15, <1>16, Zenon DEF r, m

\* No step brings a terminated process back to life.
Final(s, r) == \A p \in Pids : s.pstate[p] = "TERMINATED" => r.pstate[p] = "TERMINATED"

\* The burst is used up, and with it perhaps the process.
LEMMA BurstKeeps ==
    ASSUME Promises, NEW s, Fits(s), NEW t \in Tids, tick \in 0..MaxTicks
    PROVE  Fits(EndOfBurst(s, t)) /\ Final(s, EndOfBurst(s, t))
<1> DEFINE q == S!scheduler_terminate(s.sched, t)
           ended == [s EXCEPT !.sched = q]
<1>1. CASE s.sched.state[t] # "RUNNING"
  BY <1>1, Zenon DEF EndOfBurst, Final
<1>2. CASE s.sched.state[t] = "RUNNING"
  <2>1. S!Settled(s.sched, ArrivedIn(s)) /\ ArrivedIn(s) \in SUBSET Tids
    BY Zenon DEF Fits, ArrivedIn
  <2>2. t = s.sched.current
    BY <1>2, <2>1, SchedulerShape, Zenon
  <2>3. S!Settled(q, ArrivedIn(s))
    BY <2>1, <2>2, Zenon DEF Promises, SchedulerPromise
  <2>4. EndOfBurst(s, t) \in {s, ended, Bury(ended, Owner(t))}
    BY Zenon DEF EndOfBurst, cleanup_process
  <2> HIDE DEF q
  <2>5. Fits(ended) /\ Marks(s, ended)
    BY <2>3, OnePartFits, Zenon DEF Follows
  <2> HIDE DEF ended
  <2>6. LET r == Bury(ended, Owner(t))
        IN  Fits(r) /\ r.pstate = [ended.pstate EXCEPT ![Owner(t)] = "TERMINATED"]
    BY <2>5, OwnerType, BuryKeeps, Zenon
  <2>7. ended.pstate \in [Pids -> ProcessStates]
    BY <2>5, Zenon DEF Fits, ProcessTables
  <2> QED
    BY <2>4, <2>5, <2>6, <2>7, Zenon DEF Marks, Final
<1> QED
  BY <1>1, <1>2, Zenon
-----------------------------------------------------------------------------
(* The events *)

\* What is left of Fits and Follows to show when the table of events changes too.
LEMMA EventsFit ==
    ASSUME NEW s, Fits(s), NEW r, Record(r), EventTables(r),
           r.pc = s.pc, r.burst = s.burst, r.reason = s.reason,
           r.pstate = s.pstate, r.preason = s.preason, r.phase = s.phase,
           r.wait_time = s.wait_time, r.completion = s.completion,
           r.sched = s.sched, r.buffer = s.buffer, r.graph = s.graph, r.mem = s.mem, r.fs = s.fs
    PROVE  Fits(r) /\ Marks(s, r)
<1>1. ThreadTables(r)
  BY Zenon DEF Fits, ThreadTables
<1>2. ProcessTables(r)
  BY Zenon DEF Fits, ProcessTables
<1>3. ArrivedIn(r) = ArrivedIn(s)
  BY Zenon DEF ArrivedIn
<1> QED
  BY <1>1, <1>2, <1>3, Zenon DEF Fits, Marks

LEMMA RetireKeeps ==
    ASSUME NEW s, Fits(s), NEW i \in Events
    PROVE  Follows(s, Retire(s, i))
<1> DEFINE r == Retire(s, i)
           events == [s.pending EXCEPT ![i].active = FALSE]
<1>1. Record(s) /\ EventTables(s)
  BY Zenon DEF Fits
<1>2. /\ events \in [Events -> EventRecords]
      /\ \A k \in Events : events[k].reason = s.pending[k].reason /\ events[k].path = s.pending[k].path
  BY <1>1, Zenon DEF EventTables, EventRecords
<1> HIDE DEF events
<1>3. /\ Record(r)
      /\ r.sched = s.sched /\ r.buffer = s.buffer /\ r.graph = s.graph /\ r.mem = s.mem /\ r.fs = s.fs
      /\ r.pc = s.pc /\ r.burst = s.burst /\ r.reason = s.reason
      /\ r.pstate = s.pstate /\ r.preason = s.preason /\ r.phase = s.phase
      /\ r.wait_time = s.wait_time /\ r.completion = s.completion
      /\ r.pending = events /\ r.pending_count = s.pending_count /\ r.io_seq = s.io_seq
  BY <1>1, Zenon DEF Record, Fields, Retire, events
<1> HIDE DEF r
<1>4. EventTables(r)
  BY <1>1, <1>2, <1>3, Zenon DEF EventTables
<1>5. Fits(r) /\ Marks(s, r)
  BY <1>3, <1>4, EventsFit, Zenon
<1> QED
  BY <1>3, <1>5, Zenon DEF Follows, r

LEMMA FollowsChains ==
    ASSUME NEW s, NEW r, NEW u, Follows(s, r), Follows(r, u)
    PROVE  Follows(s, u)
BY Zenon DEF Follows, Marks

LEMMA IOEventKeeps ==
    ASSUME Promises, NEW s, Fits(s), NEW i \in Events
    PROVE  Follows(s, CompleteIO(s, i))
<1> DEFINE e == s.pending[i]
           f == F!fs_write(s.fs, e.path)
           u == [s EXCEPT !.fs = f]
           w == UnblockAll(u, e.pid, "IO_BLOCK")
<1>1. CASE ~ Due(s, i, "IO_BLOCK")
  BY <1>1, KeepsStays, Zenon DEF CompleteIO, Keeps
<1>2. CASE Due(s, i, "IO_BLOCK")
  <2>1. CompleteIO(s, i) = Retire(w, i)
    BY <1>2, Zenon DEF CompleteIO
  <2>2. Consistent(s.fs) /\ e.path \in Paths /\ e.path # F!Unused
    BY <1>2, Zenon DEF Fits, EventTables, EventRecords, Due
  <2>3. Consistent(f)
    BY <2>2, WriteIsConsistent, Zenon
  <2> HIDE DEF f
  <2>4. Follows(s, u)
    BY <2>3, OnePartFits, Zenon
  <2> HIDE DEF u
  <2>5. Follows(u, w)
    BY <2>4, UnblockAllKeeps DEF Quietly, Keeps, Follows
  <2> HIDE DEF w
  <2>6. Follows(w, Retire(w, i))
    BY <2>5, RetireKeeps, Zenon DEF Follows
  <2> QED
    BY <2>1, <2>4, <2>5, <2>6, FollowsChains, Zenon
<1> QED
  BY <1>1, <1>2, Zenon

LEMMA FaultEventKeeps ==
    ASSUME Promises, NEW s, Fits(s), NEW i \in Events, tick \in 0..MaxTicks
    PROVE  Follows(s, CompleteFault(s, i))
<1> DEFINE e == s.pending[i]
           m == M!mem_allocate_page(s.mem, e.pid, e.page, tick)
           u == [s EXCEPT !.mem = m]
           w == UnblockAll(u, e.pid, "PAGE_FAULT")
<1>1. CASE ~ Due(s, i, "PAGE_FAULT")
  BY <1>1, KeepsStays, Zenon DEF CompleteFault, Keeps
<1>2. CASE Due(s, i, "PAGE_FAULT")
  <2>1. CompleteFault(s, i) = Retire(w, i)
    BY <1>2, Zenon DEF CompleteFault
  <2>2. M!Sound(s.mem) /\ e.pid \in Pids /\ e.page \in M!Pages
    BY Zenon DEF Fits, EventTables, EventRecords
  <2>3. M!Sound(m)
    BY <2>2, Zenon DEF Promises, MemoryPromise
  <2> HIDE DEF m
  <2>4. Follows(s, u)
    BY <2>3, OnePartFits, Zenon
  <2> HIDE DEF u
  <2>5. Follows(u, w)
    BY <2>4, UnblockAllKeeps, Zenon DEF Quietly, Keeps, Follows
  <2> HIDE DEF w
  <2>6. Follows(w, Retire(w, i))
    BY <2>5, RetireKeeps, Zenon DEF Follows
  <2> QED
    BY <2>1, <2>4, <2>5, <2>6, FollowsChains, Zenon
<1> QED
  BY <1>1, <1>2, Zenon

LEMMA EventLoopsKeep ==
    ASSUME Promises, NEW s, Fits(s), tick \in 0..MaxTicks
    PROVE  Follows(s, complete_io_events(s)) /\ Follows(s, complete_page_faults(s))
<1>1. s.pending_count \in Nat /\ 0..(s.pending_count - 1) \in SUBSET Events
  <2>1. s.pending_count \in 0..MaxPending /\ MaxPending \in Nat
    BY KernelAssumption, Zenon DEF Fits, EventTables
  <2> QED
    BY <2>1 DEF Events
<1>2. Follows(s, complete_io_events(s))
  <2> DEFINE k == <<"io">>
  <2>1. ASSUME NEW x \in 0..(s.pending_count - 1), NEW u, Fits(u)
        PROVE  Keeps(FALSE, u, Turn(k, u, x))
    <3>1. Turn(k, u, x) = CompleteIO(u, x)
      BY Zenon DEF Turn
    <3> QED
      BY <1>1, <2>1, <3>1, IOEventKeeps, Zenon DEF Keeps
  <2> HIDE DEF k
  <2>2. Yields(k, s.pending_count, s, complete_io_events(s))
    BY <1>1, IOLoop, Zenon DEF k
  <2>3. Keeps(FALSE, s, complete_io_events(s))
    BY <1>1, <2>1, <2>2, LoopKeeps, Zenon
  <2> QED
    BY <2>3, Zenon DEF Keeps
<1>3. Follows(s, complete_page_faults(s))
  <2> DEFINE k == <<"fault">>
  <2>1. ASSUME NEW x \in 0..(s.pending_count - 1), NEW u, Fits(u)
        PROVE  Keeps(FALSE, u, Turn(k, u, x))
    <3>1. Turn(k, u, x) = CompleteFault(u, x)
      BY Zenon DEF Turn
    <3> QED
      BY <1>1, <2>1, <3>1, FaultEventKeeps, Zenon DEF Keeps
  <2> HIDE DEF k
  <2>2. Yields(k, s.pending_count, s, complete_page_faults(s))
    BY <1>1, FaultLoop, Zenon DEF k
  <2>3. Keeps(FALSE, s, complete_page_faults(s))
    BY <1>1, <2>1, <2>2, LoopKeeps, Zenon
  <2> QED
    BY <2>3, Zenon DEF Keeps
<1> QED
  BY <1>2, <1>3, Zenon

LEMMA CompactKeeps ==
    ASSUME NEW s, Fits(s)
    PROVE  LET r == compact_pending_events(s)
           IN  Fits(r) /\ Marks(s, r) /\ r.buffer = s.buffer
<1> DEFINE old == [i \in 1..s.pending_count |-> i - 1]
           kept == Keep(old, {i \in Events : s.pending[i].active})
           events == [i \in Events |-> IF i < Len(kept) THEN s.pending[kept[i + 1]] ELSE s.pending[i]]
           r == compact_pending_events(s)
<1>1. /\ Record(s) /\ EventTables(s)
      /\ s.pending_count \in Nat /\ s.pending_count <= MaxPending /\ MaxPending \in Nat
  <2>1. MaxPending \in Nat
    BY KernelAssumption, Zenon
  <2> QED
    BY <2>1 DEF Fits, EventTables
<1>2. old \in Seq(Events) /\ Len(old) = s.pending_count
  BY <1>1 DEF Events
<1>3. kept \in Seq(Events) /\ Len(kept) <= s.pending_count
  <2> HIDE DEF old
  <2> QED
    BY <1>2, KeepProperties
<1>4. r = [s EXCEPT !.pending = events, !.pending_count = Len(kept)]
  BY Zenon DEF compact_pending_events
<1> HIDE DEF old, kept
<1>5. Len(kept) \in Nat /\ \A i \in Events : i < Len(kept) => kept[i + 1] \in Events
  <2>1. Len(kept) \in Nat /\ \A x \in 1..Len(kept) : kept[x] \in Events
    BY <1>3
  <2>2. \A i \in Events : i < Len(kept) => i + 1 \in 1..Len(kept)
    BY <2>1 DEF Events
  <2> QED
    BY <2>1, <2>2, Zenon
<1>6. events \in [Events -> EventRecords]
  BY <1>1, <1>5, Zenon DEF EventTables
<1>7. \A i \in Events : events[i].reason = "IO_BLOCK" => events[i].path # F!Unused
  BY <1>1, <1>5, Zenon DEF EventTables
<1> HIDE DEF events, r
<1>8. /\ Record(r)
      /\ r.sched = s.sched /\ r.buffer = s.buffer /\ r.graph = s.graph /\ r.mem = s.mem /\ r.fs = s.fs
      /\ r.pc = s.pc /\ r.burst = s.burst /\ r.reason = s.reason
      /\ r.pstate = s.pstate /\ r.preason = s.preason /\ r.phase = s.phase
      /\ r.wait_time = s.wait_time /\ r.completion = s.completion
      /\ r.pending = events /\ r.pending_count = Len(kept) /\ r.io_seq = s.io_seq
  BY <1>1, <1>4, Zenon DEF Record, Fields
<1>9. EventTables(r)
  BY <1>1, <1>3, <1>5, <1>6, <1>7, <1>8 DEF EventTables
<1>10. Fits(r) /\ Marks(s, r)
  BY <1>8, <1>9, EventsFit, Zenon
<1> QED
  BY <1>8, <1>10, Zenon DEF r

LEMMA AddEventKeeps ==
    ASSUME NEW s, Fits(s), NEW slots \in SUBSET Events, NEW e \in EventRecords,
           e.reason = "IO_BLOCK" => e.path # F!Unused
    PROVE  LET r == AddEvent(s, slots, e)
           IN  /\ Fits(r) /\ Marks(s, r)
               /\ r.sched = s.sched /\ r.buffer = s.buffer
<1> DEFINE i == CHOOSE j \in slots : TRUE
           events == [s.pending EXCEPT ![i] = e]
           count == IF i >= s.pending_count THEN i + 1 ELSE s.pending_count
           r == [s EXCEPT !.pending = events, !.pending_count = count]
<1>1. CASE slots = {}
  BY <1>1, Zenon DEF AddEvent, Marks
<1>2. CASE slots # {}
  <2>1. AddEvent(s, slots, e) = r
    BY <1>2, Zenon DEF AddEvent
  <2>2. i \in Events
    BY <1>2, Zenon
  <2> HIDE DEF i
  <2>3. Record(s) /\ EventTables(s)
    BY Zenon DEF Fits
  <2>4. count \in 0..MaxPending
    <3>1. MaxPending \in Nat /\ s.pending_count \in 0..MaxPending
      BY <2>3, KernelAssumption, Zenon DEF EventTables
    <3> QED
      BY <2>2, <3>1 DEF Events
  <2>5. /\ events \in [Events -> EventRecords]
        /\ \A k \in Events : events[k].reason = "IO_BLOCK" => events[k].path # F!Unused
    BY <2>2, <2>3, Zenon DEF EventTables
  <2> HIDE DEF events, count
  <2>6. /\ Record(r)
        /\ r.sched = s.sched /\ r.buffer = s.buffer /\ r.graph = s.graph
        /\ r.mem = s.mem /\ r.fs = s.fs
        /\ r.pc = s.pc /\ r.burst = s.burst /\ r.reason = s.reason
        /\ r.pstate = s.pstate /\ r.preason = s.preason /\ r.phase = s.phase
        /\ r.wait_time = s.wait_time /\ r.completion = s.completion
        /\ r.pending = events /\ r.pending_count = count /\ r.io_seq = s.io_seq
    BY <2>3, Zenon DEF Record, Fields
  <2> HIDE DEF r
  <2>7. EventTables(r)
    BY <2>3, <2>4, <2>5, <2>6, Zenon DEF EventTables
  <2>8. Fits(r) /\ Marks(s, r)
    BY <2>6, <2>7, EventsFit, Zenon
  <2> QED
    BY <2>1, <2>6, <2>8, Zenon
<1> QED
  BY <1>1, <1>2, Zenon
-----------------------------------------------------------------------------
(* The arrivals and the beginning *)

\* The threads of D are new to the scheduler, and it takes all of them.
LEMMA AddThreadsSettles ==
    ASSUME Promises, NEW q, NEW A \in SUBSET Tids, S!Settled(q, A), NEW D \in SUBSET Tids, A \cap D = {}
    PROVE  S!Settled(AddThreads(q, D), A \cup D)
<1> DEFINE k == <<"add", D>>
           n == 2 * NumProcs
           Before(x) == {t \in D : t < x}
<1>1. n \in Nat /\ Tids = 0..(n - 1)
  BY Numbers DEF Tids
<1>10. \A t \in D : t \in Int /\ 0 <= t /\ t <= n - 1
  BY <1>1
<1>2. PICK f : Loops(f, k, n, q) /\ AddThreads(q, D) = f[n]
  BY AddLoop, Zenon DEF Yields
<1>3. f[0] = q /\ \A x \in 1..n : f[x] = Turn(k, f[x - 1], x - 1)
  BY <1>1, <1>2, LoopsAt, Zenon
<1>4. \A u, x : Turn(k, u, x) = IF x \in D THEN S!scheduler_add(u, x) ELSE u
  BY Zenon DEF Turn, AddIf
<1> HIDE DEF k, n
<1>11. Before(0) = {} /\ Before(n) = D
  <2>1. \A t \in D : t < n /\ ~ (t < 0)
    BY <1>1, <1>10
  <2> QED
    BY <2>1, Zenon
<1>12. ASSUME NEW x \in 1..n
       PROVE  Before(x) = IF x - 1 \in D THEN Before(x - 1) \cup {x - 1} ELSE Before(x - 1)
  <2>1. \A t \in D : t < x <=> t < x - 1 \/ t = x - 1
    BY <1>1, <1>10
  <2>2. \A t : t \in Before(x) <=> t \in D /\ (t \in Before(x - 1) \/ t = x - 1)
    BY <2>1, Zenon
  <2>3. \A t : t \in Before(x - 1) => t \in D
    BY Zenon
  <2> HIDE DEF Before
  <2> QED
    BY <2>2, <2>3, Zenon
<1>13. \A x : Before(x) \in SUBSET D /\ x \notin Before(x)
  BY <1>10
<1> HIDE DEF Before
<1> DEFINE P == {x \in 0..n : S!Settled(f[x], A \cup Before(x))}
<1>5. 0 \in P
  <2>1. A \cup Before(0) = A
    BY <1>11, Zenon
  <2>2. 0 \in 0..n
    BY <1>1
  <2> QED
    BY <1>3, <2>1, <2>2, Zenon
<1>6. ASSUME NEW x \in 1..n, x - 1 \in P
      PROVE  x \in P
  <2>0. x \in 0..n
    BY <1>1
  <2>1. S!Settled(f[x - 1], A \cup Before(x - 1)) /\ A \cup Before(x - 1) \in SUBSET Tids
    BY <1>6, <1>13, Zenon
  <2>2. f[x] = IF x - 1 \in D THEN S!scheduler_add(f[x - 1], x - 1) ELSE f[x - 1]
    BY <1>3, <1>4, Zenon
  <2>3. CASE x - 1 \in D
    <3>1. x - 1 \in Tids \ (A \cup Before(x - 1))
      BY <1>13, <2>3, Zenon
    <3>2. A \cup Before(x) = (A \cup Before(x - 1)) \cup {x - 1}
      BY <1>12, <2>3, Zenon
    <3>3. S!Settled(f[x], (A \cup Before(x - 1)) \cup {x - 1})
      BY <2>1, <2>2, <2>3, <3>1 DEF Promises, SchedulerPromise
    <3> QED
      BY <2>0, <3>2, <3>3, Zenon
  <2>4. CASE x - 1 \notin D
    <3>1. A \cup Before(x) = A \cup Before(x - 1)
      BY <1>12, <2>4, Zenon
    <3> QED
      BY <2>0, <2>1, <2>2, <2>4, <3>1, Zenon
  <2> QED
    BY <2>3, <2>4, Zenon
<1>7. P = 0..n
  <2> HIDE DEF P
  <2> QED
    BY <1>1, <1>5, <1>6, IntervalInduction, Zenon DEF P
<1>8. n \in P
  <2>1. n \in 0..n
    BY <1>1
  <2> QED
    BY <1>7, <2>1, Zenon
<1> QED
  BY <1>2, <1>8, <1>11, Zenon

\* The processes of due arrive.
Arrive(s, due) ==
    [s EXCEPT !.pstate = [p \in Pids |-> IF p \in due THEN "READY" ELSE @[p]],
              !.sched = AddThreads(@, {t \in Tids : Owner(t) \in due})]

LEMMA ArrivalsKeep ==
    ASSUME Promises, NEW s, Fits(s), NEW due \in SUBSET Pids, \A p \in due : s.pstate[p] = "NEW"
    PROVE  LET r == Arrive(s, due)
           IN  /\ Fits(r) /\ r.buffer = s.buffer
               /\ \A p \in Pids : s.pstate[p] = "TERMINATED" => r.pstate[p] = "TERMINATED"
<1> DEFINE D == {t \in Tids : Owner(t) \in due}
           q == AddThreads(s.sched, D)
           states == [p \in Pids |-> IF p \in due THEN "READY" ELSE s.pstate[p]]
           r == [s EXCEPT !.pstate = states, !.sched = q]
<1>1. /\ Record(s) /\ S!Settled(s.sched, ArrivedIn(s))
      /\ ThreadTables(s) /\ ProcessTables(s) /\ EventTables(s)
  BY Zenon DEF Fits
<1>2. S!Settled(q, ArrivedIn(s) \cup D)
  <2>1. ArrivedIn(s) \in SUBSET Tids /\ D \in SUBSET Tids /\ ArrivedIn(s) \cap D = {}
    BY Zenon DEF ArrivedIn
  <2> HIDE DEF D
  <2> QED
    BY <1>1, <2>1, AddThreadsSettles, Zenon
<1>3. states \in [Pids -> ProcessStates]
  BY <1>1, Zenon DEF ProcessTables, ProcessStates
<1>4. \A p \in Pids : states[p] = IF p \in due THEN "READY" ELSE s.pstate[p]
  BY Zenon
<1> HIDE DEF q, states
<1>5. /\ Record(r)
      /\ r.sched = q /\ r.buffer = s.buffer /\ r.graph = s.graph /\ r.mem = s.mem /\ r.fs = s.fs
      /\ r.pc = s.pc /\ r.burst = s.burst /\ r.reason = s.reason
      /\ r.pstate = states /\ r.preason = s.preason /\ r.phase = s.phase
      /\ r.wait_time = s.wait_time /\ r.completion = s.completion
      /\ r.pending = s.pending /\ r.pending_count = s.pending_count /\ r.io_seq = s.io_seq
  BY <1>1, Zenon DEF Record, Fields
<1> HIDE DEF r
<1>6. ThreadTables(r)
  BY <1>1, <1>5, Zenon DEF ThreadTables
<1>7. ProcessTables(r)
  BY <1>1, <1>3, <1>5, Zenon DEF ProcessTables
<1>8. EventTables(r)
  BY <1>1, <1>5, Zenon DEF EventTables
<1>9. ArrivedIn(r) = ArrivedIn(s) \cup D
  BY <1>4, <1>5, OwnerType, Zenon DEF ArrivedIn
<1>10. Fits(r)
  BY <1>2, <1>5, <1>6, <1>7, <1>8, <1>9, Zenon DEF Fits
<1>11. \A p \in Pids : s.pstate[p] = "TERMINATED" => r.pstate[p] = "TERMINATED"
  BY <1>4, <1>5, Zenon
<1> QED
  BY <1>5, <1>10, <1>11, Zenon DEF r, states, q, Arrive

\* The loops over the memory.
LEMMA MemoryLoops ==
    ASSUME NEW k, NEW n \in Nat, NEW m, NEW r, M!Sound(m), Yields(k, n, m, r),
           \A x \in 0..(n - 1) : \A u : M!Sound(u) => M!Sound(Turn(k, u, x))
    PROVE  M!Sound(r)
<1>1. PICK f : Loops(f, k, n, m) /\ r = f[n]
  BY Zenon DEF Yields
<1>2. f[0] = m /\ \A x \in 1..n : f[x] = Turn(k, f[x - 1], x - 1)
  BY <1>1, LoopsAt, Zenon
<1> DEFINE P == {x \in 0..n : M!Sound(f[x])}
<1>3. 0 \in P
  BY <1>2
<1>4. ASSUME NEW x \in 1..n, x - 1 \in P
      PROVE  x \in P
  <2>1. x - 1 \in 0..(n - 1) /\ M!Sound(f[x - 1])
    BY <1>4
  <2> QED
    BY <1>2, <2>1
<1>5. P = 0..n
  BY <1>3, <1>4, IntervalInduction, Zenon
<1> QED
  BY <1>1, <1>5

LEMMA LoadedMemoryIsSound ==
    ASSUME Promises
    PROVE  M!Sound(LoadedMemory)
<1> DEFINE k == <<"load">>
           n == 2 * NumProcs
<1>1. n \in Nat
  BY Numbers
<1>2. 0 \in 0..MaxTicks /\ 2 <= MaxPages /\ MaxPages \in Nat
  <2>1. MaxTicks \in Nat /\ 2 <= MaxPages /\ MaxPages \in Nat
    BY KernelAssumption, Zenon
  <2> QED
    BY <2>1
<1>3. ASSUME NEW x \in 0..(n - 1), NEW u, M!Sound(u)
      PROVE  M!Sound(Turn(k, u, x))
  <2>1. Turn(k, u, x) = M!mem_allocate_page(u, x \div 2, x % 2, 0)
    BY Zenon DEF Turn, LoadPage
  <2>2. x \div 2 \in Pids /\ x % 2 \in M!Pages
    BY <1>2, Numbers DEF Pids, M!Pages
  <2> QED
    BY <1>2, <1>3, <2>1, <2>2, Zenon DEF Promises, MemoryPromise
<1>4. Yields(k, n, M!mem_init, LoadedMemory)
  BY LoadLoop, Zenon DEF LoadedMemory
<1> HIDE DEF k, n
<1> QED
  BY <1>1, <1>3, <1>4, MemoryLoops, Zenon DEF Promises, MemoryPromise

LEMMA FreedMemoryIsSound ==
    ASSUME Promises, NEW m, M!Sound(m)
    PROVE  M!Sound(ForEach(NumProcs, m, M!mem_free_process))
<1> DEFINE k == <<"free">>
<1>1. NumProcs \in Nat
  BY Numbers, Zenon
<1>2. ASSUME NEW x \in 0..(NumProcs - 1), NEW u, M!Sound(u)
      PROVE  M!Sound(Turn(k, u, x))
  <2>1. Turn(k, u, x) = M!mem_free_process(u, x)
    BY Zenon DEF Turn
  <2> QED
    BY <1>2, <2>1, Zenon DEF Pids, Promises, MemoryPromise
<1>3. Yields(k, NumProcs, m, ForEach(NumProcs, m, M!mem_free_process))
  BY FreeLoop, Zenon
<1> HIDE DEF k
<1> QED
  BY <1>1, <1>2, <1>3, MemoryLoops, Zenon
-----------------------------------------------------------------------------
(* The ends of a process by force *)

LEMMA FreeForgets ==
    ASSUME NEW m, M!Sound(m), NEW p \in Pids
    PROVE  LET c == M!mem_free_process(m, p)
           IN  /\ \A f \in M!Frames : c.frames[f] # p
               /\ \A q \in Pids \ {p} : c.page_table[q] = m.page_table[q]
<1>1. m \in M!Memories /\ None # p
  BY Numbers, Zenon DEF M!Sound
<1>2. /\ M!mem_free_process(m, p).frames
            = [f \in M!Frames |-> IF m.frames[f] = p THEN None ELSE m.frames[f]]
      /\ M!mem_free_process(m, p).page_table
            = [m.page_table EXCEPT ![p] = [g \in M!Pages |-> M!None]]
  BY <1>1, Zenon DEF M!Memories, M!mem_free_process
<1>3. \A q \in Pids \ {p} : M!mem_free_process(m, p).page_table[q] = m.page_table[q]
  BY <1>1, <1>2, Zenon DEF M!Memories
<1>4. \A f \in M!Frames : M!mem_free_process(m, p).frames[f] # p
  BY <1>1, <1>2, Zenon
<1> QED
  BY <1>3, <1>4, Zenon

\* cleanup_process after deadlock_resolve, as the detector has it.
LEMMA ResolveKeeps ==
    ASSUME Promises, NEW s, Fits(s), NEW p \in Pids, tick \in 0..MaxTicks
    PROVE  LET r == cleanup_process(ReleaseResources(s, p), p)
           IN  /\ Fits(r) /\ Final(s, r)
               /\ B!Settled(s.buffer) => B!Settled(r.buffer)
<1> DEFINE u == ReleaseResources(s, p)
           r == Bury(u, p)
<1>1. Follows(s, u)
  BY ReleaseKeeps, Zenon
<1> HIDE DEF u
<1>2. Fits(u) /\ Marks(s, u) /\ u.buffer = s.buffer
  BY <1>1, Zenon DEF Follows
<1>3. /\ Fits(r) /\ r.pstate = [u.pstate EXCEPT ![p] = "TERMINATED"]
      /\ B!Settled(u.buffer) => B!Settled(r.buffer)
  BY <1>2, BuryKeeps, Zenon
<1> HIDE DEF r
<1>4. u.pstate \in [Pids -> ProcessStates]
  BY <1>2, Zenon DEF Fits, ProcessTables
<1>5. Final(s, r)
  BY <1>2, <1>3, <1>4, Zenon DEF Marks, Final
<1>6. r = cleanup_process(ReleaseResources(s, p), p)
  BY Zenon DEF r, u, cleanup_process
<1> QED
  BY <1>2, <1>3, <1>5, <1>6, Zenon

\* cleanup_and_release: the process holds nothing and its threads are done, and the
\* others keep what they have.
LEMMA CrashKeeps ==
    ASSUME Promises, NEW s, Fits(s), NEW p \in Pids, tick \in 0..MaxTicks
    PROVE  LET r == cleanup_and_release(s, p)
           IN  /\ Fits(r) /\ Final(s, r) /\ ~ HasHoldings(r, p) /\ Spared(s, r, p)
               /\ \A t \in ThreadsOf(p) : r.sched.state[t] = "DONE"
<1> DEFINE u == ReleaseResources(s, p)
           f == F!fs_cleanup_process(u.fs, p)
           v == [u EXCEPT !.fs = f]
           r == Bury(v, p)
<1>1. /\ Follows(s, u) /\ u.mem = s.mem /\ u.fs = s.fs /\ u.pending = s.pending
      /\ \A k \in G!Resources : /\ u.graph.allocation[p][k] = 0
                                /\ u.graph.request[p][k] = 0
                                /\ ~ Contains(u.graph.wait[k], p)
      /\ \A q \in Pids \ {p}, k \in G!Resources :
            u.graph.allocation[q][k] >= s.graph.allocation[q][k]
  BY ReleaseKeeps, Zenon
<1>2. cleanup_and_release(s, p) = r
  BY Zenon DEF cleanup_and_release
<1> HIDE DEF u
<1>3. Fits(u) /\ Marks(s, u)
  BY <1>1, Zenon DEF Follows
<1>4. /\ Consistent(f)
      /\ \A i \in F!Used(f) : f.path[i][1] # p
      /\ \A i \in F!Used(u.fs) : u.fs.path[i][1] # p => f.path[i] = u.fs.path[i]
  <2>1. Consistent(u.fs)
    BY <1>3, Zenon DEF Fits
  <2> QED
    BY <2>1, CleanupIsConsistent, Zenon
<1> HIDE DEF f
<1>5. /\ Follows(u, v) /\ v.fs = f /\ v.graph = u.graph /\ v.mem = u.mem
      /\ v.pending = u.pending
  BY <1>3, <1>4, OnePartFits
<1> HIDE DEF v
<1>6. Fits(v) /\ Marks(u, v)
  BY <1>5, Zenon DEF Follows
<1>7. /\ Fits(r) /\ r.graph = v.graph /\ r.fs = v.fs /\ r.mem = M!mem_free_process(v.mem, p)
      /\ r.pstate = [v.pstate EXCEPT ![p] = "TERMINATED"]
      /\ r.buffer.owner # p /\ \A q \in B!Queues : ~ Contains(r.buffer.wait[q], p)
      /\ \A t \in ThreadsOf(p) : r.sched.state[t] = "DONE"
      /\ \A i \in Events : /\ i < r.pending_count /\ r.pending[i].pid = p => ~ r.pending[i].active
                           /\ v.pending[i].pid # p => r.pending[i] = v.pending[i]
  BY <1>6, BuryKeeps
<1> HIDE DEF r
<1>8. /\ \A k \in M!Frames : r.mem.frames[k] # p
      /\ \A q \in Pids \ {p} : r.mem.page_table[q] = s.mem.page_table[q]
  <2>1. M!Sound(v.mem)
    BY <1>6, Zenon DEF Fits
  <2> QED
    BY <1>1, <1>5, <1>7, <2>1, FreeForgets
<1>9. ~ HasHoldings(r, p)
  BY <1>1, <1>4, <1>5, <1>7, <1>8 DEF HasHoldings
<1>10. Final(s, r)
  <2>1. v.pstate \in [Pids -> ProcessStates]
    BY <1>6, Zenon DEF Fits, ProcessTables
  <2> QED
    BY <1>3, <1>6, <1>7, <2>1, Zenon DEF Marks, Final
<1>11. \A i \in F!Used(s.fs) : s.fs.path[i][1] # p => r.fs.path[i] = s.fs.path[i]
  BY <1>1, <1>4, <1>5, <1>7
<1>12. \A i \in Events : s.pending[i].pid # p => r.pending[i] = s.pending[i]
  BY <1>1, <1>5, <1>7
<1>13. Spared(s, r, p)
  BY <1>1, <1>5, <1>7, <1>8, <1>11, <1>12, Zenon DEF Spared
<1> QED
  BY <1>2, <1>7, <1>9, <1>10, <1>13, Zenon
-----------------------------------------------------------------------------
(* The steps of the loop *)

\* Only between the command of a tick and the wake-ups of its end may a process
\* be registered for what the buffer already has.
KInv ==
    /\ tick \in 0..MaxTicks
    /\ step \notin {"start", "stopped", "off"} => tick < MaxTicks
    /\ Fits(sys)
    /\ step \notin Late => B!Settled(sys.buffer)

\* What every step but the first of a tick leaves behind.
Reaches(r) == Fits(r) /\ Final(sys, r)

LEMMA FollowsReaches ==
    ASSUME NEW r, Fits(sys), Follows(sys, r)
    PROVE  Reaches(r) /\ r.buffer = sys.buffer
BY Zenon DEF Follows, Marks, Reaches, Final

LEMMA StepKeeps ==
    ASSUME KInv, NEW from, NEW to, NEW r, Moves(from, r, to), Reaches(r),
           to \notin Late => B!Settled(r.buffer),
           to \notin {"start", "stopped", "off"} => tick < MaxTicks
    PROVE  KInv' /\ Final(sys, sys')
<1>1. tick' = tick /\ step' = to /\ sys' = r
  BY Zenon DEF Moves
<1>2. tick \in 0..MaxTicks /\ Fits(r) /\ Final(sys, r)
  BY Zenon DEF KInv, Reaches
<1> QED
  BY <1>1, <1>2, Zenon DEF KInv

\* The command of a tick.
LEMMA CommandKeeps ==
    ASSUME Promises, KInv, NEW t \in Tids, NEW r, Reaches(r)
    PROVE  Reaches(EndOfBurst(r, t))
<1>1. Fits(r) /\ Final(sys, r) /\ tick \in 0..MaxTicks
  BY Zenon DEF Reaches, KInv
<1>2. Fits(EndOfBurst(r, t)) /\ Final(r, EndOfBurst(r, t))
  BY <1>1, BurstKeeps, Zenon
<1> QED
  BY <1>1, <1>2, Zenon DEF Final, Reaches

LEMMA RunningThread ==
    ASSUME Fits(sys), Runs(sys)
    PROVE  /\ Current(sys) \in Tids /\ Owner(Current(sys)) \in Pids
           /\ sys.sched.state[Current(sys)] = "RUNNING" /\ Current(sys) = sys.sched.current
<1>1. S!Settled(sys.sched, ArrivedIn(sys)) /\ ArrivedIn(sys) \in SUBSET Tids
  BY Zenon DEF Fits, ArrivedIn
<1>2. sys.sched.current \in ArrivedIn(sys) \cup {None}
  BY <1>1, SchedulerShape, Zenon
<1>3. Current(sys) \in Tids
  BY <1>1, <1>2, Zenon DEF Runs, Current
<1> QED
  BY <1>3, OwnerType, Zenon DEF Runs, Current

LEMMA BufferCallKeeps ==
    ASSUME Promises, KInv, Runs(sys), NEW t \in Tids, t = Current(sys), NEW result,
           B!Sound(result.buffer), result.wake \in Seq(Pids)
    PROVE  LET called == [sys EXCEPT !.buffer = result.buffer]
           IN  /\ Reaches(WakeReported(thread_execute(called, t), result.wake))
               /\ Reaches(block_thread(called, t, "MUTEX_WAIT"))
<1> DEFINE called == [sys EXCEPT !.buffer = result.buffer]
           done == thread_execute(called, t)
           woken == WakeReported(done, result.wake)
           blocked == block_thread(called, t, "MUTEX_WAIT")
<1>1. Fits(sys)
  BY Zenon DEF KInv
<1>2. Fits(called) /\ Marks(sys, called) /\ called.sched = sys.sched
  BY <1>1, OnePartFits, Zenon
<1>3. t = called.sched.current /\ called.sched.state[t] = "RUNNING"
  BY <1>1, <1>2, RunningThread, Zenon
<1> HIDE DEF called
<1>4. Fits(done) /\ Marks(called, done)
  BY <1>2, ExecuteKeeps, Zenon DEF Quietly, Keeps, Follows
<1> HIDE DEF done
<1>5. Fits(woken) /\ Marks(done, woken)
  BY <1>4, WakeReportedKeeps, Zenon DEF Quietly, Keeps, Follows
<1>6. Fits(blocked) /\ Marks(called, blocked)
  BY <1>2, <1>3, BlockKeeps, Zenon DEF Quietly, Keeps, Follows, BlockReasons
<1> HIDE DEF woken, blocked
<1>7. Reaches(woken) /\ Reaches(blocked)
  BY <1>2, <1>4, <1>5, <1>6, Zenon DEF Marks, Reaches, Final
<1> QED
  BY <1>7, Zenon DEF woken, blocked, done, called

LEMMA AcquireKeeps ==
    ASSUME Promises, KInv, Runs(sys), NEW t \in Tids, t = Current(sys), NEW v \in 0..1
    PROVE  LET p == Owner(t)
               r == Wants[p][sys.phase[p]]
               answered == [sys EXCEPT !.graph = G!deadlock_request(@, p, r), !.phase[p] = v]
           IN  Reaches(block_thread(answered, t, "RESOURCE_WAIT")) /\ Reaches(Advance(answered, t))
<1> DEFINE p == Owner(t)
           r == Wants[p][sys.phase[p]]
           g == G!deadlock_request(sys.graph, p, r)
           answered == [sys EXCEPT !.graph = g, !.phase[p] = v]
           blocked == block_thread(answered, t, "RESOURCE_WAIT")
           on == Advance(answered, t)
<1>1. Fits(sys)
  BY Zenon DEF KInv
<1>2. /\ Record(sys) /\ ThreadTables(sys) /\ ProcessTables(sys) /\ EventTables(sys)
      /\ S!Settled(sys.sched, ArrivedIn(sys)) /\ G!Sound(sys.graph)
  BY <1>1, Zenon DEF Fits
<1>3. p \in Pids /\ sys.phase[p] \in 0..1
  BY <1>2, OwnerType, Zenon DEF ProcessTables
<1>4. r \in 0..2
  BY <1>3, Numbers DEF Wants, LandingPad, ChargeStation, CommChannel, Pids
<1>5. G!Sound(g)
  BY <1>2, <1>3, <1>4, Zenon DEF Promises, GraphPromise
<1> HIDE DEF g
<1>6. /\ Record(answered)
      /\ answered.phase = [sys.phase EXCEPT ![p] = v] /\ answered.graph = g
      /\ answered.sched = sys.sched /\ answered.buffer = sys.buffer
      /\ answered.mem = sys.mem /\ answered.fs = sys.fs
      /\ answered.pc = sys.pc /\ answered.burst = sys.burst /\ answered.reason = sys.reason
      /\ answered.pstate = sys.pstate /\ answered.preason = sys.preason
      /\ answered.wait_time = sys.wait_time /\ answered.completion = sys.completion
      /\ answered.pending = sys.pending /\ answered.pending_count = sys.pending_count
      /\ answered.io_seq = sys.io_seq
  BY <1>2, Zenon DEF Record, Fields
<1>7. answered = [sys EXCEPT !.graph = G!deadlock_request(@, p, r), !.phase[p] = v]
  BY Zenon DEF g
<1> HIDE DEF answered
<1>8. ThreadTables(answered)
  BY <1>2, <1>6, Zenon DEF ThreadTables
<1>9. ProcessTables(answered)
  BY <1>2, <1>6, Zenon DEF ProcessTables
<1>10. EventTables(answered)
  BY <1>2, <1>6, Zenon DEF EventTables
<1>11. ArrivedIn(answered) = ArrivedIn(sys) /\ Marks(sys, answered)
  BY <1>6, Zenon DEF ArrivedIn, Marks
<1>12. Fits(answered)
  BY <1>1, <1>5, <1>6, <1>8, <1>9, <1>10, <1>11, Zenon DEF Fits
<1>13. t = answered.sched.current /\ answered.sched.state[t] = "RUNNING"
  BY <1>1, <1>6, RunningThread, Zenon
<1>14. Fits(blocked) /\ Marks(answered, blocked)
  BY <1>12, <1>13, BlockKeeps, Zenon DEF Quietly, Keeps, Follows, BlockReasons
<1>15. Fits(on) /\ Marks(answered, on)
  BY <1>12, AdvanceKeeps, Zenon DEF Quietly, Keeps, Follows
<1> HIDE DEF blocked, on
<1>16. Reaches(blocked) /\ Reaches(on)
  BY <1>11, <1>14, <1>15, Zenon DEF Marks, Reaches, Final
<1> QED
  BY <1>7, <1>16, Zenon DEF blocked, on

LEMMA FileKeeps ==
    ASSUME NEW s, Fits(s), NEW f, Consistent(f), NEW n \in Nat
    PROVE  LET r == [s EXCEPT !.io_seq = n, !.fs = f]
           IN  Fits(r) /\ Marks(s, r) /\ r.sched = s.sched /\ r.buffer = s.buffer
<1> DEFINE r == [s EXCEPT !.io_seq = n, !.fs = f]
<1>1. /\ Record(s) /\ ThreadTables(s) /\ ProcessTables(s) /\ EventTables(s)
      /\ S!Settled(s.sched, ArrivedIn(s))
      /\ B!Sound(s.buffer) /\ G!Sound(s.graph) /\ M!Sound(s.mem)
  BY Zenon DEF Fits
<1>2. /\ Record(r) /\ r.io_seq = n /\ r.fs = f
      /\ r.sched = s.sched /\ r.buffer = s.buffer /\ r.graph = s.graph /\ r.mem = s.mem
      /\ r.pc = s.pc /\ r.burst = s.burst /\ r.reason = s.reason
      /\ r.pstate = s.pstate /\ r.preason = s.preason /\ r.phase = s.phase
      /\ r.wait_time = s.wait_time /\ r.completion = s.completion
      /\ r.pending = s.pending /\ r.pending_count = s.pending_count
  BY <1>1, Zenon DEF Record, Fields
<1> HIDE DEF r
<1>3. ThreadTables(r)
  BY <1>1, <1>2, Zenon DEF ThreadTables
<1>4. ProcessTables(r)
  BY <1>1, <1>2, Zenon DEF ProcessTables
<1>5. EventTables(r)
  BY <1>1, <1>2, Zenon DEF EventTables
<1>6. ArrivedIn(r) = ArrivedIn(s) /\ Marks(s, r)
  BY <1>2, Zenon DEF ArrivedIn, Marks
<1>7. Fits(r)
  BY <1>1, <1>2, <1>3, <1>4, <1>5, <1>6, Zenon DEF Fits
<1> QED
  BY <1>2, <1>6, <1>7, Zenon DEF r

LEMMA PathIsNew ==
    ASSUME NEW p \in Pids, NEW n \in Nat
    PROVE  F!Path(p, n) \in Paths /\ F!Path(p, n) # F!Unused
BY Numbers DEF F!Path, F!Unused, Paths

\* The event of a thread that waits for a device.
LEMMA NewEvent ==
    ASSUME NEW p \in Pids, NEW now \in Nat, NEW duration \in Nat, NEW page \in M!Pages
    PROVE  /\ \A n \in Nat :
                 LET e == [NoEvent EXCEPT !.pid = p, !.completion_tick = now + duration,
                              !.reason = "IO_BLOCK", !.path = F!Path(p, n), !.active = TRUE]
                 IN  e \in EventRecords /\ e.path # F!Unused
           /\ LET e == [NoEvent EXCEPT !.pid = p, !.completion_tick = now + duration,
                           !.reason = "PAGE_FAULT", !.page = page, !.active = TRUE]
              IN  e \in EventRecords /\ e.reason # "IO_BLOCK"
<1>1. 0 \in M!Pages /\ F!Unused \in Paths /\ now + duration \in Nat
  <2>1. MaxPages \in Nat \ {0}
    BY KernelAssumption, Zenon
  <2> QED
    BY <2>1 DEF M!Pages, F!Unused, F!Path, Paths
<1>2. ASSUME NEW n \in Nat
      PROVE  LET e == [NoEvent EXCEPT !.pid = p, !.completion_tick = now + duration,
                          !.reason = "IO_BLOCK", !.path = F!Path(p, n), !.active = TRUE]
             IN  e \in EventRecords /\ e.path # F!Unused
  <2>1. F!Path(p, n) \in Paths /\ F!Path(p, n) # F!Unused
    BY PathIsNew, Zenon
  <2> QED
    BY <1>1, <2>1, Zenon DEF NoEvent, EventRecords, BlockReasons
<1>3. LET e == [NoEvent EXCEPT !.pid = p, !.completion_tick = now + duration,
                   !.reason = "PAGE_FAULT", !.page = page, !.active = TRUE]
      IN  e \in EventRecords /\ e.reason # "IO_BLOCK"
  BY <1>1, Zenon DEF NoEvent, EventRecords, BlockReasons
<1> QED
  BY <1>2, <1>3, Zenon

LEMMA IOWriteKeeps ==
    ASSUME Promises, KInv, Runs(sys), NEW t \in Tids, t = Current(sys), NEW e \in EventRecords,
           e.reason = "IO_BLOCK" => e.path # F!Unused
    PROVE  LET path == F!Path(Owner(t), sys.io_seq)
               opened == [sys EXCEPT !.io_seq = @ + 1, !.fs = F!fs_create(@, path)]
               blocked == block_thread(Advance(opened, t), t, "IO_BLOCK")
           IN  Reaches(AddEvent(blocked, SlotForIO(blocked), e))
<1> DEFINE path == F!Path(Owner(t), sys.io_seq)
           opened == [sys EXCEPT !.io_seq = @ + 1, !.fs = F!fs_create(@, path)]
           on == Advance(opened, t)
           blocked == block_thread(on, t, "IO_BLOCK")
           r == AddEvent(blocked, SlotForIO(blocked), e)
<1>1. Fits(sys) /\ Owner(t) \in Pids
  BY OwnerType, Zenon DEF KInv
<1>2. sys.io_seq \in Nat /\ Consistent(sys.fs) /\ Record(sys)
  BY <1>1, Zenon DEF Fits, EventTables
<1>3. path \in Paths /\ path # F!Unused
  BY <1>1, <1>2, PathIsNew, Zenon
<1> HIDE DEF path
<1>4. Consistent(F!fs_create(sys.fs, path)) /\ sys.io_seq + 1 \in Nat
  BY <1>2, <1>3, CreateIsConsistent
<1>5. Fits(opened) /\ Marks(sys, opened) /\ opened.sched = sys.sched
  BY <1>1, <1>4, FileKeeps, Zenon
<1>6. t = opened.sched.current /\ opened.sched.state[t] = "RUNNING"
  BY <1>1, <1>5, RunningThread, Zenon
<1>7. on.sched = opened.sched
  <2>1. Record(opened)
    BY <1>5, Zenon DEF Fits
  <2> HIDE DEF opened
  <2> QED
    BY <2>1, Zenon DEF Advance, Record, Fields
<1> HIDE DEF opened
<1>8. Fits(on) /\ Marks(opened, on)
  BY <1>5, AdvanceKeeps, Zenon DEF Quietly, Keeps, Follows
<1> HIDE DEF on
<1>9. Fits(blocked) /\ Marks(on, blocked)
  BY <1>6, <1>7, <1>8, BlockKeeps, Zenon DEF Quietly, Keeps, Follows, BlockReasons
<1> HIDE DEF blocked
<1>10. SlotForIO(blocked) \in SUBSET Events
  BY Zenon DEF SlotForIO, Idle
<1>11. Fits(r) /\ Marks(blocked, r)
  BY <1>9, <1>10, AddEventKeeps, Zenon
<1> HIDE DEF r
<1>12. Reaches(r)
  BY <1>5, <1>8, <1>9, <1>11, Zenon DEF Marks, Reaches, Final
<1> QED
  BY <1>12, Zenon DEF r, blocked, on, opened, path

\* The page after the resident ones.
LEMMA PageType ==
    ASSUME KInv, Accesses
    PROVE  /\ Page \in M!Pages /\ Owner(Current(sys)) \in Pids /\ Current(sys) \in Tids
           /\ sys.sched.state[Current(sys)] = "RUNNING" /\ Current(sys) = sys.sched.current
           /\ M!Sound(sys.mem) /\ tick \in 0..MaxTicks /\ Fits(sys)
<1>1. Fits(sys) /\ Runs(sys) /\ Page < MaxPages /\ tick \in 0..MaxTicks
  BY Zenon DEF KInv, Accesses
<1> DEFINE p == Owner(Current(sys))
<1>2. /\ p \in Pids /\ Current(sys) \in Tids
      /\ sys.sched.state[Current(sys)] = "RUNNING" /\ Current(sys) = sys.sched.current
  BY <1>1, RunningThread, Zenon
<1>3. MaxPages \in Nat \ {0}
  BY KernelAssumption, Zenon
<1> DEFINE here == {g \in M!Pages : sys.mem.page_table[p][g] # None}
<1>4. IsFiniteSet(M!Pages) /\ here \in SUBSET M!Pages
  <2>1. 0 \in Int /\ MaxPages - 1 \in Int
    BY <1>3
  <2> QED
    BY <2>1, FS_Interval, Zenon DEF M!Pages
<1>5. Cardinality(here) \in Nat
  BY <1>4, FS_Subset, FS_CardinalityType, Zenon
<1>6. M!Cardinality(here) = Cardinality(here)
  BY Zenon DEF M!Cardinality, Cardinality
<1>7. M!None = None
  BY Zenon DEF M!None, None
<1>8. Page = Cardinality(here)
  BY <1>6, <1>7, Zenon DEF Page, M!mem_get_page_count
<1>9. Page \in M!Pages
  BY <1>1, <1>3, <1>5, <1>8 DEF M!Pages
<1> QED
  BY <1>1, <1>2, <1>9, Zenon DEF Fits

LEMMA TouchKeeps ==
    ASSUME Promises, KInv, Accesses, ~ Missing
    PROVE  Reaches([sys EXCEPT !.mem = M!Touch(@, Owner(Current(sys)), Page, tick)])
<1>1. M!Sound(M!Touch(sys.mem, Owner(Current(sys)), Page, tick)) /\ Fits(sys)
  BY PageType, Zenon DEF Missing, Promises, MemoryPromise
<1>2. Follows(sys, [sys EXCEPT !.mem = M!Touch(sys.mem, Owner(Current(sys)), Page, tick)])
  BY <1>1, OnePartFits, Zenon
<1> QED
  BY <1>1, <1>2, FollowsReaches, Zenon

LEMMA FaultKeeps ==
    ASSUME Promises, KInv, NEW t \in Tids, t = sys.sched.current, sys.sched.state[t] = "RUNNING",
           NEW e \in EventRecords, e.reason # "IO_BLOCK"
    PROVE  LET blocked == block_thread(sys, t, "PAGE_FAULT")
           IN  Reaches(AddEvent(blocked, SlotForFault(blocked), e))
<1> DEFINE blocked == block_thread(sys, t, "PAGE_FAULT")
           r == AddEvent(blocked, SlotForFault(blocked), e)
<1>1. Fits(blocked) /\ Marks(sys, blocked)
  BY BlockKeeps, Zenon DEF Quietly, Keeps, Follows, BlockReasons, KInv
<1> HIDE DEF blocked
<1>2. SlotForFault(blocked) \in SUBSET Events
  BY Zenon DEF SlotForFault, Idle
<1>3. Fits(r) /\ Marks(blocked, r)
  BY <1>1, <1>2, AddEventKeeps, Zenon
<1> HIDE DEF r
<1>4. Reaches(r)
  BY <1>1, <1>3, Zenon DEF Marks, Reaches, Final
<1> QED
  BY <1>4, Zenon DEF r, blocked

LEMMA CountKeeps ==
    ASSUME NEW s, Fits(s), NEW w \in SUBSET Pids
    PROVE  LET r == [s EXCEPT !.wait_time = [p \in Pids |-> IF p \in w THEN @[p] + 1 ELSE @[p]]]
           IN  Follows(s, r)
<1> DEFINE r == [s EXCEPT !.wait_time = [p \in Pids |-> IF p \in w THEN @[p] + 1 ELSE @[p]]]
<1>1. /\ Record(s) /\ ThreadTables(s) /\ ProcessTables(s) /\ EventTables(s)
      /\ S!Settled(s.sched, ArrivedIn(s))
      /\ B!Sound(s.buffer) /\ G!Sound(s.graph) /\ M!Sound(s.mem) /\ Consistent(s.fs)
  BY Zenon DEF Fits
<1>2. /\ Record(r)
      /\ r.wait_time = [p \in Pids |-> IF p \in w THEN s.wait_time[p] + 1 ELSE s.wait_time[p]]
      /\ r.sched = s.sched /\ r.buffer = s.buffer /\ r.graph = s.graph /\ r.mem = s.mem
      /\ r.fs = s.fs /\ r.io_seq = s.io_seq
      /\ r.pc = s.pc /\ r.burst = s.burst /\ r.reason = s.reason
      /\ r.pstate = s.pstate /\ r.preason = s.preason /\ r.phase = s.phase
      /\ r.completion = s.completion
      /\ r.pending = s.pending /\ r.pending_count = s.pending_count
  BY <1>1, Zenon DEF Record, Fields
<1> HIDE DEF r
<1>3. ThreadTables(r)
  BY <1>1, <1>2, Zenon DEF ThreadTables
<1>4. ProcessTables(r)
  BY <1>1, <1>2 DEF ProcessTables
<1>5. EventTables(r)
  BY <1>1, <1>2, Zenon DEF EventTables
<1>6. ArrivedIn(r) = ArrivedIn(s) /\ Marks(s, r)
  BY <1>2, Zenon DEF ArrivedIn, Marks
<1>7. Fits(r)
  BY <1>1, <1>2, <1>3, <1>4, <1>5, <1>6, Zenon DEF Fits
<1>8. Follows(s, r)
  BY <1>2, <1>6, <1>7, Zenon DEF Follows
<1> QED
  BY <1>8, Zenon DEF r
-----------------------------------------------------------------------------
(* The beginning *)

LEMMA OpensWell ==
    ASSUME Promises, NEW mode \in {"RR", "MLFQ"}, NEW bursts \in Bursts
    PROVE  LET s == Booted(mode, bursts)
           IN  Fits(s) /\ B!Settled(s.buffer)
<1> DEFINE s == Booted(mode, bursts)
           q == AddThreads(S!scheduler_init(mode), EarlyThreads)
           b == B!buffer_init(0)
           early == [p \in Pids |-> IF Arrival[p] = 0 THEN "READY" ELSE "NEW"]
           pc0 == [t \in Tids |-> 0]
           why0 == [t \in Tids |-> "NONE"]
           none0 == [p \in Pids |-> "NONE"]
           wait0 == [p \in Pids |-> 0]
           open0 == [p \in Pids |-> None]
           events0 == [i \in Events |-> NoEvent]
<1>1. bursts \in [Tids -> Nat]
  BY KernelAssumption, Zenon
<1>2. EarlyThreads \in SUBSET Tids /\ S!Settled(S!scheduler_init(mode), {})
  BY Zenon DEF EarlyThreads, Promises, SchedulerPromise
<1>3. S!Settled(q, {} \cup EarlyThreads)
  BY <1>2, AddThreadsSettles, Zenon
<1>4. B!Sound(b) /\ B!Settled(b)
  BY Zenon DEF Promises, BufferPromise
<1>5. G!Sound(G!deadlock_init) /\ M!Sound(LoadedMemory) /\ Consistent(F!fs_init)
  BY LoadedMemoryIsSound, FilesOpen, Zenon DEF Promises, GraphPromise
<1> HIDE DEF q, b
<1>6. s = [pstate |-> early, preason |-> none0, wait_time |-> wait0, completion |-> open0,
           pc |-> pc0, burst |-> [t \in Tids |-> bursts[t]], reason |-> why0,
           phase |-> wait0, pending |-> events0, pending_count |-> 0, io_seq |-> 0,
           sched |-> q, buffer |-> b, graph |-> G!deadlock_init, mem |-> LoadedMemory,
           fs |-> F!fs_init]
  BY Zenon DEF Booted, pcb_create, thread_create, q, b
<1>7. [t \in Tids |-> bursts[t]] = bursts
  BY <1>1, Zenon
<1> HIDE DEF s, early, pc0, why0, none0, wait0, open0, events0
<1>8. /\ Record(s)
      /\ s.pstate = early /\ s.preason = none0 /\ s.wait_time = wait0 /\ s.completion = open0
      /\ s.pc = pc0 /\ s.burst = bursts /\ s.reason = why0
      /\ s.phase = wait0 /\ s.pending = events0 /\ s.pending_count = 0 /\ s.io_seq = 0
      /\ s.sched = q /\ s.buffer = b /\ s.graph = G!deadlock_init /\ s.mem = LoadedMemory
      /\ s.fs = F!fs_init
  BY <1>6, <1>7, Zenon DEF Record, Fields
<1>9. ThreadTables(s)
  <2>1. \A t \in Tids : Len(Program[t]) \in Nat \ {0}
    BY KernelAssumption, Zenon
  <2>2. pc0 \in [Tids -> Nat] /\ \A t \in Tids : pc0[t] = 0
    BY Zenon DEF pc0
  <2>3. why0 \in [Tids -> BlockReasons]
    BY Zenon DEF why0, BlockReasons
  <2>4. bursts \in [Tids -> Int]
    BY <1>1
  <2>5. \A t \in Tids : s.pc[t] < Len(Program[t])
    BY <1>8, <2>1, <2>2
  <2> QED
    BY <1>8, <2>2, <2>3, <2>4, <2>5, Zenon DEF ThreadTables
<1>10. ProcessTables(s)
  <2>1. early \in [Pids -> ProcessStates] /\ none0 \in [Pids -> BlockReasons]
    BY Zenon DEF early, none0, ProcessStates, BlockReasons
  <2>2. wait0 \in [Pids -> Nat] /\ wait0 \in [Pids -> 0..1]
    BY DEF wait0
  <2>3. open0 \in [Pids -> 0..MaxTicks \cup {None}]
    BY Zenon DEF open0
  <2> QED
    BY <1>8, <2>1, <2>2, <2>3, Zenon DEF ProcessTables
<1>11. EventTables(s)
  <2>1. MaxPages \in Nat \ {0} /\ MaxPending \in Nat
    BY KernelAssumption, Zenon
  <2>2. F!Unused \in Paths /\ 0 \in M!Pages /\ 0 \in Pids
    BY <2>1, Numbers DEF F!Unused, F!Path, Paths, M!Pages
  <2>3. NoEvent \in EventRecords /\ NoEvent.reason # "IO_BLOCK"
    BY <2>2, Zenon DEF NoEvent, EventRecords, BlockReasons
  <2>4. events0 \in [Events -> EventRecords] /\ \A i \in Events : events0[i] = NoEvent
    BY <2>3, Zenon DEF events0
  <2>5. 0 \in 0..MaxPending /\ 0 \in Nat
    BY <2>1
  <2> QED
    BY <1>8, <2>3, <2>4, <2>5, Zenon DEF EventTables
<1>12. ArrivedIn(s) = {} \cup EarlyThreads
  <2>1. \A t \in Tids : s.pstate[Owner(t)] # "NEW" <=> Arrival[Owner(t)] = 0
    BY <1>8, OwnerType, Zenon DEF early
  <2> QED
    BY <2>1, Zenon DEF ArrivedIn, EarlyThreads
<1>13. S!Settled(s.sched, ArrivedIn(s))
  BY <1>3, <1>8, <1>12, Zenon
<1>14. Fits(s) /\ B!Settled(s.buffer)
  BY <1>4, <1>5, <1>8, <1>9, <1>10, <1>11, <1>13, Zenon DEF Fits
<1> QED
  BY <1>14, Zenon DEF s
-----------------------------------------------------------------------------
(* One step for each step of the loop *)

LEMMA InitKeeps ==
    ASSUME Promises, Init
    PROVE  KInv
<1>1. config \in Configs /\ tick = 0 /\ step = "start"
  BY Zenon DEF Init
<1>2. PICK bursts \in Bursts : sys = Booted(config.mode, bursts)
  BY Zenon DEF Init
<1>3. config.mode \in {"RR", "MLFQ"} /\ MaxTicks \in Nat
  BY <1>1, KernelAssumption, Zenon
<1>4. Fits(sys) /\ B!Settled(sys.buffer)
  BY <1>2, <1>3, OpensWell, Zenon
<1> QED
  BY <1>1, <1>3, <1>4 DEF KInv

\* What each step of the kernel leaves, whatever the prompt does.
LEMMA PromptKeeps ==
    ASSUME KInv, sys' = sys, tick' = tick, step = "start",
           step' = "start" \/ (step' = "arrivals" /\ tick < MaxTicks) \/ step' = "stopped"
    PROVE  KInv' /\ Final(sys, sys')
BY Zenon DEF KInv, Final, Late

LEMMA BeginningKeeps ==
    ASSUME KInv, Complete \/ Start \/ Prompting \/ AllTerminated
    PROVE  KInv' /\ Final(sys, sys')
<1>1. CASE Complete
  BY <1>1, PromptKeeps, Zenon DEF Complete, Moves
<1>2. CASE Start
  BY <1>2, PromptKeeps, Zenon DEF Start, Moves
<1>3. CASE Prompting
  <2>1. CASE \E line \in Lines : Type(line)
    BY <2>1, PromptKeeps, Zenon DEF Type, AtPrompt
  <2>2. CASE Quit
    BY <2>2, PromptKeeps, Zenon DEF Quit, AtPrompt, Moves
  <2>3. CASE Play
    BY <2>3, PromptKeeps, Zenon DEF Play
  <2> QED
    BY <1>3, <2>1, <2>2, <2>3, Zenon DEF Prompting
<1>4. CASE AllTerminated
  BY <1>4, Zenon DEF AllTerminated, Moves, KInv, Final, Late
<1> QED
  BY <1>1, <1>2, <1>3, <1>4, Zenon

LEMMA NextTurnKeeps ==
    ASSUME KInv, NextTurn
    PROVE  KInv' /\ Final(sys, sys')
<1>1. step = "check" /\ step' = "start" /\ tick' = tick + 1 /\ sys' = sys
  BY Zenon DEF NextTurn
<1>2. tick \in 0..MaxTicks /\ tick < MaxTicks /\ Fits(sys) /\ B!Settled(sys.buffer)
  BY <1>1, Zenon DEF KInv, Late
<1>3. MaxTicks \in Nat
  BY KernelAssumption, Zenon
<1>4. tick' \in 0..MaxTicks
  BY <1>1, <1>2, <1>3
<1> QED
  BY <1>1, <1>2, <1>4, Zenon DEF KInv, Final

\* Steps 1 to 4 of the loop.
LEMMA FirstStepsKeep ==
    ASSUME Promises, KInv, Arrivals \/ CompleteEvents \/ Dispatch
    PROVE  KInv' /\ Final(sys, sys')
<1>1. /\ Fits(sys) /\ tick \in 0..MaxTicks
      /\ step \notin Late => B!Settled(sys.buffer)
      /\ step \notin {"start", "stopped", "off"} => tick < MaxTicks
  BY Zenon DEF KInv
<1>2. CASE Arrivals
  <2> DEFINE due == {p \in Pids : sys.pstate[p] = "NEW" /\ Arrival[p] <= tick}
             r == Arrive(sys, due)
  <2>1. Moves("arrivals", r, "events") /\ step = "arrivals"
    BY <1>2, Zenon DEF Arrivals, Moves, Arrive
  <2>2. due \in SUBSET Pids /\ \A p \in due : sys.pstate[p] = "NEW"
    BY Zenon
  <2> HIDE DEF due
  <2>3. /\ Fits(r) /\ r.buffer = sys.buffer
        /\ \A p \in Pids : sys.pstate[p] = "TERMINATED" => r.pstate[p] = "TERMINATED"
    BY <1>1, <2>2, ArrivalsKeep
  <2> HIDE DEF r
  <2>4. Reaches(r) /\ B!Settled(r.buffer) /\ tick < MaxTicks
    BY <1>1, <2>1, <2>3, Zenon DEF Reaches, Final, Late
  <2> QED
    BY <2>1, <2>4, StepKeeps, Zenon
<1>3. CASE CompleteEvents
  <2> DEFINE written == complete_io_events(sys)
             loaded == complete_page_faults(written)
             r == compact_pending_events(loaded)
  <2>1. Moves("events", r, "dispatch") /\ step = "events"
    BY <1>3, Zenon DEF CompleteEvents, Moves
  <2>2. Follows(sys, written)
    BY <1>1, EventLoopsKeep, Zenon
  <2> HIDE DEF written
  <2>3. Follows(written, loaded)
    BY <1>1, <2>2, EventLoopsKeep, Zenon DEF Follows
  <2> HIDE DEF loaded
  <2>4. Fits(r) /\ Marks(loaded, r) /\ r.buffer = loaded.buffer
    BY <2>3, CompactKeeps, Zenon DEF Follows
  <2> HIDE DEF r
  <2>5. Reaches(r) /\ r.buffer = sys.buffer
    BY <2>2, <2>3, <2>4, Zenon DEF Follows, Marks, Reaches, Final
  <2>6. B!Settled(r.buffer) /\ tick < MaxTicks
    BY <1>1, <2>1, <2>5, Zenon DEF Late
  <2> QED
    BY <2>1, <2>5, <2>6, StepKeeps, Zenon
<1>4. CASE Dispatch
  <2> DEFINE next == [sys EXCEPT !.sched = S!scheduler_next(@)]
             r == IF Runs(sys) THEN sys ELSE next
  <2>1. Moves("dispatch", r, "execute") /\ step = "dispatch"
    BY <1>4, Zenon DEF Dispatch, Moves
  <2>2. S!Settled(sys.sched, ArrivedIn(sys)) /\ ArrivedIn(sys) \in SUBSET Tids
    BY <1>1, Zenon DEF Fits, ArrivedIn
  <2>3. S!Settled(S!scheduler_next(sys.sched), ArrivedIn(sys))
    BY <2>2, Zenon DEF Promises, SchedulerPromise
  <2>4. Follows(sys, next)
    BY <1>1, <2>3, OnePartFits, Zenon
  <2> HIDE DEF next
  <2>5. Follows(sys, sys)
    BY <1>1, Zenon DEF Follows, Marks
  <2>6. Reaches(r) /\ r.buffer = sys.buffer
    BY <1>1, <2>4, <2>5, FollowsReaches, Zenon
  <2> HIDE DEF r
  <2>7. B!Settled(r.buffer) /\ tick < MaxTicks
    BY <1>1, <2>1, <2>6, Zenon DEF Late
  <2> QED
    BY <2>1, <2>6, <2>7, StepKeeps, Zenon
<1> QED
  BY <1>2, <1>3, <1>4, Zenon

\* What a command has left behind ends the burst.
LEMMA ExecutedKeeps ==
    ASSUME Promises, KInv, NEW t \in Tids, NEW r, Reaches(r), Executed(r, t)
    PROVE  KInv' /\ Final(sys, sys')
<1>1. Moves("execute", EndOfBurst(r, t), "detect") /\ step = "execute"
  BY Zenon DEF Executed, Moves
<1>2. Reaches(EndOfBurst(r, t))
  BY CommandKeeps, Zenon
<1>3. tick < MaxTicks
  BY <1>1, Zenon DEF KInv
<1> QED
  BY <1>1, <1>2, <1>3, StepKeeps, Zenon DEF Late

\* Step 5.
LEMMA ComputeKeeps ==
    ASSUME Promises, KInv, NEW t \in Tids, Compute(t) \/ AcquireNothing(t)
    PROVE  KInv' /\ Final(sys, sys')
<1>1. Executed(thread_execute(sys, t), t)
  BY Zenon DEF Compute, AcquireNothing
<1>2. Quietly(sys, thread_execute(sys, t)) /\ Fits(sys)
  BY ExecuteKeeps, Zenon DEF KInv
<1>3. Reaches(thread_execute(sys, t))
  BY <1>2, FollowsReaches, Zenon DEF Quietly, Keeps
<1> QED
  BY <1>1, <1>3, ExecutedKeeps, Zenon

LEMMA BufferStepKeeps ==
    ASSUME Promises, KInv, NEW t \in Tids, Produce(t) \/ Consume(t)
    PROVE  KInv' /\ Final(sys, sys')
<1>1. Runs(sys) /\ t = Current(sys) /\ Owner(t) \in Pids
  BY OwnerType, Zenon DEF Produce, Consume, Executing
<1>2. step = "execute"
  BY Zenon DEF Produce, Consume, BufferCall, Executed, Moves
<1>3. B!Sound(sys.buffer) /\ B!Settled(sys.buffer) /\ tick \in 0..MaxTicks /\ tick < MaxTicks
  BY <1>2, Zenon DEF KInv, Fits, Late
<1>4. Item(Owner(t)) \in Items
  <2>1. Owner(t) \in 0..(NumProcs - 1) /\ NumProcs \in Nat /\ MaxTicks \in Nat
    BY <1>1, Numbers, KernelAssumption, Zenon DEF Pids
  <2> QED
    BY <1>3, <2>1 DEF Item, Items
<1>5. ASSUME NEW result, B!Sound(result.buffer), result.wake \in Seq(Pids), BufferCall(t, result)
      PROVE  KInv' /\ Final(sys, sys')
  <2> DEFINE called == [sys EXCEPT !.buffer = result.buffer]
             done == WakeReported(thread_execute(called, t), result.wake)
             blocked == block_thread(called, t, "MUTEX_WAIT")
             r == IF result.ok THEN done ELSE blocked
  <2>1. Executed(r, t)
    BY <1>5, Zenon DEF BufferCall
  <2>2. Reaches(done) /\ Reaches(blocked)
    BY <1>1, <1>5, BufferCallKeeps, Zenon
  <2> HIDE DEF done, blocked
  <2>3. Reaches(r)
    BY <2>2, Zenon
  <2> HIDE DEF r
  <2> QED
    BY <2>1, <2>3, ExecutedKeeps, Zenon
<1>6. CASE Produce(t)
  <2> DEFINE result == B!buffer_produce(sys.buffer, Item(Owner(t)), Owner(t))
  <2>1. B!Sound(result.buffer) /\ result.wake \in Seq(Pids)
    BY <1>1, <1>3, <1>4, Zenon DEF Promises, BufferPromise
  <2>2. BufferCall(t, result)
    BY <1>6, Zenon DEF Produce
  <2> HIDE DEF result
  <2> QED
    BY <1>5, <2>1, <2>2, Zenon
<1>7. CASE Consume(t)
  <2> DEFINE result == B!buffer_consume(sys.buffer, Owner(t))
  <2>1. B!Sound(result.buffer) /\ result.wake \in Seq(Pids)
    BY <1>1, <1>3, Zenon DEF Promises, BufferPromise
  <2>2. BufferCall(t, result)
    BY <1>7, Zenon DEF Consume
  <2> HIDE DEF result
  <2> QED
    BY <1>5, <2>1, <2>2, Zenon
<1> QED
  BY <1>6, <1>7, Zenon

LEMMA AcquireStepKeeps ==
    ASSUME Promises, KInv, NEW t \in Tids, Acquire(t)
    PROVE  KInv' /\ Final(sys, sys')
<1> DEFINE p == Owner(t)
           w == Wants[p][sys.phase[p]]
           result == G!Result(sys.graph, p, w)
           v == IF result = "granted" THEN 1 ELSE sys.phase[p]
           answered == [sys EXCEPT !.graph = G!deadlock_request(@, p, w), !.phase[p] = v]
           blocked == block_thread(answered, t, "RESOURCE_WAIT")
           on == Advance(answered, t)
           r == IF result = "refused" THEN blocked ELSE on
<1>1. Runs(sys) /\ t = Current(sys)
  BY Zenon DEF Acquire, Executing
<1>2. Executed(r, t)
  BY Zenon DEF Acquire
<1>3. sys.phase[p] \in 0..1
  BY OwnerType, Zenon DEF KInv, Fits, ProcessTables
<1> HIDE DEF result
<1>4. v \in 0..1
  BY <1>3
<1> HIDE DEF v
<1>5. Reaches(blocked) /\ Reaches(on)
  BY <1>1, <1>4, AcquireKeeps, Zenon
<1> HIDE DEF blocked, on
<1>6. Reaches(r)
  BY <1>5, Zenon
<1> HIDE DEF r
<1> QED
  BY <1>2, <1>6, ExecutedKeeps, Zenon

LEMMA IOWriteStepKeeps ==
    ASSUME Promises, KInv, NEW t \in Tids, IOWrite(t)
    PROVE  KInv' /\ Final(sys, sys')
<1> DEFINE p == Owner(t)
           path == F!Path(p, sys.io_seq)
           opened == [sys EXCEPT !.io_seq = @ + 1, !.fs = F!fs_create(@, path)]
           blocked == block_thread(Advance(opened, t), t, "IO_BLOCK")
           event == [NoEvent EXCEPT !.pid = p, !.completion_tick = tick + IODuration,
                                    !.reason = "IO_BLOCK", !.path = path, !.active = TRUE]
           r == AddEvent(blocked, SlotForIO(blocked), event)
<1>1. Runs(sys) /\ t = Current(sys) /\ p \in Pids
  BY OwnerType, Zenon DEF IOWrite, Executing
<1>2. Executed(r, t)
  BY Zenon DEF IOWrite
<1>3. sys.io_seq \in Nat /\ tick \in Nat /\ IODuration \in Nat
  <2>1. sys.io_seq \in Nat /\ tick \in 0..MaxTicks
    BY Zenon DEF KInv, Fits, EventTables
  <2>2. MaxTicks \in Nat /\ IODuration \in Nat
    BY KernelAssumption, Zenon
  <2> QED
    BY <2>1, <2>2
<1>4. 0 \in M!Pages
  <2>1. MaxPages \in Nat \ {0}
    BY KernelAssumption, Zenon
  <2> QED
    BY <2>1 DEF M!Pages
<1>5. event \in EventRecords /\ event.path # F!Unused
  BY <1>1, <1>3, <1>4, NewEvent, Zenon
<1> HIDE DEF event
<1>6. Reaches(r)
  BY <1>1, <1>5, IOWriteKeeps, Zenon
<1> HIDE DEF r
<1> QED
  BY <1>2, <1>6, ExecutedKeeps, Zenon

LEMMA ExecuteStepKeeps ==
    ASSUME Promises, KInv, Execute
    PROVE  KInv' /\ Final(sys, sys')
<1>1. CASE NobodyRuns
  <2>1. Moves("execute", sys, "detect") /\ step = "execute"
    BY <1>1, Zenon DEF NobodyRuns, Moves
  <2>2. Reaches(sys) /\ tick < MaxTicks
    BY <2>1, Zenon DEF KInv, Reaches, Final
  <2> QED
    BY <2>1, <2>2, StepKeeps, Zenon DEF Late
<1>2. CASE \E t \in Tids : \/ Compute(t) \/ Produce(t) \/ Consume(t)
                           \/ AcquireNothing(t) \/ Acquire(t) \/ IOWrite(t)
  BY <1>2, ComputeKeeps, BufferStepKeeps, AcquireStepKeeps, IOWriteStepKeeps, Zenon
<1> QED
  BY <1>1, <1>2, Zenon DEF Execute

\* Steps 5.5 and 5.6.
LEMMA DetectKeeps ==
    ASSUME Promises, KInv, NEW p \in Pids, Detect(p)
    PROVE  KInv' /\ Final(sys, sys')
<1> DEFINE r == cleanup_process(ReleaseResources(sys, p), p)
<1>1. Moves("detect", r, "crash") /\ step = "detect"
  BY Zenon DEF Detect, Moves
<1>2. Fits(sys) /\ tick \in 0..MaxTicks /\ tick < MaxTicks
  BY <1>1, Zenon DEF KInv
<1>3. Fits(r) /\ Final(sys, r)
  BY <1>2, ResolveKeeps, Zenon
<1> HIDE DEF r
<1> QED
  BY <1>1, <1>2, <1>3, StepKeeps, Zenon DEF Late, Reaches

LEMMA CrashStepKeeps ==
    ASSUME Promises, KInv, Crash
    PROVE  KInv' /\ Final(sys, sys')
<1> DEFINE p == Owner(Current(sys))
           r == cleanup_and_release(sys, p)
<1>1. Moves("crash", r, "page_fault") /\ step = "crash" /\ Runs(sys)
  BY Zenon DEF Crash, CrashNow, Moves
<1>2. Fits(sys) /\ tick \in 0..MaxTicks /\ tick < MaxTicks
  BY <1>1, Zenon DEF KInv
<1>3. p \in Pids
  BY <1>1, <1>2, RunningThread, Zenon
<1> HIDE DEF p
<1>4. Fits(r) /\ Final(sys, r)
  BY <1>2, <1>3, CrashKeeps, Zenon
<1> HIDE DEF r
<1> QED
  BY <1>1, <1>2, <1>4, StepKeeps, Zenon DEF Late, Reaches

LEMMA FaultStepsKeep ==
    ASSUME Promises, KInv, Faults
    PROVE  KInv' /\ Final(sys, sys')
<1>1. CASE NoDeadlock \/ NoCrash
  <2>1. PICK from \in {"detect", "crash"}, to \in {"crash", "page_fault"} : Moves(from, sys, to)
    BY <1>1, Zenon DEF NoDeadlock, NoCrash
  <2>2. step \in {"detect", "crash"}
    BY <2>1, Zenon DEF Moves
  <2>3. Reaches(sys) /\ tick < MaxTicks
    BY <2>2, Zenon DEF KInv, Reaches, Final
  <2> QED
    BY <2>1, <2>3, StepKeeps, Zenon DEF Late
<1> QED
  BY <1>1, DetectKeeps, CrashStepKeeps, Zenon DEF Faults

\* Step 6.
LEMMA PagingKeeps ==
    ASSUME Promises, KInv, Paging
    PROVE  KInv' /\ Final(sys, sys')
<1>1. ASSUME NEW r, Reaches(r), Moves("page_fault", r, "tick")
      PROVE  KInv' /\ Final(sys, sys')
  <2>1. step = "page_fault"
    BY <1>1, Zenon DEF Moves
  <2>2. tick < MaxTicks
    BY <2>1, Zenon DEF KInv
  <2> QED
    BY <1>1, <2>2, StepKeeps, Zenon DEF Late
<1>2. CASE TouchPage
  <2> DEFINE r == [sys EXCEPT !.mem = M!Touch(@, Owner(Current(sys)), Page, tick)]
  <2>1. Moves("page_fault", r, "tick") /\ Accesses /\ ~ Missing
    BY <1>2, Zenon DEF TouchPage
  <2>2. Reaches(r)
    BY <2>1, TouchKeeps, Zenon
  <2> HIDE DEF r
  <2> QED
    BY <1>1, <2>1, <2>2, Zenon
<1>3. CASE PageFault
  <2> DEFINE t == Current(sys)
             blocked == block_thread(sys, t, "PAGE_FAULT")
             event == [NoEvent EXCEPT !.pid = Owner(t), !.completion_tick = tick + PageFaultDuration,
                                      !.reason = "PAGE_FAULT", !.page = Page, !.active = TRUE]
             r == AddEvent(blocked, SlotForFault(blocked), event)
  <2>1. Moves("page_fault", r, "tick") /\ Accesses
    BY <1>3, Zenon DEF PageFault
  <2>2. /\ Page \in M!Pages /\ Owner(t) \in Pids /\ t \in Tids
        /\ sys.sched.state[t] = "RUNNING" /\ t = sys.sched.current /\ tick \in 0..MaxTicks
    BY <2>1, PageType, Zenon
  <2>3. MaxTicks \in Nat /\ PageFaultDuration \in Nat
    BY KernelAssumption, Zenon
  <2>4. tick \in Nat
    BY <2>2, <2>3
  <2>5. event \in EventRecords /\ event.reason # "IO_BLOCK"
    BY <2>2, <2>3, <2>4, NewEvent, Zenon
  <2> HIDE DEF event, t
  <2>6. Reaches(r)
    BY <2>2, <2>5, FaultKeeps, Zenon
  <2> HIDE DEF r
  <2> QED
    BY <1>1, <2>1, <2>6, Zenon
<1>4. CASE NoAccess
  <2>1. Moves("page_fault", sys, "tick")
    BY <1>4, Zenon DEF NoAccess
  <2>2. Reaches(sys)
    BY Zenon DEF KInv, Reaches, Final
  <2> QED
    BY <1>1, <2>1, <2>2, Zenon
<1> QED
  BY <1>2, <1>3, <1>4, Zenon DEF Paging

\* Steps 7 to 10, and the end.
LEMMA LastStepsKeep ==
    ASSUME Promises, KInv, SchedulerTick \/ CountWaiting \/ Snapshot \/ WakeBufferWaiters \/ Shutdown
    PROVE  KInv' /\ Final(sys, sys')
<1>1. Fits(sys)
  BY Zenon DEF KInv
<1>2. ASSUME NEW from, NEW to \in Late, NEW r, Reaches(r), Moves(from, r, to),
             from \in Late
      PROVE  KInv' /\ Final(sys, sys')
  <2>1. step = from
    BY <1>2, Zenon DEF Moves
  <2>2. tick < MaxTicks
    BY <1>2, <2>1, Zenon DEF KInv, Late
  <2> QED
    BY <1>2, <2>2, StepKeeps, Zenon
<1>3. CASE SchedulerTick
  <2> DEFINE r == [sys EXCEPT !.sched = S!scheduler_tick(@)]
  <2>1. Moves("tick", r, "count")
    BY <1>3, Zenon DEF SchedulerTick
  <2>2. S!Settled(sys.sched, ArrivedIn(sys)) /\ ArrivedIn(sys) \in SUBSET Tids
    BY <1>1, Zenon DEF Fits, ArrivedIn
  <2>3. S!Settled(S!scheduler_tick(sys.sched), ArrivedIn(sys))
    BY <2>2, Zenon DEF Promises, SchedulerPromise
  <2>4. Follows(sys, r)
    BY <1>1, <2>3, OnePartFits, Zenon
  <2> HIDE DEF r
  <2>5. Reaches(r)
    BY <1>1, <2>4, FollowsReaches, Zenon
  <2> QED
    BY <1>2, <2>1, <2>5, Zenon DEF Late
<1>4. CASE CountWaiting
  <2> DEFINE r == [sys EXCEPT !.wait_time = [p \in Pids |-> IF p \in Waiting THEN @[p] + 1
                                                            ELSE @[p]]]
  <2>1. Moves("count", r, "snapshot")
    BY <1>4, Zenon DEF CountWaiting
  <2>2. Waiting \in SUBSET Pids
    BY Zenon DEF Waiting
  <2>3. Follows(sys, r)
    BY <1>1, <2>2, CountKeeps, Zenon
  <2> HIDE DEF r
  <2>4. Reaches(r)
    BY <1>1, <2>3, FollowsReaches, Zenon
  <2> QED
    BY <1>2, <2>1, <2>4, Zenon DEF Late
<1>5. CASE Snapshot
  <2> DEFINE shown == ForEach(NumProcs, sys, sync_pcb_state)
             r == IF tick % SnapshotInterval = 0 THEN shown ELSE sys
  <2>1. Moves("snapshot", r, "wake")
    BY <1>5, Zenon DEF Snapshot
  <2>2. Quietly(sys, shown)
    BY <1>1, SnapshotKeeps, Zenon
  <2> HIDE DEF shown
  <2>3. Reaches(r)
    BY <1>1, <2>2, Zenon DEF Quietly, Keeps, Follows, Marks, Reaches, Final
  <2> HIDE DEF r
  <2> QED
    BY <1>2, <2>1, <2>3, Zenon DEF Late
<1>6. CASE WakeBufferWaiters
  <2> DEFINE woken == B!wake_buffer_waiters(sys.buffer)
             told == [sys EXCEPT !.buffer = woken.buffer]
             r == WakeReported(told, woken.wake)
  <2>1. Moves("wake", r, "check") /\ step = "wake"
    BY <1>6, Zenon DEF WakeBufferWaiters, Moves
  <2>2. B!Sound(woken.buffer) /\ B!Settled(woken.buffer) /\ woken.wake \in Seq(Pids)
    BY <1>1, Zenon DEF Fits, Promises, BufferPromise
  <2> HIDE DEF woken
  <2>3. Fits(told) /\ Marks(sys, told) /\ told.buffer = woken.buffer
    BY <1>1, <2>2, OnePartFits
  <2> HIDE DEF told
  <2>4. Quietly(told, r)
    BY <2>2, <2>3, WakeReportedKeeps, Zenon
  <2> HIDE DEF r
  <2>5. Reaches(r) /\ r.buffer = woken.buffer
    BY <2>3, <2>4, Zenon DEF Quietly, Keeps, Follows, Marks, Reaches, Final
  <2>6. tick < MaxTicks
    BY <2>1, Zenon DEF KInv
  <2> QED
    BY <2>1, <2>2, <2>5, <2>6, StepKeeps, Zenon
<1>7. CASE Shutdown
  <2> DEFINE m == ForEach(NumProcs, sys.mem, M!mem_free_process)
             r == [sys EXCEPT !.mem = m]
  <2>1. Moves("stopped", r, "off") /\ step = "stopped"
    BY <1>7, Zenon DEF Shutdown, Moves
  <2>2. M!Sound(m)
    BY <1>1, FreedMemoryIsSound, Zenon DEF Fits
  <2> HIDE DEF m
  <2>3. Follows(sys, r)
    BY <1>1, <2>2, OnePartFits, Zenon
  <2> HIDE DEF r
  <2>4. Reaches(r) /\ r.buffer = sys.buffer
    BY <1>1, <2>3, FollowsReaches, Zenon
  <2>5. B!Settled(r.buffer)
    BY <2>1, <2>4, Zenon DEF KInv, Late
  <2> QED
    BY <2>1, <2>4, <2>5, StepKeeps, Zenon
<1> QED
  BY <1>3, <1>4, <1>5, <1>6, <1>7, Zenon

LEMMA NextKeeps ==
    ASSUME Promises, KInv, [Next]_vars
    PROVE  KInv' /\ Final(sys, sys')
<1>1. CASE UNCHANGED vars
  <2>1. sys' = sys /\ tick' = tick /\ step' = step
    BY <1>1, Zenon DEF vars
  <2> QED
    BY <2>1, Zenon DEF KInv, Final
<1>2. CASE Next
  BY <1>2, BeginningKeeps, NextTurnKeeps, FirstStepsKeep, ExecuteStepKeeps, FaultStepsKeep,
     PagingKeeps, LastStepsKeep, Zenon DEF Next
<1> QED
  BY <1>1, <1>2, Zenon
-----------------------------------------------------------------------------
(* The prompt *)

PInv ==
    /\ console \in [paused : BOOLEAN, target : Nat] /\ asked \in Int
    /\ console.paused => console.target = 0
    /\ PromptIsObeyed

LEMMA LineTypes ==
    ASSUME NEW line \in Lines
    PROVE  /\ line = [cmd |-> line.cmd, n |-> line.n]
           /\ line.n \in Nat /\ (line.n > 0 => line.cmd = "run_n")
BY KernelAssumption, Zenon

\* A step inside a tick, and the end of the loop, leave the prompt alone.
LEMMA MovesObey ==
    ASSUME PInv, tick \in Nat, NEW from, NEW to, NEW r, Moves(from, r, to),
           to \in {"stopped", "off"} \/ (from \notin {"start", "stopped", "off"} /\ to # "start")
             \/ ~ config.interactive
    PROVE  PInv'
<1>1. /\ step = from /\ step' = to /\ tick' = tick /\ config' = config
      /\ console' = console /\ asked' = asked
  BY Zenon DEF Moves
<1> QED
  BY <1>1, Zenon DEF PInv, PromptIsObeyed, Begun

LEMMA TypeObeys ==
    ASSUME PInv, tick \in Nat, NEW line \in Lines, Type(line)
    PROVE  PInv'
<1>1. /\ step = "start" /\ (console.paused \/ console.target <= 0)
      /\ config.interactive /\ step' = step /\ tick' = tick /\ config' = config
      /\ console' = C!obey(console, line) /\ asked' = asked + C!Ticks(line)
  BY Zenon DEF Type, AtPrompt, C!Waits
<1>2. console.target = 0 /\ asked \in Int /\ tick = asked
  BY <1>1 DEF PInv, PromptIsObeyed, Begun
<1> DEFINE n == C!Ticks(line)
           c == C!obey(console, line)
<1>3. line = [cmd |-> line.cmd, n |-> line.n]
  BY LineTypes, Zenon
<1>7. line.n \in Nat /\ (line.cmd # "run_n" => line.n = 0)
  BY LineTypes
<1>4. n \in Nat /\ (line.cmd # "step" => n = line.n) /\ (line.cmd = "step" => n = 1)
  <2>1. CASE line.cmd = "step"
    <3>1. line.n = 0
      BY <1>7, <2>1, Zenon
    <3>2. line = C!Step
      BY <1>3, <2>1, <3>1, Zenon DEF C!Step, C!Line
    <3> QED
      BY <2>1, <3>2, Zenon DEF C!Ticks
  <2>2. CASE line.cmd # "step"
    <3>1. line # C!Step
      BY <2>2 DEF C!Step, C!Line
    <3> QED
      BY <1>7, <2>2, <3>1, Zenon DEF C!Ticks
  <2> QED
    BY <2>1, <2>2, Zenon
<1>5. /\ c \in [paused : BOOLEAN, target : Nat] /\ c.target = n
      /\ c.paused => n = 0
  <2>1. console \in [paused : BOOLEAN, target : Nat]
    BY Zenon DEF PInv
  <2>2. C!Pausing(console) = [console EXCEPT !.paused = TRUE]
    BY <1>2 DEF C!Pausing
  <2>3. \/ line.cmd = "step" /\ c = [paused |-> FALSE, target |-> 1]
        \/ line.cmd = "run_n" /\ line.n > 0 /\ c = [paused |-> FALSE, target |-> line.n]
        \/ line.cmd = "run" /\ c = [paused |-> FALSE, target |-> 0]
        \/ line.cmd = "pause" /\ c = [paused |-> TRUE, target |-> 0]
        \/ line.cmd # "step" /\ line.n = 0 /\ c = [console EXCEPT !.paused = TRUE]
    <3>1. CASE line.cmd = "step"
      BY <3>1, Zenon DEF C!obey
    <3>2. CASE line.cmd = "run_n" /\ line.n > 0
      BY <3>2, Zenon DEF C!obey
    <3>3. CASE line.cmd = "run"
      BY <3>3, Zenon DEF C!obey
    <3>4. CASE line.cmd = "pause"
      BY <3>4, Zenon DEF C!obey
    <3>5. CASE line.cmd \notin {"step", "run", "pause"} /\ ~ (line.cmd = "run_n" /\ line.n > 0)
      <4>1. line.n = 0
        BY <1>7, <3>5
      <4>2. c = C!Pausing(console)
        BY <3>5, Zenon DEF C!obey
      <4> QED
        BY <2>2, <3>5, <4>1, <4>2, Zenon
    <3> QED
      BY <3>1, <3>2, <3>3, <3>4, <3>5, Zenon
  <2> HIDE DEF c, n
  <2>4. CASE line.cmd # "step" /\ line.n = 0 /\ c = [console EXCEPT !.paused = TRUE]
    BY <1>2, <1>4, <2>1, <2>4, Zenon
  <2>5. CASE line.cmd = "run_n" /\ line.n > 0 /\ c = [paused |-> FALSE, target |-> line.n]
    BY <1>4, <1>7, <2>5, Zenon
  <2>6. CASE line.cmd = "step" /\ c = [paused |-> FALSE, target |-> 1]
    BY <1>4, <2>6, Zenon
  <2>7. CASE line.cmd = "run" /\ c = [paused |-> FALSE, target |-> 0]
    BY <1>4, <1>7, <2>7, Zenon
  <2>8. CASE line.cmd = "pause" /\ c = [paused |-> TRUE, target |-> 0]
    BY <1>4, <1>7, <2>8, Zenon
  <2> QED
    BY <2>3, <2>4, <2>5, <2>6, <2>7, <2>8, Zenon
<1> HIDE DEF c, n
<1>6. console' = c /\ asked' = asked + n
  BY <1>1, Zenon DEF c, n
<1> QED
  BY <1>1, <1>2, <1>5, <1>6 DEF PInv, PromptIsObeyed, Begun

LEMMA PlayObeys ==
    ASSUME PInv, tick \in Nat, Play
    PROVE  PInv'
<1>1. /\ step = "start" /\ ~ console.paused /\ console.target > 0
      /\ step' = "arrivals" /\ tick' = tick /\ config' = config /\ asked' = asked
      /\ console' = [console EXCEPT !.target = @ - 1] /\ config.interactive
  BY DEF Play, C!Waits, C!play, PInv
<1>2. /\ console \in [paused : BOOLEAN, target : Nat] /\ asked \in Int
      /\ tick + console.target = asked
  BY <1>1, Zenon DEF PInv, PromptIsObeyed, Begun
<1>3. /\ console' \in [paused : BOOLEAN, target : Nat] /\ ~ console'.paused
      /\ console'.target = console.target - 1
  BY <1>1, <1>2
<1> QED
  BY <1>1, <1>2, <1>3 DEF PInv, PromptIsObeyed, Begun

LEMMA PInvKeeps == tick \in Nat /\ PInv /\ [Next]_vars => PInv'
<1> SUFFICES ASSUME tick \in Nat, PInv, [Next]_vars
             PROVE  PInv'
  BY Zenon
<1>1. CASE UNCHANGED vars
  BY <1>1, Zenon DEF vars, PInv, PromptIsObeyed, Begun
<1>2. CASE Complete
  BY <1>2, MovesObey, Zenon DEF Complete
<1>3. CASE Start
  BY <1>3, MovesObey, Zenon DEF Start
<1>4. CASE Prompting
  <2>1. CASE Quit
    BY <2>1, MovesObey, Zenon DEF Quit
  <2> QED
    BY <1>4, <2>1, TypeObeys, PlayObeys, Zenon DEF Prompting
<1>5. CASE Arrivals \/ CompleteEvents \/ Dispatch \/ NobodyRuns \/ Faults \/ Paging \/ SchedulerTick
           \/ CountWaiting \/ Snapshot \/ WakeBufferWaiters \/ AllTerminated \/ Shutdown
  BY <1>5, MovesObey, Zenon DEF Arrivals, CompleteEvents, Dispatch, NobodyRuns, Faults, Detect, NoDeadlock,
     Crash, NoCrash, Paging, TouchPage, PageFault, NoAccess, SchedulerTick, CountWaiting,
     Snapshot, WakeBufferWaiters, AllTerminated, Shutdown
<1>6. ASSUME NEW t \in Tids,
             Compute(t) \/ Produce(t) \/ Consume(t) \/ AcquireNothing(t) \/ Acquire(t) \/ IOWrite(t)
      PROVE  PInv'
  BY <1>6, MovesObey, Zenon DEF Compute, Produce, Consume, BufferCall, AcquireNothing, Acquire, IOWrite,
     Executed
<1>7. CASE NextTurn
  <2>1. /\ step = "check" /\ step' = "start" /\ tick' = tick + 1
        /\ config' = config /\ console' = console /\ asked' = asked
    BY <1>7, Zenon DEF NextTurn
  <2> QED
    BY <2>1, Zenon DEF PInv, PromptIsObeyed, Begun
<1> QED
  BY <1>1, <1>2, <1>3, <1>4, <1>5, <1>6, <1>7, Zenon DEF Next, Execute

-----------------------------------------------------------------------------
(* The components keep their promises: the kernel names their operators S!,   *)
(* B!, G! and M!, their theorems are about SP!, BP!, GP! and MP!.              *)

SP == INSTANCE SchedulerProofs WITH
        Threads <- Tids, NoThread <- None,
        Priority <- [t \in Tids |-> Importance[Owner(t)]],
        sched <- sys.sched, arrived <- Arrived, phase <- step

BP == INSTANCE BoundedBufferProofs WITH
        NoPid <- None, Items <- Items, Size <- RingBufferSize,
        buffer <- sys.buffer, refused <- {Owner(t) : t \in BlockedFor(sys, "MUTEX_WAIT")},
        turn <- IF step \in Late THEN "wake" ELSE "call"
GP == INSTANCE ResourceGraphProofs WITH
        NumResources <- 3,
        graph <- sys.graph, phase <- sys.phase,
        thread <- [p \in Pids |->
                     IF MainThread(p) \in BlockedFor(sys, "RESOURCE_WAIT") THEN "BLOCKED"
                     ELSE IF sys.sched.state[MainThread(p)] = "DONE" THEN "DONE" ELSE "READY"]
MP == INSTANCE MemoryProofs WITH
        NoPid <- None, MaxTick <- MaxTicks, mem <- sys.mem,
        faults <- {<<sys.pending[i].pid, sys.pending[i].page>> :
                      i \in ActiveEvents(sys, "PAGE_FAULT")}

LEMMA SchedulerFits == SP!SchedulerAssumption
<1>1. [t \in Tids |-> Importance[Owner(t)]] \in [Tids -> SP!Priorities]
  BY OwnerType, KernelAssumption, Zenon DEF SP!Priorities
<1>2. ASSUME NEW T
      PROVE  SP!IsFiniteSet(T) = IsFiniteSet(T)
  BY Zenon DEF SP!IsFiniteSet, IsFiniteSet
<1>3. ASSUME NEW T
      PROVE  SP!Cardinality(T) = Cardinality(T)
  BY Zenon DEF SP!Cardinality, Cardinality
<1>4. /\ RRQuantum \in Nat \ {0} /\ MLFQQuantum \in [SP!Levels -> Nat \ {0}]
      /\ BoostInterval \in Nat \ {0} /\ MaxReadyQueue \in Nat
      /\ SP!IsFiniteSet(Tids) /\ SP!Cardinality(Tids) <= MaxReadyQueue
  BY <1>2, <1>3, Numbers, KernelAssumption, Zenon DEF SP!Levels
<1> QED
  BY <1>1, <1>4, Numbers, Zenon DEF SP!SchedulerAssumption

LEMMA SameQueues ==
    /\ \A q, t : S!Contains(q, t) = SP!Contains(q, t)
    /\ \A q, t : S!queue_push(q, t) = SP!queue_push(q, t)
    /\ \A q, t : S!LevelOf(q, t) = SP!LevelOf(q, t)
BY Zenon DEF S!queue_push, SP!queue_push, S!LevelOf, SP!LevelOf, S!get_mlfq_level,
             SP!get_mlfq_level, S!Contains, SP!Contains

LEMMA SameAdd == \A q, t : S!scheduler_add(q, t) = SP!scheduler_add(q, t)
<1>1. ASSUME NEW q, NEW t
      PROVE  S!scheduler_add(q, t) = SP!scheduler_add(q, t)
  BY Zenon DEF S!scheduler_add, SP!scheduler_add, S!queue_push, SP!queue_push, S!LevelOf,
               SP!LevelOf, S!get_mlfq_level, SP!get_mlfq_level, S!Contains, SP!Contains
<1> QED
  BY <1>1, Zenon

LEMMA SameNext == \A q : S!scheduler_next(q) = SP!scheduler_next(q)
<1>1. ASSUME NEW q
      PROVE  S!HasReady(q) <=> SP!HasReady(q)
  BY Zenon DEF S!HasReady, SP!HasReady, S!Levels, SP!Levels
<1>2. ASSUME NEW q
      PROVE  S!Requeue(q) = SP!Requeue(q)
  BY SameQueues, Zenon DEF S!Requeue, SP!Requeue, S!thread_yield, SP!thread_yield
<1>3. ASSUME NEW q
      PROVE  S!Chosen(q) = SP!Chosen(q)
  BY Zenon DEF S!Chosen, SP!Chosen, S!Levels, SP!Levels
<1>4. ASSUME NEW q, NEW l
      PROVE  S!Take(q, l) = SP!Take(q, l)
  BY Zenon DEF S!Take, SP!Take, S!Quantum, SP!Quantum
<1>5. ASSUME NEW q
      PROVE  S!scheduler_next(q) = SP!scheduler_next(q)
  <2> DEFINE r == SP!Requeue(q)
  <2>1. S!scheduler_next(q) = IF SP!HasReady(q) THEN SP!Take(r, SP!Chosen(r)) ELSE q
    BY <1>1, <1>2, <1>3, <1>4, Zenon DEF S!scheduler_next
  <2>2. SP!scheduler_next(q) = IF SP!HasReady(q) THEN SP!Take(r, SP!Chosen(r)) ELSE q
    BY Zenon DEF SP!scheduler_next
  <2> QED
    BY <2>1, <2>2
<1> QED
  BY <1>5, Zenon

LEMMA SameRemove == \A q, t : S!RemoveFromQueues(q, t) = SP!RemoveFromQueues(q, t)
BY Zenon DEF S!RemoveFromQueues, SP!RemoveFromQueues, S!Levels, SP!Levels, S!Contains, SP!Contains,
             S!queue_remove_at, SP!queue_remove_at, S!find_in_queue, SP!find_in_queue,
             S!RemoveAt, SP!RemoveAt

LEMMA SameThread ==
    /\ \A q, t : S!thread_block(q, t) = SP!thread_block(q, t)
    /\ \A q, t : S!thread_unblock(q, t) = SP!thread_unblock(q, t)
BY Zenon DEF S!thread_block, SP!thread_block, S!thread_unblock, SP!thread_unblock

LEMMA SameCalls ==
    /\ \A q, t : S!scheduler_unblock(q, t) = SP!scheduler_unblock(q, t)
    /\ \A q, t : S!scheduler_block(q, t) = SP!scheduler_block(q, t)
    /\ \A q, t : S!scheduler_terminate(q, t) = SP!scheduler_terminate(q, t)
    /\ \A mode : S!scheduler_init(mode) = SP!scheduler_init(mode)
<1>1. \A q, t : S!scheduler_unblock(q, t) = SP!scheduler_unblock(q, t)
  BY SameAdd, Zenon DEF S!scheduler_unblock, SP!scheduler_unblock
<1>2. \A q, t : S!scheduler_block(q, t) = SP!scheduler_block(q, t)
  BY SameNext, SameRemove, Zenon DEF S!scheduler_block, SP!scheduler_block
<1>3. \A q, t : S!scheduler_terminate(q, t) = SP!scheduler_terminate(q, t)
  BY SameRemove, Zenon DEF S!scheduler_terminate, SP!scheduler_terminate
<1>4. \A mode : S!scheduler_init(mode) = SP!scheduler_init(mode)
  BY Zenon DEF S!scheduler_init, SP!scheduler_init, S!Levels, SP!Levels
<1> QED
  BY <1>1, <1>2, <1>3, <1>4, Zenon

LEMMA SameTick == \A q : S!scheduler_tick(q) = SP!scheduler_tick(q)
<1>1. \A q : S!Demote(q) = SP!Demote(q)
  BY Zenon DEF S!Demote, SP!Demote, S!thread_yield, SP!thread_yield, S!queue_push, SP!queue_push,
               S!Contains, SP!Contains
<1>2. \A q : S!Age(q) = SP!Age(q) /\ S!CountDown(q) = SP!CountDown(q)
  BY Zenon DEF S!Age, SP!Age, S!CountDown, SP!CountDown
<1>3. \A q : S!scheduler_priority_boost(q) = SP!scheduler_priority_boost(q)
  BY Zenon DEF S!scheduler_priority_boost, SP!scheduler_priority_boost, S!ToSet, SP!ToSet,
               S!Levels, SP!Levels
<1> QED
  BY <1>1, <1>2, <1>3, SameNext, Zenon DEF S!scheduler_tick, SP!scheduler_tick

LEMMA SameSettled == \A q, A : S!Settled(q, A) <=> SP!Settled(q, A)
<1>1. S!Levels = SP!Levels /\ S!ThreadStates = SP!ThreadStates
  BY Zenon DEF S!Levels, SP!Levels, S!ThreadStates, SP!ThreadStates
<1>2. S!Sched = SP!Sched
  BY <1>1, Zenon DEF S!Sched, SP!Sched
<1>3. \A Q, t : S!Holds(Q, t) <=> SP!Holds(Q, t)
  BY <1>1, SameQueues, Zenon DEF S!Holds, SP!Holds
<1>4. \A Q : S!Disjoint(Q) <=> SP!Disjoint(Q)
  BY <1>1, Zenon DEF S!Disjoint, SP!Disjoint
<1>5. \A q : S!QueuedAtLevel(q) <=> SP!QueuedAtLevel(q)
  BY <1>1, Zenon DEF S!QueuedAtLevel, SP!QueuedAtLevel
<1> DEFINE Threads(q, A, holds) ==
               \A t \in Tids : /\ q.state[t] = "RUNNING" => t = q.current
                               /\ t \in A /\ q.state[t] = "READY" => holds[t]
                               /\ holds[t] => t \in A /\ q.state[t] \in {"READY", "DONE"}
                               /\ t \notin A => q.state[t] = "READY"
           Rest(q, A, held) ==
               /\ q.current # None =>
                     /\ q.current \in A /\ ~ held /\ q.state[q.current] # "BLOCKED"
                     /\ q.mode = "MLFQ" => q.level[q.current] = q.current_queue
               /\ q.mode = "RR" => q.current_queue = 0
<1>6. ASSUME NEW q, NEW A
      PROVE  S!Settled(q, A) <=> SP!Settled(q, A)
  <2> DEFINE holds == [t \in Tids |-> S!Holds(q.queue, t)]
  <2>1. S!Settled(q, A) <=> /\ q \in S!Sched /\ S!Disjoint(q.queue) /\ S!QueuedAtLevel(q)
                            /\ Threads(q, A, holds) /\ Rest(q, A, S!Holds(q.queue, q.current))
    BY Zenon DEF S!Settled
  <2>2. SP!Settled(q, A) <=> /\ q \in SP!Sched /\ SP!Disjoint(q.queue) /\ SP!QueuedAtLevel(q)
                             /\ Threads(q, A, [t \in Tids |-> SP!Holds(q.queue, t)])
                             /\ Rest(q, A, SP!Holds(q.queue, q.current))
    BY Zenon DEF SP!Settled
  <2>3. [t \in Tids |-> SP!Holds(q.queue, t)] = holds
    BY <1>3, Zenon
  <2> HIDE DEF holds, Threads, Rest
  <2>4. /\ q \in S!Sched <=> q \in SP!Sched
        /\ S!Disjoint(q.queue) <=> SP!Disjoint(q.queue)
        /\ S!QueuedAtLevel(q) <=> SP!QueuedAtLevel(q)
        /\ S!Holds(q.queue, q.current) = SP!Holds(q.queue, q.current)
    BY <1>2, <1>3, <1>4, <1>5, Zenon
  <2> QED
    BY <2>1, <2>2, <2>3, <2>4, Zenon
<1> QED
  BY <1>6, Zenon

LEMMA SchedulerCalls ==
    ASSUME NEW q, NEW A \in SUBSET Tids, SP!Settled(q, A)
    PROVE  /\ SP!Settled(S!scheduler_next(q), A)
           /\ SP!Settled(S!scheduler_tick(q), A)
           /\ \A t \in Tids : q.state[t] = "BLOCKED" =>
                 SP!Settled(S!scheduler_unblock(S!thread_unblock(q, t), t), A)
           /\ \A t \in Tids : t = q.current /\ q.state[t] = "RUNNING" =>
                 SP!Settled(S!scheduler_block(S!thread_block(q, t), t), A)
           /\ \A t \in Tids : t = q.current => SP!Settled(S!scheduler_terminate(q, t), A)
           /\ \A t \in Tids \ A : SP!Settled(S!scheduler_add(q, t), A \cup {t})
           /\ \A D \in SUBSET Tids :
                 SP!Settled([q EXCEPT !.state = [t \in Tids |-> IF t \in D THEN "DONE" ELSE @[t]]],
                            A \cup D)
<1>1. SP!Settled(SP!scheduler_next(q), A)
  BY SchedulerFits, SP!NextSettles, Zenon
<1>2. SP!Settled(SP!scheduler_tick(q), A)
  BY SchedulerFits, SP!TickSettles, Zenon
<1>3. ASSUME NEW t \in Tids, q.state[t] = "BLOCKED"
      PROVE  SP!Settled(S!scheduler_unblock(S!thread_unblock(q, t), t), A)
  <2>1. SP!Settled(SP!scheduler_unblock(SP!thread_unblock(q, t), t), A)
    BY <1>3, SchedulerFits, SP!UnblockSettles, Zenon
  <2> QED
    BY <2>1, SameCalls, SameThread, Zenon
<1>4. ASSUME NEW t \in Tids, t = q.current, q.state[t] = "RUNNING"
      PROVE  SP!Settled(S!scheduler_block(S!thread_block(q, t), t), A)
  <2>1. SP!Settled(SP!scheduler_block(SP!thread_block(q, t), t), A)
    BY <1>4, SchedulerFits, SP!BlockSettles, Zenon
  <2> QED
    BY <2>1, SameCalls, SameThread, Zenon
<1>5. ASSUME NEW t \in Tids, t = q.current
      PROVE  SP!Settled(S!scheduler_terminate(q, t), A)
  <2>1. SP!Settled(SP!scheduler_terminate(q, t), A)
    BY <1>5, SchedulerFits, SP!TerminateSettles, Zenon
  <2> QED
    BY <2>1, SameCalls, Zenon
<1>6. ASSUME NEW t \in Tids \ A
      PROVE  SP!Settled(S!scheduler_add(q, t), A \cup {t})
  <2>1. SP!Settled(SP!scheduler_add(q, t), A \cup {t})
    BY <1>6, SchedulerFits, SP!ArriveSettles, Zenon
  <2> QED
    BY <2>1, SameAdd, Zenon
<1>7. ASSUME NEW D \in SUBSET Tids
      PROVE  SP!Settled([q EXCEPT !.state = [t \in Tids |-> IF t \in D THEN "DONE" ELSE @[t]]],
                        A \cup D)
  BY SchedulerFits, SP!BurySettles, Zenon
<1> QED
  BY <1>1, <1>2, <1>3, <1>4, <1>5, <1>6, <1>7, SameNext, SameTick, Zenon

LEMMA BufferFits == BP!BufferAssumption
<1>1. ASSUME NEW T
      PROVE  BP!IsFiniteSet(T) = IsFiniteSet(T)
  BY Zenon DEF BP!IsFiniteSet, IsFiniteSet
<1>2. ASSUME NEW T
      PROVE  BP!Cardinality(T) = Cardinality(T)
  BY Zenon DEF BP!Cardinality, Cardinality
<1>3. /\ BP!IsFiniteSet(Pids) /\ BP!Cardinality(Pids) = NumProcs
      /\ NumProcs \in Nat \ {0} /\ NumProcs <= MaxProcs /\ None \notin Pids
  BY <1>1, <1>2, Numbers, Zenon
<1>4. /\ RingBufferSize \in Nat \ {0} /\ MaxProcs \in Nat /\ MaxThreads \in Nat
      /\ MaxProcs <= MaxThreads
  BY KernelAssumption, Zenon
<1> QED
  BY <1>3, <1>4, Zenon DEF BP!BufferAssumption

LEMMA GraphFits == GP!GraphAssumption
<1>1. Rank \in [GP!Pids -> 0..3]
  <2>1. ASSUME NEW p \in Pids
        PROVE  Rank[p] \in 0..3
    <3>1. Importance[p] \in {"CRITICAL", "HIGH", "NORMAL", "LOW"}
      BY KernelAssumption, Zenon
    <3> QED
      BY <3>1 DEF Rank
  <2> QED
    BY <2>1, Zenon DEF Rank, GP!Pids, Pids
<1>2. Wants \in [GP!Pids -> [0..1 -> GP!Resources]]
  <2>1. ASSUME NEW p \in Pids
        PROVE  Wants[p] \in [0..1 -> 0..2]
    BY Numbers DEF Wants, LandingPad, ChargeStation, CommChannel, Pids
  <2>2. GP!Resources = 0..2 /\ GP!Pids = Pids
    BY DEF GP!Resources, GP!Pids, Pids
  <2> QED
    BY <2>1, <2>2, Zenon DEF Wants
<1> QED
  BY <1>1, <1>2, KernelAssumption, Zenon DEF GP!GraphAssumption

LEMMA MemoryFits == MP!MemoryAssumption
<1>1. ASSUME NEW T
      PROVE  MP!IsFiniteSet(T) = IsFiniteSet(T)
  BY Zenon DEF MP!IsFiniteSet, IsFiniteSet
<1>2. FrameCount \in Nat \ {0} /\ MaxPages \in Nat \ {0} /\ MaxTicks \in Nat
  BY KernelAssumption, Zenon
<1> QED
  BY <1>1, <1>2, Numbers, Zenon DEF MP!MemoryAssumption

LEMMA SameBuffer ==
    /\ \A b, item, p : B!buffer_produce(b, item, p) = BP!buffer_produce(b, item, p)
    /\ \A b, p : B!buffer_consume(b, p) = BP!buffer_consume(b, p)
    /\ \A b, p : B!buffer_release_mutex(B!buffer_remove_pid(b, p), p)
                  = BP!buffer_release_mutex(BP!buffer_remove_pid(b, p), p)
    /\ \A b : B!wake_buffer_waiters(b) = BP!wake_buffer_waiters(b)
    /\ \A item : B!buffer_init(item) = BP!buffer_init(item)
<1>1. \A b, q, p : B!Register(b, q, p) = BP!Register(b, q, p)
  BY Zenon DEF B!Register, BP!Register, B!Contains, BP!Contains, B!Capacity, BP!Capacity
<1>2. /\ \A b, q : B!DropFirst(b, q) = BP!DropFirst(b, q)
      /\ \A b, q : B!FirstWaiter(b, q) = BP!FirstWaiter(b, q)
      /\ \A b : B!Refused(b) = BP!Refused(b)
      /\ \A b : B!locked(b) <=> BP!locked(b)
      /\ \A b : B!Nobody(b) = BP!Nobody(b)
      /\ \A b, q : B!Broadcast(b, q) = BP!Broadcast(b, q)
  BY Zenon DEF B!DropFirst, BP!DropFirst, B!FirstWaiter, BP!FirstWaiter, B!Refused, BP!Refused,
               B!locked, BP!locked, B!Nobody, BP!Nobody, B!Broadcast, BP!Broadcast
<1>3. \A b : B!mutex_unlock(b) = BP!mutex_unlock(b)
  BY <1>2, Zenon DEF B!mutex_unlock, BP!mutex_unlock
<1>4. /\ \A b, q, p : B!cond_wait(b, q, p) = BP!cond_wait(b, q, p)
      /\ \A b, q : B!Granted(b, q) = BP!Granted(b, q)
  BY <1>1, <1>2, <1>3, Zenon DEF B!cond_wait, BP!cond_wait, B!Granted, BP!Granted
<1>5. ASSUME NEW b, NEW item, NEW p
      PROVE  B!buffer_produce(b, item, p) = BP!buffer_produce(b, item, p)
  BY <1>1, <1>2, <1>4, Zenon DEF B!buffer_produce, BP!buffer_produce
<1>6. ASSUME NEW b, NEW p
      PROVE  B!buffer_consume(b, p) = BP!buffer_consume(b, p)
  BY <1>1, <1>2, <1>4, Zenon DEF B!buffer_consume, BP!buffer_consume
<1>7. ASSUME NEW b, NEW p
      PROVE  B!buffer_release_mutex(b, p) = BP!buffer_release_mutex(b, p)
  BY <1>3, Zenon DEF B!buffer_release_mutex, BP!buffer_release_mutex
<1>8. ASSUME NEW b, NEW p
      PROVE  B!buffer_remove_pid(b, p) = BP!buffer_remove_pid(b, p)
  <2>1. ASSUME NEW s, NEW A
        PROVE  B!Keep(s, A) = BP!Keep(s, A)
    BY Zenon DEF B!Keep, BP!Keep
  <2> QED
    BY <2>1, Zenon DEF B!buffer_remove_pid, BP!buffer_remove_pid, B!Queues, BP!Queues
<1>9. ASSUME NEW b
      PROVE  B!wake_buffer_waiters(b) = BP!wake_buffer_waiters(b)
  BY <1>2, Zenon DEF B!wake_buffer_waiters, BP!wake_buffer_waiters
<1>10. ASSUME NEW item
       PROVE  B!buffer_init(item) = BP!buffer_init(item)
  BY Zenon DEF B!buffer_init, BP!buffer_init, B!Slots, BP!Slots, B!Queues, BP!Queues
<1> QED
  BY <1>5, <1>6, <1>7, <1>8, <1>9, <1>10, Zenon

LEMMA SameGraph ==
    /\ \A g, p, r : G!deadlock_request(g, p, r) = GP!deadlock_request(g, p, r)
    /\ \A g, p : G!deadlock_resolve(g, p) = GP!deadlock_resolve(g, p)
    /\ G!deadlock_init = GP!deadlock_init
<1>1. ASSUME NEW g, NEW p, NEW r
      PROVE  G!deadlock_alloc(g, p, r) = GP!deadlock_alloc(g, p, r)
  BY Zenon DEF G!deadlock_alloc, GP!deadlock_alloc
<1>2. \A g, p, r : G!Result(g, p, r) = GP!Result(g, p, r)
  BY Zenon DEF G!Result, GP!Result
<1>3. ASSUME NEW g, NEW p, NEW r
      PROVE  G!deadlock_request(g, p, r) = GP!deadlock_request(g, p, r)
  BY <1>1, <1>2, Zenon DEF G!deadlock_request, GP!deadlock_request
<1>4. ASSUME NEW g, NEW p
      PROVE  G!deadlock_cleanup_process(g, p) = GP!deadlock_cleanup_process(g, p)
  BY Zenon DEF G!deadlock_cleanup_process, GP!deadlock_cleanup_process, G!Resources, GP!Resources
<1>5. ASSUME NEW g, NEW r
      PROVE  G!Waiting(g, r) = GP!Waiting(g, r)
  BY Zenon DEF G!Waiting, GP!Waiting, G!Keep, GP!Keep, G!Pids, GP!Pids
<1>6. ASSUME NEW g, NEW r
      PROVE  G!Granted(g, r) = GP!Granted(g, r)
  BY <1>5, Zenon DEF G!Granted, GP!Granted
<1>7. ASSUME NEW ss
      PROVE  G!FlattenSeq(ss) = GP!FlattenSeq(ss)
  BY Zenon DEF G!FlattenSeq, GP!FlattenSeq
<1>8. ASSUME NEW g
      PROVE  G!deadlock_wake_waiters(g) = GP!deadlock_wake_waiters(g)
  BY <1>5, <1>6, <1>7, Zenon DEF G!deadlock_wake_waiters, GP!deadlock_wake_waiters,
                                 G!Resources, GP!Resources, G!Pids, GP!Pids
<1>9. G!deadlock_init = GP!deadlock_init
  BY Zenon DEF G!deadlock_init, GP!deadlock_init, G!Resources, GP!Resources, G!Pids, GP!Pids
<1> QED
  BY <1>3, <1>4, <1>8, <1>9, Zenon DEF G!deadlock_resolve, GP!deadlock_resolve

LEMMA SameMemory ==
    /\ \A m, p, page, now : M!mem_allocate_page(m, p, page, now) = MP!mem_allocate_page(m, p, page, now)
    /\ \A m, p : M!mem_free_process(m, p) = MP!mem_free_process(m, p)
    /\ \A m, p, page, now : M!Touch(m, p, page, now) = MP!Touch(m, p, page, now)
    /\ M!mem_init = MP!mem_init
<1>1. ASSUME NEW m, NEW p, NEW page, NEW f, NEW now
      PROVE  M!Load(m, p, page, f, now) = MP!Load(m, p, page, f, now)
  BY Zenon DEF M!Load, MP!Load
<1>2. /\ \A m : M!Free(m) = MP!Free(m)
      /\ \A m : M!select_lru_victim(m) = MP!select_lru_victim(m)
      /\ \A m, p, page : M!Invalidate(m, p, page) = MP!Invalidate(m, p, page)
      /\ \A T : M!Min(T) = MP!Min(T)
  BY Zenon DEF M!Free, MP!Free, M!select_lru_victim, MP!select_lru_victim, M!Frames, MP!Frames,
               M!Invalidate, MP!Invalidate, M!None, MP!None, M!Min, MP!Min
<1>3. ASSUME NEW m, NEW p, NEW page, NEW now
      PROVE  M!mem_allocate_page(m, p, page, now) = MP!mem_allocate_page(m, p, page, now)
  BY <1>1, <1>2, Zenon DEF M!mem_allocate_page, MP!mem_allocate_page, M!None, MP!None
<1>4. ASSUME NEW m, NEW p
      PROVE  M!mem_free_process(m, p) = MP!mem_free_process(m, p)
  <2>1. ASSUME NEW T
        PROVE  M!Cardinality(T) = MP!Cardinality(T)
    BY Zenon DEF M!Cardinality, MP!Cardinality
  <2> QED
    BY <2>1, Zenon DEF M!mem_free_process, MP!mem_free_process, M!Frames, MP!Frames,
                       M!Pages, MP!Pages, M!None, MP!None
<1>5. ASSUME NEW m, NEW p, NEW page, NEW now
      PROVE  M!Touch(m, p, page, now) = MP!Touch(m, p, page, now)
  BY Zenon DEF M!Touch, MP!Touch
<1>6. M!mem_init = MP!mem_init
  BY Zenon DEF M!mem_init, MP!mem_init, M!Frames, MP!Frames, M!Pages, MP!Pages, M!None, MP!None
<1> QED
  BY <1>3, <1>4, <1>5, <1>6, Zenon

\* What the proofs of the components show for one call, for those of this kernel.
LEMMA BufferCalls ==
    ASSUME NEW b, BP!Sound(b), NEW p \in Pids
    PROVE  /\ BP!Settled(b) =>
                 /\ \A item \in Items :
                       LET result == B!buffer_produce(b, item, p)
                       IN  BP!Sound(result.buffer) /\ result.wake \in Seq(Pids)
                 /\ LET result == B!buffer_consume(b, p)
                    IN  BP!Sound(result.buffer) /\ result.wake \in Seq(Pids)
           /\ LET c == B!buffer_release_mutex(B!buffer_remove_pid(b, p), p)
              IN  /\ BP!Sound(c) /\ (BP!Settled(b) => BP!Settled(c))
                  /\ c.owner # p /\ \A q \in B!Queues : ~ Contains(c.wait[q], p)
<1>0. b \in BP!Buffers
  BY Zenon DEF BP!Sound
<1>1. ASSUME BP!Settled(b), NEW item \in Items
      PROVE  LET result == B!buffer_produce(b, item, p)
             IN  BP!Sound(result.buffer) /\ result.wake \in Seq(Pids)
  <2>1. BP!CallSound(b, BP!buffer_produce(b, item, p), p)
    BY <1>1, BufferFits, BP!ProduceSound, Zenon
  <2>2. BP!buffer_produce(b, item, p).wake \in Seq(Pids)
    BY <1>0, BufferFits, BP!ReportsArePids, Zenon
  <2> QED
    BY <2>1, <2>2, SameBuffer, Zenon DEF BP!CallSound
<1>2. ASSUME BP!Settled(b)
      PROVE  LET result == B!buffer_consume(b, p)
             IN  BP!Sound(result.buffer) /\ result.wake \in Seq(Pids)
  <2>1. BP!CallSound(b, BP!buffer_consume(b, p), p)
    BY <1>2, BufferFits, BP!ConsumeSound, Zenon
  <2>2. BP!buffer_consume(b, p).wake \in Seq(Pids)
    BY <1>0, BufferFits, BP!ReportsArePids, Zenon
  <2> QED
    BY <2>1, <2>2, SameBuffer, Zenon DEF BP!CallSound
<1> DEFINE c == BP!buffer_release_mutex(BP!buffer_remove_pid(b, p), p)
<1>3. /\ BP!Sound(c) /\ BP!SameRing(b, c)
      /\ \A q \in BP!Queues : b.wait[q] = << >> => c.wait[q] = << >>
      /\ \A q \in BP!Queues, x \in Pids :
            BP!Contains(c.wait[q], x) <=> x # p /\ BP!Contains(b.wait[q], x)
  BY BufferFits, BP!CleanupSound, Zenon
<1>4. c = B!buffer_release_mutex(B!buffer_remove_pid(b, p), p)
  BY SameBuffer, Zenon
<1> HIDE DEF c
<1>5. BP!Settled(b) => BP!Settled(c)
  BY <1>3, Zenon DEF BP!Settled, BP!SameRing, BP!Queues
<1>6. c.owner # p
  BY <1>3, Numbers, Zenon DEF BP!Sound
<1>7. \A q \in B!Queues : ~ Contains(c.wait[q], p)
  <2>1. \A s, x : BP!Contains(s, x) <=> Contains(s, x)
    BY Zenon DEF BP!Contains, Contains
  <2>2. B!Queues = BP!Queues
    BY Zenon DEF B!Queues, BP!Queues
  <2> QED
    BY <1>3, <2>1, <2>2, Zenon
<1> QED
  BY <1>1, <1>2, <1>3, <1>4, <1>5, <1>6, <1>7, Zenon

LEMMA BufferOpens ==
    /\ LET b == B!buffer_init(0) IN BP!Sound(b) /\ BP!Settled(b)
    /\ \A b : BP!Sound(b) => LET w == B!wake_buffer_waiters(b)
                             IN  BP!Sound(w.buffer) /\ BP!Settled(w.buffer) /\ w.wake \in Seq(Pids)
<1>1. 0 \in Items
  <2>1. MaxTicks \in Nat /\ NumProcs \in Nat
    BY Numbers, KernelAssumption, Zenon
  <2>2. 100 * MaxTicks + NumProcs >= 0
    BY <2>1
  <2> QED
    BY <2>1, <2>2 DEF Items
<1>2. BP!Sound(BP!buffer_init(0)) /\ BP!Settled(BP!buffer_init(0))
  BY <1>1, BufferFits, BP!InitSound, Zenon
<1>3. ASSUME NEW b, BP!Sound(b)
      PROVE  LET w == BP!wake_buffer_waiters(b)
             IN  BP!Sound(w.buffer) /\ BP!Settled(w.buffer) /\ w.wake \in Seq(Pids)
  BY <1>3, BufferFits, BP!EndOfTickSound, Zenon DEF BP!WakeUp
<1> QED
  BY <1>2, <1>3, SameBuffer, Zenon

LEMMA GraphCalls ==
    ASSUME NEW g, GP!Sound(g), NEW p \in Pids
    PROVE  /\ \A r \in 0..2 : GP!Sound(G!deadlock_request(g, p, r))
           /\ LET freed == G!deadlock_resolve(g, p)
              IN  /\ GP!Sound(freed.graph) /\ freed.granted \in Seq(Pids)
                  /\ \A r \in G!Resources : /\ freed.graph.allocation[p][r] = 0
                                            /\ freed.graph.request[p][r] = 0
                                            /\ ~ Contains(freed.graph.wait[r], p)
                  /\ \A q \in Pids \ {p}, r \in G!Resources :
                        freed.graph.allocation[q][r] >= g.allocation[q][r]
<1>1. GP!Pids = Pids /\ GP!Resources = 0..2 /\ G!Resources = 0..2
  BY DEF GP!Pids, Pids, GP!Resources, G!Resources
<1>2. \A r \in 0..2 : GP!Sound(GP!deadlock_request(g, p, r))
  BY <1>1, GraphFits, GP!RequestSound, Zenon
<1>3. LET freed == GP!deadlock_resolve(g, p)
      IN  /\ GP!Sound(freed.graph) /\ freed.granted \in Seq(GP!Pids)
          /\ \A r \in GP!Resources : /\ freed.graph.allocation[p][r] = 0
                                     /\ freed.graph.request[p][r] = 0
                                     /\ ~ GP!Contains(freed.graph.wait[r], p)
          /\ \A q \in GP!Pids \ {p}, r \in GP!Resources :
                freed.graph.allocation[q][r] >= g.allocation[q][r]
  BY <1>1, GraphFits, GP!ResolveForgets, Zenon
<1>4. \A s, x : GP!Contains(s, x) <=> Contains(s, x)
  BY Zenon DEF GP!Contains, Contains
<1> QED
  BY <1>1, <1>2, <1>3, <1>4, SameGraph, Zenon

LEMMA GraphOpens == GP!Sound(G!deadlock_init)
BY GraphFits, GP!InitSound, SameGraph, Zenon

LEMMA MemoryCalls ==
    ASSUME NEW m, MP!Sound(m), NEW p \in Pids
    PROVE  /\ \A page \in M!Pages, now \in 0..MaxTicks :
                 /\ MP!Sound(M!mem_allocate_page(m, p, page, now))
                 /\ m.page_table[p][page] # None => MP!Sound(M!Touch(m, p, page, now))
           /\ MP!Sound(M!mem_free_process(m, p))
<1>1. M!Pages = MP!Pages /\ None = MP!None
  BY Zenon DEF M!Pages, MP!Pages, None, MP!None
<1>2. ASSUME NEW page \in M!Pages, NEW now \in 0..MaxTicks
      PROVE  /\ MP!Sound(MP!mem_allocate_page(m, p, page, now))
             /\ m.page_table[p][page] # None => MP!Sound(MP!Touch(m, p, page, now))
  <2>1. MP!Sound(MP!mem_allocate_page(m, p, page, now))
    BY <1>1, MemoryFits, MP!AllocateSound, Zenon
  <2>2. ASSUME m.page_table[p][page] # None
        PROVE  MP!Sound(MP!Touch(m, p, page, now))
    BY <1>1, <2>2, MemoryFits, MP!TouchSound, Zenon
  <2> QED
    BY <2>1, <2>2, Zenon
<1>3. MP!Sound(MP!mem_free_process(m, p))
  BY MemoryFits, MP!FreeSound, Zenon
<1> QED
  BY <1>2, <1>3, SameMemory, Zenon

LEMMA MemoryOpens == MP!Sound(M!mem_init)
BY MemoryFits, MP!InitSound, SameMemory, Zenon

LEMMA SameSound ==
    /\ \A b : (B!Sound(b) <=> BP!Sound(b)) /\ (B!Settled(b) <=> BP!Settled(b))
    /\ \A g : G!Sound(g) <=> GP!Sound(g)
    /\ \A m : M!Sound(m) <=> MP!Sound(m)
<1>1. \A b : (B!Sound(b) <=> BP!Sound(b)) /\ (B!Settled(b) <=> BP!Settled(b))
  <2>1. B!Slots = BP!Slots /\ B!Queues = BP!Queues
    BY Zenon DEF B!Slots, BP!Slots, B!Queues, BP!Queues
  <2>2. B!Buffers = BP!Buffers
    BY <2>1, Zenon DEF B!Buffers, BP!Buffers
  <2>3. \A w : B!IsInjective(w) <=> BP!IsInjective(w)
    BY Zenon DEF B!IsInjective, BP!IsInjective
  <2> QED
    BY <2>1, <2>2, <2>3, Zenon DEF B!Sound, BP!Sound, B!Settled, BP!Settled, B!Ring, BP!Ring
<1>2. \A g : G!Sound(g) <=> GP!Sound(g)
  <2>1. G!Resources = GP!Resources /\ G!Pids = GP!Pids
    BY Zenon DEF G!Resources, GP!Resources, G!Pids, GP!Pids
  <2>2. G!Graphs = GP!Graphs
    BY <2>1, Zenon DEF G!Graphs, GP!Graphs
  <2> QED
    BY <2>1, <2>2, Zenon DEF G!Sound, GP!Sound, G!OneUnit, GP!OneUnit, G!Holds, GP!Holds
<1>3. \A m : M!Sound(m) <=> MP!Sound(m)
  <2>1. M!Frames = MP!Frames /\ M!Pages = MP!Pages /\ M!None = MP!None
    BY Zenon DEF M!Frames, MP!Frames, M!Pages, MP!Pages, M!None, MP!None
  <2>2. M!Memories = MP!Memories /\ \A T : M!Cardinality(T) = MP!Cardinality(T)
    BY <2>1, Zenon DEF M!Memories, MP!Memories, M!Cardinality, MP!Cardinality
  <2>3. \A m : M!Matching(m) <=> MP!Matching(m)
    BY <2>1, SMT DEF M!Matching, MP!Matching
  <2>4. \A m : M!Paired(m) <=> MP!Paired(m)
    BY <2>1, Zenon DEF M!Paired, MP!Paired
  <2>5. \A m : M!Free(m) = MP!Free(m)
    BY <2>1, Zenon DEF M!Free, MP!Free
  <2>6. \A table : M!Resident(table) = MP!Resident(table)
    BY <2>1, Zenon DEF M!Resident, MP!Resident
  <2>7. \A m : M!PagesCounted(m) <=> MP!PagesCounted(m)
    BY <2>2, <2>6, Zenon DEF M!PagesCounted, MP!PagesCounted
  <2>8. \A m : M!FramesCounted(m) <=> MP!FramesCounted(m)
    BY <2>2, <2>5, Zenon DEF M!FramesCounted, MP!FramesCounted
  <2> QED
    BY <2>2, <2>3, <2>4, <2>7, <2>8, Zenon DEF M!Sound, MP!Sound
<1> QED
  BY <1>1, <1>2, <1>3, Zenon

\* What the lemmas about the loop assume.
LEMMA PromisesHold == Promises
<1>1. SchedulerPromise
  <2>1. \A mode \in {"RR", "MLFQ"} : S!Settled(S!scheduler_init(mode), {})
    BY SchedulerFits, SameCalls, SameSettled, SP!InitSettles, Zenon
  <2> QED
    BY <2>1, SchedulerCalls, SameSettled, Zenon DEF SchedulerPromise
<1>2. BufferPromise
  BY BufferOpens, BufferCalls, SameSound, Zenon DEF BufferPromise
<1>3. GraphPromise
  BY GraphOpens, GraphCalls, SameSound, Zenon DEF GraphPromise
<1>4. MemoryPromise
  BY MemoryOpens, MemoryCalls, SameSound, Zenon DEF MemoryPromise
<1> QED
  BY <1>1, <1>2, <1>3, <1>4, Zenon DEF Promises
-----------------------------------------------------------------------------
(* What the runs check *)

\* The state of the loop between two of its steps: the kernel's tables are typed,
\* its events can be carried out, and every component is as its own inductive
\* invariant wants it, whatever the commands, the bursts and the sizes are.
THEOREM KernelInvariance == Spec => []KInv
<1>1. KInv /\ [Next]_vars => KInv'
  BY PromisesHold, NextKeeps, Zenon
<1>2. Init => KInv
  BY PromisesHold, InitKeeps, Zenon
<1> QED
  BY <1>1, <1>2, PTL DEF Spec

\* No step of the loop brings a terminated process back to life.
THEOREM TerminatedStaysTerminated == Spec => TerminatedIsFinal
<1> DEFINE Ends == \A p \in Pids : sys.pstate[p] = "TERMINATED" => sys'.pstate[p] = "TERMINATED"
<1>1. KInv /\ [Next]_vars => [Ends]_vars
  BY PromisesHold, NextKeeps, Zenon DEF Final
<1> QED
  BY <1>1, KernelInvariance, PTL DEF Spec, TerminatedIsFinal

LEMMA ArrivedAre == ArrivedIn(sys) = Arrived
<1>1. \A p \in Pids : \A t \in ThreadsOf(p) : t \in Tids /\ Owner(t) = p
  BY ThreadsOfOwner, Zenon
<1>2. \A t \in Tids : t \in ThreadsOf(Owner(t))
  BY Numbers DEF Tids, ThreadsOf, Owner
<1> QED
  BY <1>1, <1>2, OwnerType, Zenon DEF ArrivedIn, Arrived

\* Whatever the kernel does in one step, to however many threads, and whomever it
\* kills behind the scheduler's back: no thread is queued twice, none that runs is
\* queued, none that is READY is lost, and the levels match the queues.
THEOREM SchedulerStaysSound == Spec => []SchedulerIsSound
<1>1. ASSUME KInv
      PROVE  S!QueuesAreDisjoint /\ S!OneThreadRuns /\ S!NoThreadIsLost /\ S!LevelsMatchQueues
  <2>1. S!Settled(sys.sched, Arrived)
    BY <1>1, ArrivedAre, Zenon DEF KInv, Fits
  <2>2. S!QueuesAreDisjoint /\ S!OneThreadRuns
    BY <2>1, Zenon DEF S!Settled, S!QueuesAreDisjoint, S!OneThreadRuns
  <2>3. S!NoThreadIsLost
    BY <2>1, Numbers, Zenon DEF S!Settled, S!NoThreadIsLost
  <2>4. S!LevelsMatchQueues
    <3>1. sys.sched.queue[1] \in Seq(Tids) /\ sys.sched.queue[2] \in Seq(Tids)
      BY <2>1 DEF S!Settled, S!Sched, S!Levels
    <3>2. sys.sched.mode = "RR" => sys.sched.queue[1] = << >> /\ sys.sched.queue[2] = << >>
      BY <2>1, <3>1 DEF S!Settled, S!QueuedAtLevel
    <3> QED
      BY <2>1, <3>2, Zenon DEF S!Settled, S!QueuedAtLevel, S!LevelsMatchQueues
  <2> QED
    BY <2>2, <2>3, <2>4, Zenon
<1>2. KInv => SchedulerIsSound
  BY <1>1, Zenon DEF SchedulerIsSound
<1> QED
  BY <1>2, KernelInvariance, PTL

\* The frame table and the page tables describe one mapping and the counters
\* count, through page faults, crashes, victims and the shutdown.
THEOREM MemoryStaysSound == Spec => []MemoryIsSound
<1>1. KInv => M!TypeOK
  <2> SUFFICES ASSUME KInv
               PROVE  M!TypeOK
    BY Zenon
  <2>1. sys.mem \in M!Memories /\ tick \in 0..MaxTicks /\ EventTables(sys)
    BY Zenon DEF KInv, Fits, M!Sound
  <2>2. \A i \in ActiveEvents(sys, "PAGE_FAULT") :
           sys.pending[i].pid \in Pids /\ sys.pending[i].page \in M!Pages
    BY <2>1, Zenon DEF ActiveEvents, EventTables, EventRecords
  <2> QED
    BY <2>1, <2>2 DEF M!TypeOK
<1>2. KInv => M!FramesMatchPageTables
  BY Zenon DEF KInv, Fits, M!Sound, M!FramesMatchPageTables
<1>3. KInv => M!CountersAreExact
  BY Zenon DEF KInv, Fits, M!Sound, M!FramesCounted, M!PagesCounted, M!Resident,
               M!CountersAreExact, M!mem_get_page_count
<1>4. KInv => MemoryIsSound
  BY <1>1, <1>2, <1>3, Zenon DEF MemoryIsSound
<1> QED
  BY <1>4, KernelInvariance, PTL

\* The kernel's own tables stay typed, the mutex of the buffer is free between two
\* steps, and the file table agrees with its count, full or not.
THEOREM TablesStaySound == Spec => []TablesAreSound
<1>1. KInv => TypeOK
  BY Zenon DEF KInv, Fits, ThreadTables, ProcessTables, EventTables, TypeOK
<1>2. KInv => B!TypeOK /\ B!MutexIsFree
  <2> SUFFICES ASSUME KInv
               PROVE  B!TypeOK /\ B!MutexIsFree
    BY Zenon
  <2>1. sys.buffer \in B!Buffers /\ sys.buffer.owner = None /\ sys.buffer.wait["mutex"] = << >>
    BY Zenon DEF KInv, Fits, B!Sound
  <2>2. {Owner(t) : t \in BlockedFor(sys, "MUTEX_WAIT")} \in SUBSET Pids
    BY OwnerType, Zenon DEF BlockedFor
  <2> QED
    BY <2>1, <2>2, Zenon DEF B!TypeOK, B!MutexIsFree, B!locked
<1>3. KInv => F!TableIsConsistent
  BY FileNumbers, Zenon DEF KInv, Fits, Consistent, F!TableIsConsistent
<1>4. KInv => TablesAreSound
  BY <1>1, <1>2, <1>3, Zenon DEF TablesAreSound
<1> QED
  BY <1>4, KernelInvariance, PTL

\* Every resource keeps its one unit, available or with one process, although
\* terminated processes hold and ask for resources.
THEOREM UnitsStayWithTheKernel == Spec => [](G!TypeOK /\ G!UnitsAreConserved)
<1>1. ASSUME KInv
      PROVE  G!TypeOK /\ GP!UnitInv
  <2>1. G!Sound(sys.graph) /\ GP!Sound(sys.graph) /\ sys.phase \in [Pids -> 0..1]
    BY <1>1, SameSound, Zenon DEF KInv, Fits, ProcessTables
  <2> QED
    BY <2>1, Zenon DEF G!TypeOK, G!Sound, G!Pids, GP!UnitInv, GP!Threads, GP!Pids, Pids
<1>2. KInv => GP!UnitsAreConserved
  BY <1>1, GraphFits, GP!UnitsCount, Zenon
<1>3. /\ G!Resources = GP!Resources /\ G!Pids = GP!Pids
      /\ \A T : G!Cardinality(T) = GP!Cardinality(T)
  BY Zenon DEF G!Resources, GP!Resources, G!Pids, GP!Pids, G!Cardinality, GP!Cardinality
<1>4. GP!UnitsAreConserved => G!UnitsAreConserved
  BY <1>3, Zenon DEF G!UnitsAreConserved, GP!UnitsAreConserved
<1>5. KInv => G!TypeOK /\ G!UnitsAreConserved
  BY <1>1, <1>2, <1>4, Zenon
<1> QED
  BY <1>5, KernelInvariance, PTL

\* Right after a crash the process holds nothing, waits for nothing and has no event
\* the kernel looks at, its threads are DONE, and the others have their pages, files,
\* events and every unit they had.  It says nothing of the places of its threads in
\* the scheduler, nor of its events behind pending_count.
THEOREM CrashAlwaysReleases == Spec => CrashReleasesHoldings
<1> DEFINE p == Owner(Current(sys))
           Released == /\ ~ HasHoldings(sys', p) /\ Spared(sys, sys', p)
                       /\ \A t \in ThreadsOf(p) : sys'.sched.state[t] = "DONE"
<1>1. ASSUME KInv, Crash
      PROVE  Released
  <2>1. sys' = cleanup_and_release(sys, p) /\ Runs(sys)
    BY <1>1, Zenon DEF Crash, CrashNow, Moves
  <2>2. Fits(sys) /\ tick \in 0..MaxTicks
    BY <1>1, Zenon DEF KInv
  <2>3. p \in Pids
    BY <2>1, <2>2, RunningThread, Zenon
  <2> HIDE DEF p
  <2> QED
    BY <2>1, <2>2, <2>3, CrashKeeps, PromisesHold, Zenon
<1> HIDE DEF Released
<1>2. KInv /\ [Next]_vars => [Crash => Released]_vars
  BY <1>1, Zenon
<1>3. [][Crash => Released]_vars => CrashReleasesHoldings
  BY Zenon DEF Released, CrashReleasesHoldings
<1> QED
  BY <1>2, <1>3, KernelInvariance, PTL DEF Spec

\* Whatever a user types, and wherever, exactly as many ticks are played as were
\* asked for.
THEOREM PromptStaysObeyed == Spec => []PromptIsObeyed
<1>1. Init => PInv
  <2> SUFFICES ASSUME Init
               PROVE  PInv
    BY Zenon
  <2>1. LeftOver \subseteq Nat
    BY KernelAssumption, Zenon
  <2>2. asked \in Nat /\ tick = 0 /\ step = "start"
    <3>1. asked \in LeftOver \/ asked \in {0}
      BY Zenon DEF Init
    <3>2. asked \in LeftOver => asked \in Nat
      BY <2>1, Zenon
    <3>3. asked \in {0} => asked \in Nat
      OBVIOUS
    <3> QED
      BY <3>1, <3>2, <3>3, Zenon DEF Init
  <2>3. /\ console \in [paused : BOOLEAN, target : Nat] /\ console.target = asked
        /\ console.paused => asked = 0
    <3>1. PICK p \in {asked = 0, FALSE} : console = [paused |-> p, target |-> asked]
      BY Zenon DEF Init
    <3>2. CASE p = FALSE
      BY <2>2, <3>1, <3>2, Zenon
    <3>3. CASE p # FALSE
      <4>1. p = TRUE /\ asked = 0
        BY <3>1, <3>3, Zenon
      <4> QED
        BY <2>2, <3>1, <4>1, Zenon
    <3> QED
      BY <3>2, <3>3, Zenon
  <2> QED
    BY <2>2, <2>3 DEF PInv, PromptIsObeyed, Begun
<1>2. KInv => tick \in Nat
  <2>1. MaxTicks \in Nat
    BY KernelAssumption, Zenon
  <2> QED
    BY <2>1 DEF KInv
<1>3. PInv => PromptIsObeyed
  BY Zenon DEF PInv
<1> QED
  BY <1>1, <1>2, <1>3, PInvKeeps, KernelInvariance, PTL DEF Spec
=============================================================================
