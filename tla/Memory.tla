------------------------------- MODULE Memory --------------------------------
(***************************************************************************)
(* The paged memory of src/src/memory.c, with the two steps of kernel.c    *)
(* that drive it: trigger_page_fault touches the next page of the process  *)
(* that runs, complete_page_faults loads a missing page a few ticks later  *)
(* and takes it away from its owner if a frame had to be emptied.          *)
(*                                                                         *)
(* The frame table (frames, frame_pages) and the page tables of the PCBs   *)
(* say the same thing twice, and free_frame_count and pages_used count it: *)
(* memory.c maintains one part, the kernel the other.                      *)
(***************************************************************************)
EXTENDS Integers, FiniteSets, FiniteSetsExt

CONSTANTS
    Pids,           \* the processes
    NoPid,          \* the -1 of a free frame
    FrameCount,     \* FRAME_COUNT
    MaxPages,       \* MAX_PAGES
    MaxTick         \* bound on the clock

Frames == 0..(FrameCount - 1)
Pages == 0..(MaxPages - 1)
None == -1

ASSUME MemoryAssumption ==
    /\ IsFiniteSet(Pids) /\ NoPid \notin Pids
    /\ FrameCount \in Nat \ {0} /\ MaxPages \in Nat \ {0} /\ MaxTick \in Nat

VARIABLES
    mem,        \* the frame table and the processes' page tables
    faults,     \* the page faults under way, as pairs of process and page
    tick        \* current_tick

vars == <<mem, faults, tick>>

-----------------------------------------------------------------------------
(* memory.c *)

mem_init ==
    [frames |-> [f \in Frames |-> NoPid],
     frame_pages |-> [f \in Frames |-> None],
     last_access |-> [f \in Frames |-> 0],
     free_frame_count |-> FrameCount,
     page_table |-> [p \in Pids |-> [g \in Pages |-> None]],
     pages_used |-> [p \in Pids |-> 0]]

Free(m) == {f \in Frames : m.frames[f] = NoPid}

\* Mutant of select_lru_victim: always the first frame.
FirstFrame(m) == 0

\* select_lru_victim: the first of the frames that were used longest ago.
select_lru_victim(m) ==
    CHOOSE f \in Frames : \A h \in Frames :
        \/ m.last_access[f] < m.last_access[h]
        \/ m.last_access[f] = m.last_access[h] /\ f <= h

mem_get_page_count(m, p) == Cardinality({g \in Pages : m.page_table[p][g] # None})

Load(m, p, page, f, now) ==
    [m EXCEPT !.frames[f] = p,
              !.frame_pages[f] = page,
              !.last_access[f] = now,
              !.page_table[p][page] = f,
              !.pages_used[p] = @ + 1]

\* Mutants of Invalidate: the page table is forgotten, or the counter.
InvalidateCounterOnly(m, p, page) ==
    IF p = NoPid \/ page = None THEN m ELSE [m EXCEPT !.pages_used[p] = @ - 1]
InvalidateTableOnly(m, p, page) ==
    IF p = NoPid \/ page = None THEN m ELSE [m EXCEPT !.page_table[p][page] = None]

\* mem_allocate_page, and what complete_page_faults does with its EvictionInfo
\* (kernel.c:381-387): the page that lost its frame leaves its page table.
\* kernel_init passes no EvictionInfo, it never fills the memory.
Invalidate(m, p, page) ==
    IF p = NoPid \/ page = None THEN m
    ELSE [m EXCEPT !.page_table[p][page] = None, !.pages_used[p] = @ - 1]

\* Mutant of mem_allocate_page: a frame that is taken away counts as a free one.
AllocateCountingEvictions(m, p, page, now) ==
    IF m.page_table[p][page] # None THEN m
    ELSE LET f == IF Free(m) # {} THEN Min(Free(m)) ELSE select_lru_victim(m)
             counted == [m EXCEPT !.free_frame_count = @ - 1]
         IN  Invalidate(Load(counted, p, page, f, now), m.frames[f], m.frame_pages[f])

mem_allocate_page(m, p, page, now) ==
    IF m.page_table[p][page] # None THEN m
    ELSE IF Free(m) # {}
         THEN Load([m EXCEPT !.free_frame_count = @ - 1], p, page, Min(Free(m)), now)
         ELSE LET f == select_lru_victim(m)
              IN  Invalidate(Load(m, p, page, f, now), m.frames[f], m.frame_pages[f])

\* mem_access to a page that is there.
Touch(m, p, page, now) == [m EXCEPT !.last_access[m.page_table[p][page]] = now]

mem_free_process(m, p) ==
    LET held == {f \in Frames : m.frames[f] = p}
    IN  [m EXCEPT !.frames = [f \in Frames |-> IF f \in held THEN NoPid ELSE @[f]],
                  !.frame_pages = [f \in Frames |-> IF f \in held THEN None ELSE @[f]],
                  !.free_frame_count = @ + Cardinality(held),
                  !.page_table[p] = [g \in Pages |-> None],
                  !.pages_used[p] = 0]

-----------------------------------------------------------------------------
(* The calls of the kernel *)

Init == mem = mem_init /\ faults = {} /\ tick = 0

\* trigger_page_fault: the page after the resident ones is touched, which may
\* be there all the same once an earlier one has been evicted.
Access(p) ==
    LET page == mem_get_page_count(mem, p)
    IN  /\ page < MaxPages
        /\ IF mem.page_table[p][page] = None
           THEN faults' = faults \cup {<<p, page>>} /\ UNCHANGED mem
           ELSE mem' = Touch(mem, p, page, tick) /\ UNCHANGED faults
        /\ UNCHANGED tick

\* complete_page_faults; kernel_init loads pages 0 and 1 in the same way.  The
\* record of a finished fault may come back to life in the kernel's table of
\* pending events, so it may stay here.
CompleteFault(p, page) ==
    /\ <<p, page>> \in faults
    /\ mem' = mem_allocate_page(mem, p, page, tick)
    /\ faults' \in {faults, faults \ {<<p, page>>}}
    /\ UNCHANGED tick

\* cleanup_process cancels what is pending.
FreeProcess(p) ==
    /\ mem' = mem_free_process(mem, p)
    /\ faults' = {e \in faults : e[1] # p}
    /\ UNCHANGED tick

NextTick == tick < MaxTick /\ tick' = tick + 1 /\ UNCHANGED <<mem, faults>>

Next == \/ \E p \in Pids : Access(p) \/ FreeProcess(p)
        \/ \E p \in Pids, page \in Pages : CompleteFault(p, page)
        \/ NextTick

Spec == Init /\ [][Next]_vars

-----------------------------------------------------------------------------
(* Properties *)

Memories == [frames : [Frames -> Pids \cup {NoPid}],
             frame_pages : [Frames -> Pages \cup {None}],
             last_access : [Frames -> 0..MaxTick],
             free_frame_count : 0..FrameCount,
             page_table : [Pids -> [Pages -> Frames \cup {None}]],
             pages_used : [Pids -> 0..MaxPages]]

\* What the kernel's copy of the mapping says of a process: its resident pages.
Resident(table) == {g \in Pages : table[g] # None}

Matching(m) ==
    \A f \in Frames, p \in Pids, page \in Pages :
        (m.frames[f] = p /\ m.frame_pages[f] = page) <=> m.page_table[p][page] = f

\* A frame has an owner exactly when it has a page.
Paired(m) == \A f \in Frames : m.frames[f] = NoPid <=> m.frame_pages[f] = None

PagesCounted(m) == \A p \in Pids : m.pages_used[p] = Cardinality(Resident(m.page_table[p]))
FramesCounted(m) == m.free_frame_count = Cardinality(Free(m))

\* What every call finds and leaves behind.
Sound(m) == /\ m \in Memories
            /\ Matching(m) /\ Paired(m) /\ PagesCounted(m) /\ FramesCounted(m)

\* The shape of the data; the counters stay in their range.
TypeOK ==
    /\ mem \in Memories
    /\ faults \in SUBSET (Pids \X Pages)
    /\ tick \in 0..MaxTick

\* The frame table and the page tables describe the same mapping: no frame is
\* mapped twice, none is held by a process that does not map it.
FramesMatchPageTables == Matching(mem)

\* Both counters count: the free frames and the resident pages of a process.
CountersAreExact ==
    /\ mem.free_frame_count = Cardinality(Free(mem))
    /\ \A p \in Pids : mem.pages_used[p] = mem_get_page_count(mem, p)

\* A page is taken from a process that is not being freed only when no frame is
\* free and no page has been left untouched for longer.
EvictsLeastRecentlyUsed ==
    [][\A p \in Pids, page \in Pages :
          LET f == mem.page_table[p][page]
          IN  f # None /\ mem'.page_table[p][page] = None =>
                \/ Cardinality(Free(mem')) > Cardinality(Free(mem))
                \/ /\ Free(mem) = {}
                   /\ \A h \in Frames : mem.last_access[f] <= mem.last_access[h]]_vars
=============================================================================
