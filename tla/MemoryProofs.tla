---------------------------- MODULE MemoryProofs -----------------------------
(* The frame table and the page tables of memory.c, for every number of       *)
(* processes, frames and pages.                                               *)
EXTENDS Memory, DataProofs

IInv == Sound(mem) /\ faults \in SUBSET (Pids \X Pages) /\ tick \in 0..MaxTick

-----------------------------------------------------------------------------
(* Counting *)

LEMMA FiniteTables ==
    /\ IsFiniteSet(Frames) /\ Cardinality(Frames) = FrameCount
    /\ IsFiniteSet(Pages) /\ Cardinality(Pages) = MaxPages
    /\ None \notin Frames /\ None \notin Pages
    /\ Frames \in SUBSET Nat /\ Pages \in SUBSET Nat /\ 0 \in Frames /\ 0 \in Pages
<1>1. /\ FrameCount \in Nat \ {0} /\ MaxPages \in Nat \ {0}
      /\ 0 \in Int /\ FrameCount - 1 \in Int /\ MaxPages - 1 \in Int
  BY MemoryAssumption
<1>2. /\ IsFiniteSet(Frames)
      /\ Cardinality(Frames) = IF 0 > FrameCount - 1 THEN 0 ELSE FrameCount - 1 - 0 + 1
  BY <1>1, FS_Interval, Zenon DEF Frames
<1>3. /\ IsFiniteSet(Pages)
      /\ Cardinality(Pages) = IF 0 > MaxPages - 1 THEN 0 ELSE MaxPages - 1 - 0 + 1
  BY <1>1, FS_Interval, Zenon DEF Pages
<1>4. None \notin Frames /\ None \notin Pages
  BY <1>1 DEF None, Frames, Pages
<1>5. Frames \in SUBSET Nat /\ Pages \in SUBSET Nat /\ 0 \in Frames /\ 0 \in Pages
  BY <1>1 DEF Frames, Pages
<1> QED
  BY <1>1, <1>2, <1>3, <1>4, <1>5

LEMMA CountFrames ==
    ASSUME NEW F \in SUBSET Frames
    PROVE  IsFiniteSet(F) /\ Cardinality(F) \in 0..FrameCount
<1>1. IsFiniteSet(F) /\ Cardinality(F) <= FrameCount /\ Cardinality(F) \in Nat
  BY FiniteTables, FS_Subset, FS_CardinalityType
<1> QED
  BY <1>1, MemoryAssumption

LEMMA CountPages ==
    ASSUME NEW table \in [Pages -> Frames \cup {None}]
    PROVE  IsFiniteSet(Resident(table)) /\ Cardinality(Resident(table)) \in 0..MaxPages
<1>1. Resident(table) \in SUBSET Pages
  BY DEF Resident
<1>2. /\ IsFiniteSet(Resident(table)) /\ Cardinality(Resident(table)) <= MaxPages
      /\ Cardinality(Resident(table)) \in Nat
  BY <1>1, FiniteTables, FS_Subset, FS_CardinalityType
<1> QED
  BY <1>2, MemoryAssumption

LEMMA ResidentChange ==
    ASSUME NEW table \in [Pages -> Frames \cup {None}], NEW page \in Pages
    PROVE  /\ table[page] = None =>
                 \A f \in Frames : Cardinality(Resident([table EXCEPT ![page] = f]))
                                        = Cardinality(Resident(table)) + 1
           /\ table[page] # None =>
                 Cardinality(Resident([table EXCEPT ![page] = None])) = Cardinality(Resident(table)) - 1
<1>1. IsFiniteSet(Resident(table))
  BY CountPages
<1>2. ASSUME NEW f \in Frames, table[page] = None
      PROVE  Cardinality(Resident([table EXCEPT ![page] = f])) = Cardinality(Resident(table)) + 1
  <2>1. Resident([table EXCEPT ![page] = f]) = Resident(table) \cup {page}
    BY <1>2, FiniteTables DEF Resident
  <2>2. page \notin Resident(table)
    BY <1>2 DEF Resident
  <2> QED
    BY <1>1, <2>1, <2>2, FS_AddElement
<1>3. ASSUME table[page] # None
      PROVE  Cardinality(Resident([table EXCEPT ![page] = None])) = Cardinality(Resident(table)) - 1
  <2>1. Resident([table EXCEPT ![page] = None]) = Resident(table) \ {page}
    BY DEF Resident
  <2>2. page \in Resident(table)
    BY <1>3 DEF Resident
  <2> QED
    BY <1>1, <2>1, <2>2, FS_RemoveElement
<1> QED
  BY <1>2, <1>3

-----------------------------------------------------------------------------
(* memory.c *)

\* The search for a victim ends with one: a frame that was used longest ago.
LEMMA VictimExists ==
    ASSUME NEW m \in Memories
    PROVE  /\ select_lru_victim(m) \in Frames
           /\ \A h \in Frames : m.last_access[select_lru_victim(m)] <= m.last_access[h]
<1> DEFINE times == {m.last_access[f] : f \in Frames}
<1>1. m.last_access \in [Frames -> 0..MaxTick] /\ MaxTick \in Nat
  BY MemoryAssumption DEF Memories
<1>2. times \in SUBSET Nat /\ times # {}
  BY <1>1, FiniteTables
<1>3. PICK n \in times : \A k \in times : n <= k
  BY <1>2, LeastNatural
<1> DEFINE oldest == {f \in Frames : m.last_access[f] = n}
<1>4. oldest \in SUBSET Nat /\ oldest # {}
  BY <1>3, FiniteTables
<1>5. PICK f \in oldest : \A h \in oldest : f <= h
  BY <1>4, LeastNatural
<1>6. ASSUME NEW h \in Frames
      PROVE  \/ m.last_access[f] < m.last_access[h]
             \/ m.last_access[f] = m.last_access[h] /\ f <= h
  <2>1. m.last_access[f] = n /\ n <= m.last_access[h] /\ n \in Nat /\ m.last_access[h] \in Nat
    BY <1>1, <1>3, <1>5
  <2>2. m.last_access[h] = n => f <= h
    BY <1>5
  <2> QED
    BY <2>1, <2>2
<1>7. \E v \in Frames : \A h \in Frames :
         \/ m.last_access[v] < m.last_access[h]
         \/ m.last_access[v] = m.last_access[h] /\ v <= h
  BY <1>5, <1>6
<1>8. PICK v \in Frames : /\ v = select_lru_victim(m)
                          /\ \A h \in Frames :
                                \/ m.last_access[v] < m.last_access[h]
                                \/ m.last_access[v] = m.last_access[h] /\ v <= h
  BY <1>7 DEF select_lru_victim
<1>9. ASSUME NEW h \in Frames
      PROVE  m.last_access[v] <= m.last_access[h]
  <2>1. m.last_access[v] \in Nat /\ m.last_access[h] \in Nat
    BY <1>1
  <2> QED
    BY <1>8, <2>1
<1> QED
  BY <1>8, <1>9

\* l is m with the page of p in the frame f.
Loads(l, m, p, page, f) ==
    /\ l.free_frame_count = m.free_frame_count
    /\ \A h \in Frames : /\ l.frames[h] = IF h = f THEN p ELSE m.frames[h]
                        /\ l.frame_pages[h] = IF h = f THEN page ELSE m.frame_pages[h]
    /\ \A q \in Pids, g \in Pages :
          l.page_table[q][g] = IF q = p /\ g = page THEN f ELSE m.page_table[q][g]

\* l is m with the page of p struck out of the page table.
Strikes(l, m, p, page) ==
    /\ l.free_frame_count = m.free_frame_count
    /\ l.frames = m.frames /\ l.frame_pages = m.frame_pages
    /\ \A q \in Pids, g \in Pages :
          l.page_table[q][g] = IF q = p /\ g = page THEN None ELSE m.page_table[q][g]

\* What Load writes, and that pages_used follows the page table.
LEMMA LoadFields ==
    ASSUME NEW m \in Memories, PagesCounted(m), NEW p \in Pids, NEW page \in Pages,
           m.page_table[p][page] = None, NEW f \in Frames, NEW now \in 0..MaxTick
    PROVE  LET l == Load(m, p, page, f, now)
           IN  l \in Memories /\ PagesCounted(l) /\ Loads(l, m, p, page, f)
<1> DEFINE l == Load(m, p, page, f, now)
           table == [m.page_table[p] EXCEPT ![page] = f]
           a == [m.frames EXCEPT ![f] = p]
           b == [m.frame_pages EXCEPT ![f] = page]
           c == [m.last_access EXCEPT ![f] = now]
           d == [m.page_table EXCEPT ![p] = table]
           e == [m.pages_used EXCEPT ![p] = m.pages_used[p] + 1]
<1>1. /\ m.page_table \in [Pids -> [Pages -> Frames \cup {None}]]
      /\ m.pages_used \in [Pids -> 0..MaxPages] /\ m.last_access \in [Frames -> 0..MaxTick]
      /\ m.frames \in [Frames -> Pids \cup {NoPid}] /\ m.frame_pages \in [Frames -> Pages \cup {None}]
  BY DEF Memories
<1>2. table \in [Pages -> Frames \cup {None}]
  BY <1>1
<1>3. /\ Cardinality(Resident(table)) = m.pages_used[p] + 1
      /\ Cardinality(Resident(table)) \in 0..MaxPages
  BY <1>1, <1>2, ResidentChange, CountPages DEF PagesCounted
<1>4. l = [m EXCEPT !.frames = a, !.frame_pages = b, !.last_access = c,
                    !.page_table = d, !.pages_used = e]
  BY DEF Load
<1> HIDE DEF l, table
<1>5. /\ a \in [Frames -> Pids \cup {NoPid}] /\ b \in [Frames -> Pages \cup {None}]
      /\ c \in [Frames -> 0..MaxTick]
      /\ d \in [Pids -> [Pages -> Frames \cup {None}]] /\ e \in [Pids -> 0..MaxPages]
  BY <1>1, <1>2, <1>3
<1> HIDE DEF a, b, c, d, e
<1>6. /\ l \in Memories
      /\ l.frames = a /\ l.frame_pages = b /\ l.page_table = d /\ l.pages_used = e
      /\ l.free_frame_count = m.free_frame_count
  <2>1. PICK r : r = [m EXCEPT !.frames = a, !.frame_pages = b, !.last_access = c,
                               !.page_table = d, !.pages_used = e]
    OBVIOUS
  <2>2. r \in Memories
    BY <1>5, <2>1 DEF Memories
  <2>3. /\ r.frames = a /\ r.frame_pages = b /\ r.page_table = d /\ r.pages_used = e
        /\ r.free_frame_count = m.free_frame_count
    BY <1>5, <2>1 DEF Memories
  <2> QED
    BY <1>4, <2>1, <2>2, <2>3
<1>7. PagesCounted(l)
  BY <1>1, <1>3, <1>6 DEF PagesCounted, d, e
<1>8. Loads(l, m, p, page, f)
  BY <1>1, <1>6 DEF Loads, table, a, b, d
<1> QED
  BY <1>6, <1>7, <1>8 DEF l

\* What Invalidate writes.
LEMMA InvalidateFields ==
    ASSUME NEW m \in Memories, PagesCounted(m), NEW p \in Pids, NEW page \in Pages,
           m.page_table[p][page] # None
    PROVE  LET l == Invalidate(m, p, page)
           IN  l \in Memories /\ PagesCounted(l) /\ Strikes(l, m, p, page)
<1> DEFINE l == Invalidate(m, p, page)
           table == [m.page_table[p] EXCEPT ![page] = None]
<1>1. /\ m.page_table \in [Pids -> [Pages -> Frames \cup {None}]]
      /\ m.pages_used \in [Pids -> 0..MaxPages] /\ m.last_access \in [Frames -> 0..MaxTick]
      /\ m.frames \in [Frames -> Pids \cup {NoPid}] /\ m.frame_pages \in [Frames -> Pages \cup {None}]
      /\ m.free_frame_count \in 0..FrameCount
  BY DEF Memories
<1>2. table \in [Pages -> Frames \cup {None}]
  BY <1>1
<1>3. /\ Cardinality(Resident(table)) = m.pages_used[p] - 1
      /\ Cardinality(Resident(table)) \in 0..MaxPages
  BY <1>1, <1>2, ResidentChange, CountPages DEF PagesCounted
<1>4. p # NoPid /\ page # None
  BY MemoryAssumption, FiniteTables
<1>5. /\ l.frames = m.frames /\ l.frame_pages = m.frame_pages
      /\ l.last_access = m.last_access
      /\ l.page_table = [m.page_table EXCEPT ![p] = table]
      /\ l.pages_used = [m.pages_used EXCEPT ![p] = m.pages_used[p] - 1]
      /\ l.free_frame_count = m.free_frame_count
      /\ l = [frames |-> l.frames, frame_pages |-> l.frame_pages, last_access |-> l.last_access,
              free_frame_count |-> l.free_frame_count, page_table |-> l.page_table,
              pages_used |-> l.pages_used]
  BY <1>4 DEF Invalidate, Memories
<1> HIDE DEF l, table
<1>6. /\ l.page_table \in [Pids -> [Pages -> Frames \cup {None}]]
      /\ l.pages_used \in [Pids -> 0..MaxPages]
  BY <1>1, <1>2, <1>3, <1>5
<1>7. l \in Memories
  BY <1>1, <1>5, <1>6 DEF Memories
<1>8. PagesCounted(l)
  BY <1>1, <1>3, <1>5 DEF PagesCounted
<1>9. Strikes(l, m, p, page)
  BY <1>1, <1>5 DEF Strikes, table
<1> QED
  BY <1>7, <1>8, <1>9 DEF l

\* n is m with the page of p in the frame f, which was free.
LEMMA FillSound ==
    ASSUME NEW m, Sound(m), NEW p \in Pids, NEW page \in Pages, NEW now \in 0..MaxTick,
           m.page_table[p][page] = None, Free(m) # {}, NEW f \in Free(m)
    PROVE  LET n == Load([m EXCEPT !.free_frame_count = @ - 1], p, page, f, now)
           IN  /\ Sound(n)
               /\ \A q \in Pids, g \in Pages :
                     m.page_table[q][g] # None => n.page_table[q][g] # None
<1> DEFINE k == [m EXCEPT !.free_frame_count = @ - 1]
           n == Load(k, p, page, f, now)
<1>1. /\ m \in Memories /\ f \in Frames /\ m.frames[f] = NoPid /\ NoPid \notin Pids
      /\ m.frames \in [Frames -> Pids \cup {NoPid}] /\ m.frame_pages \in [Frames -> Pages \cup {None}]
      /\ m.page_table \in [Pids -> [Pages -> Frames \cup {None}]]
      /\ m.free_frame_count \in 0..FrameCount /\ FrameCount \in Nat
  BY MemoryAssumption DEF Sound, Free, Memories
<1>2. IsFiniteSet(Free(m)) /\ Cardinality(Free(m)) \in Nat /\ Cardinality(Free(m)) # 0
  <2>1. Free(m) \in SUBSET Frames
    BY DEF Free
  <2> QED
    BY <2>1, CountFrames, FS_EmptySet, FS_CardinalityType
<1>3. m.free_frame_count - 1 \in 0..FrameCount
  <2>1. m.free_frame_count = Cardinality(Free(m))
    BY DEF Sound, FramesCounted
  <2>2. m.free_frame_count # 0 /\ m.free_frame_count \in 0..FrameCount /\ FrameCount \in Nat
    BY <1>1, <1>2, <2>1
  <2> QED
    BY <2>2
<1>4. /\ k \in Memories /\ k.frames = m.frames /\ k.frame_pages = m.frame_pages
      /\ k.page_table = m.page_table /\ k.pages_used = m.pages_used
      /\ k.free_frame_count = m.free_frame_count - 1
  BY <1>1, <1>3 DEF Memories
<1> HIDE DEF k
<1>5. PagesCounted(k) /\ k.page_table[p][page] = None
  BY <1>4 DEF Sound, PagesCounted
<1>6. n \in Memories /\ PagesCounted(n) /\ Loads(n, k, p, page, f)
  BY <1>1, <1>4, <1>5, LoadFields
<1> HIDE DEF n
<1>7. /\ n.free_frame_count = m.free_frame_count - 1
      /\ \A q \in Pids, g \in Pages :
            n.page_table[q][g] = IF q = p /\ g = page THEN f ELSE m.page_table[q][g]
  BY <1>4, <1>6 DEF Loads
<1>8. \A h \in Frames : /\ n.frames[h] = IF h = f THEN p ELSE m.frames[h]
                        /\ n.frame_pages[h] = IF h = f THEN page ELSE m.frame_pages[h]
  BY <1>4, <1>6 DEF Loads
<1>9. Matching(n)
  <2> SUFFICES ASSUME NEW h \in Frames, NEW q \in Pids, NEW g \in Pages
               PROVE  (n.frames[h] = q /\ n.frame_pages[h] = g) <=> n.page_table[q][g] = h
    BY DEF Matching
  <2>1. (m.frames[h] = q /\ m.frame_pages[h] = g) <=> m.page_table[q][g] = h
    BY DEF Sound, Matching
  <2>2. f \in Frames /\ m.frames[f] # q /\ None # h
    BY <1>1, FiniteTables
  <2> QED
    BY <1>7, <1>8, <2>1, <2>2
<1>10. Paired(n)
  BY <1>1, <1>8, FiniteTables DEF Paired, Sound
<1>11. FramesCounted(n)
  <2>1. Free(n) = Free(m) \ {f}
    BY <1>1, <1>8 DEF Free
  <2> QED
    BY <1>2, <1>7, <2>1, FS_RemoveElement DEF Sound, FramesCounted
<1>12. Sound(n)
  BY <1>6, <1>9, <1>10, <1>11 DEF Sound
<1>13. \A q \in Pids, g \in Pages : m.page_table[q][g] # None => n.page_table[q][g] # None
  BY <1>1, <1>7, FiniteTables
<1> QED
  BY <1>12, <1>13 DEF n, k

\* The page of p takes the frame f from the page that is in it.
LEMMA ReplaceSound ==
    ASSUME NEW m, Sound(m), NEW p \in Pids, NEW page \in Pages, NEW now \in 0..MaxTick,
           m.page_table[p][page] = None, Free(m) = {}, NEW f \in Frames
    PROVE  LET n == Invalidate(Load(m, p, page, f, now), m.frames[f], m.frame_pages[f])
           IN  /\ Sound(n)
               /\ \A q \in Pids, g \in Pages :
                     m.page_table[q][g] # None /\ n.page_table[q][g] = None =>
                         m.page_table[q][g] = f
<1> DEFINE l == Load(m, p, page, f, now)
           owner == m.frames[f]
           lost == m.frame_pages[f]
           n == Invalidate(l, owner, lost)
<1>1. /\ m \in Memories /\ NoPid \notin Pids
      /\ m.frames \in [Frames -> Pids \cup {NoPid}] /\ m.frame_pages \in [Frames -> Pages \cup {None}]
      /\ m.page_table \in [Pids -> [Pages -> Frames \cup {None}]]
      /\ \A h \in Frames : m.frames[h] # NoPid
  BY MemoryAssumption DEF Sound, Free, Memories
<1>2. owner \in Pids /\ lost \in Pages
  BY <1>1, FiniteTables DEF Sound, Paired
<1>3. m.page_table[owner][lost] = f
  BY <1>2 DEF Sound, Matching
<1>4. f # None /\ ~ (owner = p /\ lost = page)
  BY <1>3, FiniteTables
<1> HIDE DEF owner, lost
<1>5. l \in Memories /\ PagesCounted(l) /\ Loads(l, m, p, page, f)
  BY <1>1, LoadFields DEF Sound
<1> HIDE DEF l
<1>6. \A q \in Pids, g \in Pages :
         l.page_table[q][g] = IF q = p /\ g = page THEN f ELSE m.page_table[q][g]
  BY <1>5 DEF Loads
<1>7. l.page_table[owner][lost] # None
  BY <1>2, <1>3, <1>4, <1>6
<1>8. n \in Memories /\ PagesCounted(n) /\ Strikes(n, l, owner, lost)
  BY <1>2, <1>5, <1>7, InvalidateFields
<1> HIDE DEF n
<1>9. \A q \in Pids, g \in Pages :
         n.page_table[q][g] = IF q = owner /\ g = lost THEN None
                              ELSE IF q = p /\ g = page THEN f ELSE m.page_table[q][g]
  BY <1>6, <1>8 DEF Strikes
<1>10. /\ n.free_frame_count = m.free_frame_count
       /\ \A h \in Frames : /\ n.frames[h] = IF h = f THEN p ELSE m.frames[h]
                           /\ n.frame_pages[h] = IF h = f THEN page ELSE m.frame_pages[h]
  BY <1>5, <1>8 DEF Loads, Strikes
<1>11. Matching(n)
  <2> SUFFICES ASSUME NEW h \in Frames, NEW q \in Pids, NEW g \in Pages
               PROVE  (n.frames[h] = q /\ n.frame_pages[h] = g) <=> n.page_table[q][g] = h
    BY DEF Matching
  <2>1. /\ (m.frames[h] = q /\ m.frame_pages[h] = g) <=> m.page_table[q][g] = h
        /\ (m.frames[f] = q /\ m.frame_pages[f] = g) <=> m.page_table[q][g] = f
    BY DEF Sound, Matching
  <2>2. None # h /\ owner = m.frames[f] /\ lost = m.frame_pages[f]
    BY FiniteTables DEF owner, lost
  <2>3. CASE h = f
    BY <1>4, <1>9, <1>10, <2>1, <2>2, <2>3
  <2>4. CASE h # f
    BY <1>4, <1>9, <1>10, <2>1, <2>2, <2>4
  <2> QED
    BY <2>3, <2>4
<1>12. Paired(n)
  BY <1>1, <1>10, FiniteTables DEF Paired, Sound
<1>13. FramesCounted(n)
  <2>1. Free(n) = Free(m)
    BY <1>1, <1>10 DEF Free
  <2> QED
    BY <1>10, <2>1 DEF Sound, FramesCounted
<1>14. Sound(n)
  BY <1>8, <1>11, <1>12, <1>13 DEF Sound
<1>15. ASSUME NEW q \in Pids, NEW g \in Pages, m.page_table[q][g] # None, n.page_table[q][g] = None
       PROVE  m.page_table[q][g] = f
  BY <1>3, <1>4, <1>9, <1>15
<1> QED
  BY <1>14, <1>15 DEF n, l, owner, lost

\* mem_allocate_page keeps both descriptions of the mapping in step, and takes a
\* frame away only when it has to, and the one that was used longest ago.
LEMMA AllocateSound ==
    ASSUME NEW m, Sound(m), NEW p \in Pids, NEW page \in Pages, NEW now \in 0..MaxTick
    PROVE  LET n == mem_allocate_page(m, p, page, now)
           IN  /\ Sound(n)
               /\ \A q \in Pids, g \in Pages :
                     m.page_table[q][g] # None /\ n.page_table[q][g] = None =>
                        /\ Free(m) = {}
                        /\ \A h \in Frames :
                              m.last_access[m.page_table[q][g]] <= m.last_access[h]
<1> DEFINE n == mem_allocate_page(m, p, page, now)
<1>1. CASE m.page_table[p][page] # None
  <2>1. n = m
    BY <1>1 DEF mem_allocate_page
  <2> QED
    BY <2>1
<1>2. CASE m.page_table[p][page] = None /\ Free(m) # {}
  <2>1. Free(m) \in SUBSET Nat
    BY FiniteTables DEF Free
  <2>2. \E f \in Free(m) : \A h \in Free(m) : f <= h
    BY <1>2, <2>1, LeastNatural
  <2>3. Min(Free(m)) \in Free(m)
    BY <2>2 DEF Min
  <2>4. n = Load([m EXCEPT !.free_frame_count = @ - 1], p, page, Min(Free(m)), now)
    BY <1>2 DEF mem_allocate_page
  <2> HIDE DEF n
  <2>5. /\ Sound(n)
        /\ \A q \in Pids, g \in Pages : m.page_table[q][g] # None => n.page_table[q][g] # None
    BY <1>2, <2>3, <2>4, FillSound
  <2> QED
    BY <2>5 DEF n
<1>3. CASE m.page_table[p][page] = None /\ Free(m) = {}
  <2> DEFINE f == select_lru_victim(m)
  <2>1. f \in Frames /\ \A h \in Frames : m.last_access[f] <= m.last_access[h]
    BY VictimExists DEF Sound
  <2>2. n = Invalidate(Load(m, p, page, f, now), m.frames[f], m.frame_pages[f])
    BY <1>3 DEF mem_allocate_page
  <2> HIDE DEF n, f
  <2>3. /\ Sound(n)
        /\ \A q \in Pids, g \in Pages :
              m.page_table[q][g] # None /\ n.page_table[q][g] = None => m.page_table[q][g] = f
    BY <1>3, <2>1, <2>2, ReplaceSound
  <2> QED
    BY <1>3, <2>1, <2>3 DEF n
<1> QED
  BY <1>1, <1>2, <1>3

\* mem_free_process gives back every frame of p and forgets every page of it.
LEMMA FreeSound ==
    ASSUME NEW m, Sound(m), NEW p \in Pids
    PROVE  LET n == mem_free_process(m, p)
           IN  /\ Sound(n)
               /\ \A q \in Pids, g \in Pages :
                     m.page_table[q][g] # None /\ n.page_table[q][g] = None =>
                        Cardinality(Free(n)) > Cardinality(Free(m))
<1> DEFINE held == {f \in Frames : m.frames[f] = p}
           a == [f \in Frames |-> IF f \in held THEN NoPid ELSE m.frames[f]]
           b == [f \in Frames |-> IF f \in held THEN None ELSE m.frame_pages[f]]
           c == m.free_frame_count + Cardinality(held)
           d == [m.page_table EXCEPT ![p] = [g \in Pages |-> None]]
           e == [m.pages_used EXCEPT ![p] = 0]
           n == mem_free_process(m, p)
<1>1. /\ m \in Memories /\ p # NoPid
      /\ m.frames \in [Frames -> Pids \cup {NoPid}] /\ m.frame_pages \in [Frames -> Pages \cup {None}]
      /\ m.page_table \in [Pids -> [Pages -> Frames \cup {None}]]
      /\ m.pages_used \in [Pids -> 0..MaxPages] /\ MaxPages \in Nat
  BY MemoryAssumption DEF Sound, Memories
<1>2. n = [m EXCEPT !.frames = a, !.frame_pages = b, !.free_frame_count = c,
                    !.page_table = d, !.pages_used = e]
  BY DEF mem_free_process
<1>3. /\ IsFiniteSet(held) /\ Cardinality(held) \in Nat
      /\ (held # {} => Cardinality(held) > 0)
      /\ Cardinality(Free(m)) \in Nat /\ Free(m) \cup held \in SUBSET Frames
      /\ Cardinality(Free(m) \cup held) = Cardinality(Free(m)) + Cardinality(held)
  <2>1. held \in SUBSET Frames /\ Free(m) \in SUBSET Frames /\ Free(m) \cap held = {}
    BY <1>1 DEF Free
  <2>2. IsFiniteSet(held) /\ IsFiniteSet(Free(m))
    BY <2>1, CountFrames
  <2>3. Cardinality(held) \in Nat /\ Cardinality(Free(m)) \in Nat /\ (Cardinality(held) = 0 <=> held = {})
    BY <2>2, FS_CardinalityType, FS_EmptySet
  <2>4. Cardinality(Free(m) \cup held) = Cardinality(Free(m)) + Cardinality(held)
    BY <2>1, <2>2, DisjointCardinality
  <2> HIDE DEF held
  <2> QED
    BY <2>1, <2>2, <2>3, <2>4
<1>4. c = Cardinality(Free(m) \cup held) /\ c \in 0..FrameCount
  <2>1. Cardinality(Free(m) \cup held) \in 0..FrameCount
    BY <1>3, CountFrames
  <2>2. m.free_frame_count = Cardinality(Free(m))
    BY DEF Sound, FramesCounted
  <2> HIDE DEF held
  <2> QED
    BY <1>3, <2>1, <2>2
<1>5. /\ a \in [Frames -> Pids \cup {NoPid}] /\ b \in [Frames -> Pages \cup {None}]
      /\ d \in [Pids -> [Pages -> Frames \cup {None}]] /\ e \in [Pids -> 0..MaxPages]
  BY <1>1
<1> HIDE DEF n
<1>6. /\ n \in Memories /\ n.free_frame_count = c
      /\ n.frames = a /\ n.frame_pages = b /\ n.page_table = d /\ n.pages_used = e
  <2> HIDE DEF a, b, c, d, e
  <2> QED
    BY <1>1, <1>2, <1>4, <1>5 DEF Memories
<1>7. \A h \in Frames : /\ n.frames[h] = IF m.frames[h] = p THEN NoPid ELSE m.frames[h]
                        /\ n.frame_pages[h] = IF m.frames[h] = p THEN None ELSE m.frame_pages[h]
  BY <1>6
<1>8. /\ \A q \in Pids, g \in Pages :
            n.page_table[q][g] = IF q = p THEN None ELSE m.page_table[q][g]
      /\ \A q \in Pids : q # p => n.page_table[q] = m.page_table[q]
      /\ \A q \in Pids : n.pages_used[q] = IF q = p THEN 0 ELSE m.pages_used[q]
  BY <1>1, <1>6
<1>9. Matching(n)
  <2> SUFFICES ASSUME NEW h \in Frames, NEW q \in Pids, NEW g \in Pages
               PROVE  (n.frames[h] = q /\ n.frame_pages[h] = g) <=> n.page_table[q][g] = h
    BY DEF Matching
  <2>1. (m.frames[h] = q /\ m.frame_pages[h] = g) <=> m.page_table[q][g] = h
    BY DEF Sound, Matching
  <2>2. h # None /\ q # NoPid
    BY MemoryAssumption, FiniteTables
  <2> QED
    BY <1>7, <1>8, <2>1, <2>2
<1>10. Paired(n)
  BY <1>1, <1>7, FiniteTables DEF Paired, Sound
<1>11. Free(n) = Free(m) \cup held
  BY <1>1, <1>7 DEF Free
<1>12. FramesCounted(n)
  BY <1>4, <1>6, <1>11 DEF FramesCounted
<1>13. PagesCounted(n)
  <2> SUFFICES ASSUME NEW q \in Pids PROVE n.pages_used[q] = Cardinality(Resident(n.page_table[q]))
    BY DEF PagesCounted
  <2>1. CASE q = p
    <3>1. Resident(n.page_table[q]) = {}
      BY <1>8, <2>1 DEF Resident
    <3> QED
      BY <1>8, <2>1, <3>1, FS_EmptySet
  <2>2. CASE q # p
    BY <1>8, <2>2 DEF Sound, PagesCounted
  <2> QED
    BY <2>1, <2>2
<1>14. Sound(n)
  BY <1>6, <1>9, <1>10, <1>12, <1>13 DEF Sound
<1>15. ASSUME NEW q \in Pids, NEW g \in Pages, m.page_table[q][g] # None, n.page_table[q][g] = None
       PROVE  Cardinality(Free(n)) > Cardinality(Free(m))
  <2>1. q = p
    BY <1>8, <1>15
  <2>2. m.page_table[p][g] \in Frames /\ m.frames[m.page_table[p][g]] = p
    BY <1>1, <1>15, <2>1 DEF Sound, Matching
  <2>3. held # {}
    BY <2>2
  <2> HIDE DEF held
  <2> QED
    BY <1>3, <1>11, <2>3
<1> QED
  BY <1>14, <1>15 DEF n

-----------------------------------------------------------------------------
(* The theorems *)

LEMMA InitSound == Sound(mem_init)
<1> SUFFICES ASSUME NEW m, m = mem_init PROVE Sound(m)
  OBVIOUS
<1>1. /\ FrameCount \in Nat /\ MaxPages \in Nat /\ MaxTick \in Nat /\ NoPid \notin Pids
      /\ m = mem_init
  BY MemoryAssumption
<1>2. m \in Memories
  BY <1>1 DEF mem_init, Memories
<1>3. Matching(m) /\ Paired(m)
  BY <1>1, FiniteTables DEF mem_init, Matching, Paired
<1>4. FramesCounted(m)
  <2>1. Free(m) = Frames /\ m.free_frame_count = FrameCount
    BY <1>1 DEF mem_init, Free
  <2> QED
    BY <2>1, FiniteTables DEF FramesCounted
<1>5. PagesCounted(m)
  <2> SUFFICES ASSUME NEW p \in Pids
               PROVE  m.pages_used[p] = Cardinality(Resident(m.page_table[p]))
    BY DEF PagesCounted
  <2>1. m.pages_used[p] = 0 /\ Resident(m.page_table[p]) = {}
    BY <1>1 DEF mem_init, Resident
  <2> QED
    BY <2>1, FS_EmptySet
<1> QED
  BY <1>2, <1>3, <1>4, <1>5 DEF Sound

LEMMA InitIInv == Init => IInv
BY InitSound, MemoryAssumption DEF Init, IInv

\* Why a page of q may be taken away by this step.
Justified ==
    \A p \in Pids, page \in Pages :
        mem.page_table[p][page] # None /\ mem'.page_table[p][page] = None =>
            \/ Cardinality(Free(mem')) > Cardinality(Free(mem))
            \/ /\ Free(mem) = {}
               /\ \A h \in Frames : mem.last_access[mem.page_table[p][page]] <= mem.last_access[h]

\* A page that is touched only ages the frame it is in.
LEMMA TouchSound ==
    ASSUME NEW m, Sound(m), NEW p \in Pids, NEW page \in Pages, NEW now \in 0..MaxTick,
           m.page_table[p][page] # None
    PROVE  Sound(Touch(m, p, page, now)) /\ Touch(m, p, page, now).page_table = m.page_table
<1> DEFINE n == Touch(m, p, page, now)
           times == [m.last_access EXCEPT ![m.page_table[p][page]] = now]
<1>1. m \in Memories /\ m.page_table[p][page] \in Frames
  BY DEF Sound, Memories
<1>2. times \in [Frames -> 0..MaxTick]
  BY <1>1 DEF Memories
<1>3. n = [m EXCEPT !.last_access = times]
  BY DEF Touch
<1> HIDE DEF times, n
<1>4. /\ n \in Memories /\ n.frames = m.frames /\ n.frame_pages = m.frame_pages
      /\ n.page_table = m.page_table /\ n.pages_used = m.pages_used
      /\ n.free_frame_count = m.free_frame_count
  BY <1>1, <1>2, <1>3 DEF Memories
<1> QED
  BY <1>4 DEF n, Sound, Matching, Paired, PagesCounted, FramesCounted, Free

LEMMA NextIInv == IInv /\ [Next]_vars => IInv' /\ Justified
<1> SUFFICES ASSUME IInv, [Next]_vars PROVE IInv' /\ Justified
  OBVIOUS
<1>1. /\ Sound(mem) /\ faults \in SUBSET (Pids \X Pages) /\ tick \in 0..MaxTick /\ MaxTick \in Nat
      /\ MaxPages \in Nat
  BY MemoryAssumption DEF IInv
<1>2. ASSUME mem' = mem
      PROVE  Sound(mem') /\ Justified
  BY <1>1, <1>2 DEF Justified
<1>3. ASSUME NEW p \in Pids, Access(p)
      PROVE  IInv' /\ Justified
  <2> DEFINE page == mem_get_page_count(mem, p)
  <2>1. page \in Pages
    <3>1. page = Cardinality(Resident(mem.page_table[p])) /\ page < MaxPages
      BY <1>3 DEF Access, mem_get_page_count, Resident
    <3>2. mem.page_table[p] \in [Pages -> Frames \cup {None}]
      BY <1>1 DEF Sound, Memories
    <3>3. Cardinality(Resident(mem.page_table[p])) \in 0..MaxPages
      BY <3>2, CountPages
    <3> QED
      BY <1>1, <3>1, <3>3 DEF Pages
  <2>2. CASE mem.page_table[p][page] = None
    <3>1. mem' = mem /\ faults' = faults \cup {<<p, page>>} /\ tick' = tick
      BY <1>3, <2>2 DEF Access
    <3> HIDE DEF page
    <3> QED
      BY <1>1, <1>2, <2>1, <3>1 DEF IInv
  <2>3. CASE mem.page_table[p][page] # None
    <3>1. mem' = Touch(mem, p, page, tick) /\ faults' = faults /\ tick' = tick
      BY <1>3, <2>3 DEF Access
    <3> HIDE DEF page
    <3>2. Sound(mem') /\ mem'.page_table = mem.page_table
      BY <1>1, <2>1, <2>3, <3>1, TouchSound
    <3> QED
      BY <1>1, <3>1, <3>2 DEF IInv, Justified
  <2> QED
    BY <2>2, <2>3
<1>4. ASSUME NEW p \in Pids, FreeProcess(p)
      PROVE  IInv' /\ Justified
  <2>1. mem' = mem_free_process(mem, p) /\ faults' \in SUBSET faults /\ tick' = tick
    BY <1>4 DEF FreeProcess
  <2>2. Sound(mem') /\ Justified
    BY <1>1, <2>1, FreeSound DEF Justified
  <2> QED
    BY <1>1, <2>1, <2>2 DEF IInv
<1>5. ASSUME NEW p \in Pids, NEW page \in Pages, CompleteFault(p, page)
      PROVE  IInv' /\ Justified
  <2>1. mem' = mem_allocate_page(mem, p, page, tick) /\ faults' \in SUBSET faults /\ tick' = tick
    BY <1>5 DEF CompleteFault
  <2>2. Sound(mem') /\ Justified
    BY <1>1, <2>1, AllocateSound DEF Justified
  <2> QED
    BY <1>1, <2>1, <2>2 DEF IInv
<1>6. CASE NextTick
  <2>1. mem' = mem /\ faults' = faults /\ tick' \in 0..MaxTick
    BY <1>1, <1>6 DEF NextTick
  <2> QED
    BY <1>1, <1>2, <2>1 DEF IInv
<1>7. CASE UNCHANGED vars
  BY <1>1, <1>2, <1>7 DEF vars, IInv
<1> QED
  BY <1>3, <1>4, <1>5, <1>6, <1>7 DEF Next

\* Every reachable state satisfies the invariant.
THEOREM Invariance == Spec => []IInv
<1>1. IInv /\ [Next]_vars => IInv'
  BY NextIInv
<1> QED
  BY <1>1, InitIInv, PTL DEF Spec

\* The records keep their shape: every index stays in its table, and neither
\* counter leaves its range.
THEOREM MemoryTypeCorrect == Spec => []TypeOK
<1>1. IInv => TypeOK
  BY DEF IInv, Sound, TypeOK
<1> QED
  BY <1>1, Invariance, PTL

\* The frame table of memory.c and the page tables in the PCBs, which memory.c
\* and the kernel write separately, never describe different mappings.
THEOREM TablesMatch == Spec => []FramesMatchPageTables
<1>1. IInv => FramesMatchPageTables
  BY DEF IInv, Sound, Matching, FramesMatchPageTables
<1> QED
  BY <1>1, Invariance, PTL

\* free_frame_count and pages_used never drift from what they count.
THEOREM CountersCount == Spec => []CountersAreExact
<1>1. IInv => CountersAreExact
  BY DEF IInv, Sound, FramesCounted, PagesCounted, CountersAreExact, mem_get_page_count, Resident
<1> QED
  BY <1>1, Invariance, PTL

\* A resident page is lost only to a process that is freed, or to a fault in a
\* full memory in which no page has been left untouched for longer.
THEOREM EvictionIsLeastRecentlyUsed == Spec => EvictsLeastRecentlyUsed
<1> DEFINE Lost(p, page) ==
        LET f == mem.page_table[p][page]
        IN  f # None /\ mem'.page_table[p][page] = None =>
              \/ Cardinality(Free(mem')) > Cardinality(Free(mem))
              \/ /\ Free(mem) = {}
                 /\ \A h \in Frames : mem.last_access[f] <= mem.last_access[h]
<1>1. IInv /\ [Next]_vars => [\A p \in Pids, page \in Pages : Lost(p, page)]_vars
  BY NextIInv DEF Justified
<1> QED
  BY <1>1, Invariance, PTL DEF Spec, EvictsLeastRecentlyUsed
=============================================================================
