------------------------- MODULE BoundedBufferProofs -------------------------
(* What holds of the sensor buffer for every set of processes, every ring     *)
(* size and every length of the queues that BufferAssumption allows.          *)
EXTENDS BoundedBuffer, DataProofs

-----------------------------------------------------------------------------
(* The ring and the waiting queues *)

\* Where the slot is that lies k past s, and how in and out move.
LEMMA SlotAt ==
    ASSUME NEW s \in Slots, NEW k \in 0..Size
    PROVE  /\ (s + k) % Size = IF s + k < Size THEN s + k ELSE s + k - Size
           /\ (s + k) % Size \in Slots
BY BufferAssumption, RingAt DEF Slots

LEMMA SlotMoves ==
    ASSUME NEW out \in Slots, NEW n \in 0..Size
    PROVE  /\ n < Size => (((out + n) % Size) + 1) % Size = (out + (n + 1)) % Size
           /\ n > 0 => (out + n) % Size = (((out + 1) % Size) + (n - 1)) % Size
BY BufferAssumption, RingMoves DEF Slots

\* A queue in which nobody stands twice is no longer than there are processes,
\* and has room for one who does not stand in it.
LEMMA QueueHasRoom ==
    ASSUME NEW w \in Seq(Pids), IsInjective(w)
    PROVE  /\ Len(w) <= MaxProcs
           /\ \A p \in Pids : ~ Contains(w, p) => Len(w) < MaxProcs
BY InjectiveLength, BufferAssumption

-----------------------------------------------------------------------------
(* The operations between two calls, when the mutex is free *)

Conditions == {"not_full", "not_empty"}

\* The ring of c is that of b.
SameRing(b, c) == /\ c.slot = b.slot /\ c.in = b.in
                  /\ c.out = b.out /\ c.count = b.count

LEMMA UnlockHeld ==
    ASSUME NEW b \in Buffers, b.owner = NoPid, b.wait["mutex"] = << >>, NEW p \in Pids
    PROVE  mutex_unlock([b EXCEPT !.owner = p]) = b
BY DEF mutex_unlock, DropFirst, Buffers, Queues

LEMMA RegisterSound ==
    ASSUME NEW b, Sound(b), NEW q \in Conditions, NEW p \in Pids
    PROVE  LET c == Register(b, q, p)
           IN  /\ Sound(c) /\ SameRing(b, c)
               /\ Contains(c.wait[q], p)
               /\ \A r \in Queues : r # q => c.wait[r] = b.wait[r]
               /\ \A r \in Queues : \A x : Contains(b.wait[r], x) => Contains(c.wait[r], x)
<1> DEFINE c == Register(b, q, p)
           w == b.wait[q]
<1>1. /\ b \in Buffers /\ b.owner = NoPid /\ b.wait["mutex"] = << >>
      /\ w \in Seq(Pids) /\ IsInjective(w) /\ q \in Queues /\ q # "mutex"
      /\ \A r \in Queues : b.wait[r] \in Seq(Pids) /\ IsInjective(b.wait[r])
      /\ b.wait[q] = w
  BY DEF Sound, Buffers, Queues, Conditions
<1> HIDE DEF w
<1>2. CASE Contains(w, p)
  BY <1>1, <1>2 DEF Register, SameRing
<1>3. CASE ~ Contains(w, p)
  <2>1. Len(w) < MaxProcs /\ Len(w) \in Nat
    BY <1>1, <1>3, QueueHasRoom
  <2>2. ~ (Len(w) >= Capacity(q))
    BY <1>1, <2>1, BufferAssumption DEF Capacity
  <2>3. c = [b EXCEPT !.wait[q] = Append(w, p)]
    BY <1>1, <1>3, <2>2 DEF Register
  <2>4. /\ Append(w, p) \in Seq(Pids) /\ IsInjective(Append(w, p))
        /\ \A x : Contains(Append(w, p), x) <=> Contains(w, x) \/ x = p
    BY <1>1, <1>3, QueueAppend
  <2> HIDE DEF c
  <2>5. /\ c \in Buffers /\ SameRing(b, c) /\ c.owner = b.owner
        /\ c.wait[q] = Append(w, p) /\ \A r \in Queues : r # q => c.wait[r] = b.wait[r]
    BY <1>1, <2>3, <2>4 DEF Buffers, SameRing
  <2>6. \A r \in Queues : IsInjective(c.wait[r])
    BY <1>1, <2>4, <2>5
  <2>7. Sound(c)
    BY <1>1, <2>5, <2>6 DEF Sound, SameRing, Ring, Queues
  <2>8. \A r \in Queues : \A x : Contains(b.wait[r], x) => Contains(c.wait[r], x)
    <3>1. \A x : Contains(b.wait[q], x) => Contains(c.wait[q], x)
      BY <1>1, <2>4, <2>5
    <3> QED
      BY <2>5, <3>1
  <2> QED
    BY <2>4, <2>5, <2>7, <2>8 DEF c
<1> QED
  BY <1>2, <1>3

\* The end of a call that went through: b is held by p.
LEMMA GrantedSound ==
    ASSUME NEW b \in Buffers, b.wait["mutex"] = << >>, Ring(b),
           \A q \in Queues : IsInjective(b.wait[q]),
           NEW q \in Conditions
    PROVE  LET g == Granted(b, q)
           IN  /\ Sound(g.buffer) /\ SameRing(b, g.buffer) /\ g.ok = TRUE
               /\ b.wait[q] = << >> => g.buffer.wait[q] = << >>
               /\ \A r \in Queues : r # q => g.buffer.wait[r] = b.wait[r]
               /\ \A r \in Queues : \A x : Contains(b.wait[r], x) =>
                      Contains(g.buffer.wait[r], x) \/ x \in ToSet(g.wake)
<1> DEFINE w == b.wait[q]
           t == IF w = << >> THEN w ELSE Tail(w)
           d == DropFirst(b, q)
           c == [d EXCEPT !.owner = NoPid]
           g == Granted(b, q)
<1>1. w \in Seq(Pids) /\ IsInjective(w) /\ q \in Queues /\ q # "mutex" /\ "mutex" \in Queues
  BY DEF Buffers, Queues, Conditions
<1>2. t \in Seq(Pids) /\ IsInjective(t)
  BY <1>1, QueueTail
<1>3. d \in Buffers /\ d.wait = [b.wait EXCEPT ![q] = t] /\ SameRing(b, d)
  <2>1. CASE w = << >>
    BY <1>1, <2>1 DEF DropFirst, SameRing, Buffers
  <2>2. CASE w # << >>
    BY <1>1, <1>2, <2>2 DEF DropFirst, SameRing, Buffers
  <2> QED
    BY <2>1, <2>2
<1>4. d.wait["mutex"] = << >> /\ d.wait[q] = t /\ \A r \in Queues : r # q => d.wait[r] = b.wait[r]
  BY <1>1, <1>3 DEF Buffers
<1>5. mutex_unlock(d) = c /\ FirstWaiter(d, "mutex") = << >>
  BY <1>4 DEF mutex_unlock, DropFirst, FirstWaiter
<1>6. g.buffer = c /\ g.ok = TRUE /\ g.wake = FirstWaiter(b, q) \o << >>
  BY <1>5 DEF Granted
<1> HIDE DEF d
<1>7. c \in Buffers /\ c.owner = NoPid /\ c.wait = d.wait /\ SameRing(b, c)
  BY <1>3, BufferAssumption DEF Buffers, SameRing
<1>8. Sound(c)
  BY <1>1, <1>2, <1>4, <1>7 DEF Sound, SameRing, Ring
<1>9. ASSUME NEW r \in Queues, NEW x, Contains(b.wait[r], x)
      PROVE  Contains(c.wait[r], x) \/ x \in ToSet(g.wake)
  <2>1. CASE r # q
    BY <1>4, <1>7, <1>9, <2>1
  <2>2. CASE r = q
    <3>1. w # << >>
      BY <1>1, <1>9, <2>2 DEF Contains
    <3>2. x = Head(w) \/ Contains(t, x)
      BY <1>1, <1>9, <2>2, <3>1, QueueTail
    <3>3. g.wake = <<Head(w)>>
      BY <1>1, <1>6, <3>1, QueueTail DEF FirstWaiter
    <3>4. Head(w) \in ToSet(g.wake)
      BY <3>3 DEF ToSet
    <3> QED
      BY <1>4, <1>7, <2>2, <3>2, <3>4
  <2> QED
    BY <2>1, <2>2
<1>10. b.wait[q] = << >> => c.wait[q] = << >>
  BY <1>4, <1>7
<1> HIDE DEF c, g
<1> QED
  BY <1>4, <1>6, <1>7, <1>8, <1>9, <1>10 DEF g

-----------------------------------------------------------------------------
(* A call: b is what it finds, ok and wake what it returns, c what it leaves *)

OneSided(b) == b.wait["not_full"] = << >> \/ b.wait["not_empty"] = << >>

\* No registration gets lost but by a report, and who is refused is registered.
CallSound(b, result, p) ==
    LET c == result.buffer
    IN  /\ Sound(c) /\ OneSided(c)
        /\ result.ok \in BOOLEAN
        /\ ~ result.ok => \E q \in Queues : Contains(c.wait[q], p)
        /\ \A q \in Queues : \A x : Contains(b.wait[q], x) =>
               Contains(c.wait[q], x) \/ x \in ToSet(result.wake)

LEMMA RefusedSound ==
    ASSUME NEW b, Sound(b), OneSided(b), NEW q \in Conditions,
           \A r \in Conditions : r # q => b.wait[r] = << >>, NEW p \in Pids
    PROVE  LET result == Refused(cond_wait([b EXCEPT !.owner = p], q, p))
           IN  CallSound(b, result, p) /\ SameRing(b, result.buffer) /\ ~ result.ok
<1> DEFINE c == Register(b, q, p)
           result == Refused(cond_wait([b EXCEPT !.owner = p], q, p))
<1>1. mutex_unlock([b EXCEPT !.owner = p]) = b
  BY UnlockHeld DEF Sound
<1>2. result.buffer = c /\ result.ok = FALSE
  BY <1>1 DEF Refused, cond_wait
<1>3. /\ Sound(c) /\ SameRing(b, c) /\ Contains(c.wait[q], p)
      /\ \A r \in Queues : r # q => c.wait[r] = b.wait[r]
      /\ \A r \in Queues : \A x : Contains(b.wait[r], x) => Contains(c.wait[r], x)
  BY RegisterSound
<1> HIDE DEF c, result
<1>4. OneSided(c) /\ q \in Queues
  BY <1>3 DEF OneSided, Conditions, Queues
<1> QED
  BY <1>2, <1>3, <1>4 DEF CallSound, result

LEMMA ProduceSound ==
    ASSUME NEW b, Sound(b), Settled(b), NEW item \in Items, NEW p \in Pids
    PROVE  LET result == buffer_produce(b, item, p)
               c == result.buffer
           IN  /\ CallSound(b, result, p)
               /\ ~ result.ok => SameRing(b, c)
               /\ result.ok => /\ b.count < Size /\ c.slot = [b.slot EXCEPT ![b.in] = item]
                               /\ c.out = b.out /\ c.count = b.count + 1
<1> DEFINE result == buffer_produce(b, item, p)
           held == [b EXCEPT !.owner = p]
           put == [held EXCEPT !.slot[b.in] = item,
                               !.in = (@ + 1) % Size,
                               !.count = @ + 1]
<1>1. /\ b \in Buffers /\ b.owner = NoPid /\ ~ locked(b) /\ b.wait["mutex"] = << >>
      /\ Ring(b) /\ Size \in Nat \ {0} /\ b.count \in 0..Size
      /\ b.in \in Slots /\ b.out \in Slots /\ p # NoPid
      /\ \A q \in Queues : IsInjective(b.wait[q])
  BY BufferAssumption DEF Sound, locked, Buffers
<1>2. CASE b.count >= Size
  <2>1. result = Refused(cond_wait(held, "not_full", p))
    BY <1>1, <1>2 DEF buffer_produce
  <2>2. b.wait["not_empty"] = << >>
    BY <1>1, <1>2 DEF Settled
  <2>3. "not_full" \in Conditions /\ \A r \in Conditions : r # "not_full" => b.wait[r] = << >>
    BY <2>2 DEF Conditions
  <2> HIDE DEF result
  <2> QED
    BY <2>1, <2>2, <2>3, RefusedSound DEF OneSided, result
<1>3. CASE b.count < Size
  <2>1. result = Granted(put, "not_empty")
    BY <1>1, <1>3 DEF buffer_produce
  <2>2. b.wait["not_full"] = << >>
    BY <1>1, <1>3 DEF Settled
  <2>3. /\ put \in Buffers /\ put.wait = b.wait
        /\ put.slot = [b.slot EXCEPT ![b.in] = item]
        /\ put.in = (b.in + 1) % Size /\ put.out = b.out /\ put.count = b.count + 1
    <3>1. (b.in + 1) % Size \in Slots
      BY <1>1, SlotAt
    <3>2. b.count + 1 \in 0..Size
      BY <1>1, <1>3
    <3> QED
      BY <1>1, <3>1, <3>2 DEF Buffers
  <2>4. Ring(put)
    BY <1>1, <1>3, <2>3, SlotMoves DEF Ring
  <2> HIDE DEF put, result
  <2> DEFINE c == result.buffer
  <2>5. /\ Sound(c) /\ SameRing(put, c) /\ result.ok = TRUE
        /\ \A r \in Queues : r # "not_empty" => c.wait[r] = b.wait[r]
        /\ \A r \in Queues : \A x : Contains(b.wait[r], x) =>
               Contains(c.wait[r], x) \/ x \in ToSet(result.wake)
    <3>1. "not_empty" \in Conditions
      BY DEF Conditions
    <3>2. put.wait["mutex"] = << >> /\ \A r \in Queues : IsInjective(put.wait[r])
      BY <1>1, <2>3
    <3>3. LET g == Granted(put, "not_empty")
          IN  /\ Sound(g.buffer) /\ SameRing(put, g.buffer) /\ g.ok = TRUE
              /\ \A r \in Queues : r # "not_empty" => g.buffer.wait[r] = put.wait[r]
              /\ \A r \in Queues : \A x : Contains(put.wait[r], x) =>
                     Contains(g.buffer.wait[r], x) \/ x \in ToSet(g.wake)
      BY <2>3, <2>4, <3>1, <3>2, GrantedSound
    <3> QED
      BY <2>1, <2>3, <3>3
  <2>6. OneSided(c)
    BY <2>2, <2>5 DEF OneSided, Queues
  <2> QED
    BY <1>3, <2>3, <2>5, <2>6 DEF CallSound, SameRing, result
<1> QED
  BY <1>1, <1>2, <1>3

LEMMA ConsumeSound ==
    ASSUME NEW b, Sound(b), Settled(b), NEW p \in Pids
    PROVE  LET result == buffer_consume(b, p)
               c == result.buffer
           IN  /\ CallSound(b, result, p)
               /\ ~ result.ok => SameRing(b, c)
               /\ result.ok => /\ b.count > 0 /\ c.slot = b.slot
                               /\ c.out = (b.out + 1) % Size /\ c.count = b.count - 1
<1> DEFINE result == buffer_consume(b, p)
           held == [b EXCEPT !.owner = p]
           got == [held EXCEPT !.out = (@ + 1) % Size, !.count = @ - 1]
<1>1. /\ b \in Buffers /\ b.owner = NoPid /\ ~ locked(b) /\ b.wait["mutex"] = << >>
      /\ Ring(b) /\ Size \in Nat \ {0} /\ b.count \in 0..Size
      /\ b.in \in Slots /\ b.out \in Slots /\ p # NoPid
      /\ \A q \in Queues : IsInjective(b.wait[q])
  BY BufferAssumption DEF Sound, locked, Buffers
<1>2. CASE b.count <= 0
  <2>1. result = Refused(cond_wait(held, "not_empty", p))
    BY <1>1, <1>2 DEF buffer_consume
  <2>2. b.wait["not_full"] = << >>
    BY <1>1, <1>2 DEF Settled
  <2>3. "not_empty" \in Conditions /\ \A r \in Conditions : r # "not_empty" => b.wait[r] = << >>
    BY <2>2 DEF Conditions
  <2> HIDE DEF result
  <2> QED
    BY <2>1, <2>2, <2>3, RefusedSound DEF OneSided, result
<1>3. CASE b.count > 0
  <2>1. result = Granted(got, "not_full")
    BY <1>1, <1>3 DEF buffer_consume
  <2>2. b.wait["not_empty"] = << >>
    BY <1>1, <1>3 DEF Settled
  <2>3. /\ got \in Buffers /\ got.wait = b.wait /\ got.slot = b.slot /\ got.in = b.in
        /\ got.out = (b.out + 1) % Size /\ got.count = b.count - 1
    <3>1. (b.out + 1) % Size \in Slots
      BY <1>1, SlotAt
    <3>2. b.count - 1 \in 0..Size
      BY <1>1, <1>3
    <3> QED
      BY <1>1, <3>1, <3>2 DEF Buffers
  <2>4. Ring(got)
    BY <1>1, <1>3, <2>3, SlotMoves DEF Ring
  <2> HIDE DEF got, result
  <2> DEFINE c == result.buffer
  <2>5. /\ Sound(c) /\ SameRing(got, c) /\ result.ok = TRUE
        /\ \A r \in Queues : r # "not_full" => c.wait[r] = b.wait[r]
        /\ \A r \in Queues : \A x : Contains(b.wait[r], x) =>
               Contains(c.wait[r], x) \/ x \in ToSet(result.wake)
    <3>1. "not_full" \in Conditions
      BY DEF Conditions
    <3>2. got.wait["mutex"] = << >> /\ \A r \in Queues : IsInjective(got.wait[r])
      BY <1>1, <2>3
    <3>3. LET g == Granted(got, "not_full")
          IN  /\ Sound(g.buffer) /\ SameRing(got, g.buffer) /\ g.ok = TRUE
              /\ \A r \in Queues : r # "not_full" => g.buffer.wait[r] = got.wait[r]
              /\ \A r \in Queues : \A x : Contains(got.wait[r], x) =>
                     Contains(g.buffer.wait[r], x) \/ x \in ToSet(g.wake)
      BY <2>3, <2>4, <3>1, <3>2, GrantedSound
    <3> QED
      BY <2>1, <2>3, <3>3
  <2>6. OneSided(c)
    BY <2>2, <2>5 DEF OneSided, Queues
  <2> QED
    BY <1>3, <2>3, <2>5, <2>6 DEF CallSound, SameRing, result
<1> QED
  BY <1>1, <1>2, <1>3

-----------------------------------------------------------------------------
(* The clean-up of a process and the end of a tick *)

\* What a call reports is a queue of processes.
LEMMA ReportsArePids ==
    ASSUME NEW b \in Buffers, NEW p
    PROVE  /\ \A item : buffer_produce(b, item, p).wake \in Seq(Pids)
           /\ buffer_consume(b, p).wake \in Seq(Pids)
<1>1. ASSUME NEW w \in Seq(Pids)
      PROVE  (IF w = << >> THEN << >> ELSE <<Head(w)>>) \in Seq(Pids)
  OBVIOUS
<1>2. ASSUME NEW c, c.wait \in [Queues -> Seq(Pids)], NEW q \in Queues
      PROVE  FirstWaiter(c, q) \in Seq(Pids)
  BY <1>1, <1>2, Zenon DEF FirstWaiter
<1>3. ASSUME NEW c, c.wait = b.wait, NEW q \in {"not_full", "not_empty"}
      PROVE  Granted(c, q).wake \in Seq(Pids)
  <2>1. b.wait \in [Queues -> Seq(Pids)] /\ q \in Queues /\ "mutex" \in Queues /\ q # "mutex"
    BY DEF Buffers, Queues
  <2>2. FirstWaiter(c, q) \in Seq(Pids)
    BY <1>2, <1>3, <2>1
  <2>3. DropFirst(c, q).wait["mutex"] = b.wait["mutex"]
    BY <1>3, <2>1 DEF DropFirst
  <2>4. FirstWaiter(DropFirst(c, q), "mutex") = FirstWaiter(b, "mutex")
    BY <2>3, Zenon DEF FirstWaiter
  <2>5. FirstWaiter(b, "mutex") \in Seq(Pids)
    BY <1>2, <2>1
  <2> QED
    BY <2>2, <2>4, <2>5, ConcatProperties DEF Granted
<1>4. << >> \in Seq(Pids)
  OBVIOUS
<1>5. ASSUME NEW c
      PROVE  Refused(c).wake \in Seq(Pids)
  BY <1>4 DEF Refused
<1>6. ASSUME NEW item
      PROVE  buffer_produce(b, item, p).wake \in Seq(Pids)
  <2> DEFINE put == [[b EXCEPT !.owner = p] EXCEPT
                        !.slot[b.in] = item, !.in = (@ + 1) % Size, !.count = @ + 1]
  <2>1. put.wait = b.wait
    BY DEF Buffers
  <2> HIDE DEF put
  <2>2. Granted(put, "not_empty").wake \in Seq(Pids)
    BY <1>3, <2>1
  <2>3. b.count \in Int /\ Size \in Int
    BY BufferAssumption DEF Buffers
  <2> QED
    BY <1>5, <2>2, <2>3 DEF buffer_produce, put
<1>7. buffer_consume(b, p).wake \in Seq(Pids)
  <2> DEFINE got == [[b EXCEPT !.owner = p] EXCEPT !.out = (@ + 1) % Size, !.count = @ - 1]
  <2>1. got.wait = b.wait
    BY DEF Buffers
  <2> HIDE DEF got
  <2>2. Granted(got, "not_full").wake \in Seq(Pids)
    BY <1>3, <2>1
  <2>3. b.count \in Int
    BY BufferAssumption DEF Buffers
  <2> QED
    BY <1>5, <2>2, <2>3 DEF buffer_consume, got
<1> QED
  BY <1>6, <1>7

LEMMA CleanupSound ==
    ASSUME NEW b, Sound(b), NEW p \in Pids
    PROVE  LET c == buffer_release_mutex(buffer_remove_pid(b, p), p)
           IN  /\ Sound(c) /\ SameRing(b, c)
               /\ \A q \in Queues : b.wait[q] = << >> => c.wait[q] = << >>
               /\ \A q \in Queues, x \in Pids :
                      Contains(c.wait[q], x) <=> x # p /\ Contains(b.wait[q], x)
<1> DEFINE kept(q) == Keep(b.wait[q], Pids \ {p})
           c == [b EXCEPT !.wait = [q \in Queues |-> kept(q)]]
<1>1. /\ b \in Buffers /\ b.owner = NoPid /\ b.wait["mutex"] = << >> /\ Ring(b)
      /\ \A q \in Queues : b.wait[q] \in Seq(Pids) /\ IsInjective(b.wait[q])
      /\ "mutex" \in Queues /\ p # NoPid
  BY BufferAssumption DEF Sound, Buffers, Queues
<1>2. ASSUME NEW q \in Queues
      PROVE  /\ kept(q) \in Seq(Pids) /\ IsInjective(kept(q))
             /\ b.wait[q] = << >> => kept(q) = << >>
             /\ \A x \in Pids : Contains(kept(q), x) <=> x # p /\ Contains(b.wait[q], x)
  <2>1. /\ kept(q) \in Seq(Pids) /\ Len(kept(q)) <= Len(b.wait[q])
        /\ \A x \in Pids : Contains(kept(q), x) <=> x \in Pids \ {p} /\ Contains(b.wait[q], x)
        /\ IsInjective(kept(q))
    BY <1>1, KeepProperties
  <2> HIDE DEF kept
  <2>2. b.wait[q] = << >> => kept(q) = << >>
    BY <2>1
  <2> QED
    BY <2>1, <2>2
<1> HIDE DEF kept
<1>3. buffer_remove_pid(b, p) = c
  BY <1>1 DEF buffer_remove_pid, kept, Buffers
<1>4. /\ c \in Buffers /\ c.owner = NoPid /\ SameRing(b, c)
      /\ \A q \in Queues : c.wait[q] = kept(q)
  BY <1>1, <1>2 DEF Buffers, SameRing
<1>5. buffer_release_mutex(c, p) = c
  BY <1>1, <1>4 DEF buffer_release_mutex
<1> HIDE DEF c
<1>6. Sound(c)
  BY <1>1, <1>2, <1>4 DEF Sound, SameRing, Ring
<1> QED
  BY <1>2, <1>3, <1>4, <1>5, <1>6

\* What a wake-up w does to the buffer: queues are emptied, and everyone who
\* stood in one of them is reported.
WakeUp(b, w) ==
    /\ Sound(w.buffer) /\ SameRing(b, w.buffer) /\ w.wake \in Seq(Pids)
    /\ \A q \in Queues : w.buffer.wait[q] \in {<< >>, b.wait[q]}
    /\ \A q \in Queues, x \in Pids : Contains(b.wait[q], x) =>
           Contains(w.buffer.wait[q], x) \/ x \in ToSet(w.wake)

LEMMA BroadcastSound ==
    ASSUME NEW b, Sound(b), NEW q \in Conditions
    PROVE  /\ WakeUp(b, Broadcast(b, q)) /\ Broadcast(b, q).buffer.wait[q] = << >>
           /\ WakeUp(b, Nobody(b))
<1> DEFINE w == b.wait[q]
           c == [b EXCEPT !.wait[q] = << >>]
           wake == Broadcast(b, q).wake
<1>1. /\ b \in Buffers /\ b.owner = NoPid /\ b.wait["mutex"] = << >> /\ Ring(b)
      /\ \A r \in Queues : b.wait[r] \in Seq(Pids) /\ IsInjective(b.wait[r])
      /\ q \in Queues /\ q # "mutex"
  BY DEF Sound, Buffers, Queues, Conditions
<1>2. wake = w
  <2>1. w \in Seq(Pids) /\ IsInjective(w)
    BY <1>1
  <2> HIDE DEF w
  <2>2. Len(w) <= MaxProcs /\ Len(w) \in Nat
    BY <2>1, QueueHasRoom
  <2>3. SubSeq(w, 1, Len(w)) = w
    BY <2>1, SubSeqFull
  <2>4. wake = SubSeq(w, 1, IF Len(w) < MaxProcs THEN Len(w) ELSE MaxProcs)
    BY DEF Broadcast, w
  <2>5. (IF Len(w) < MaxProcs THEN Len(w) ELSE MaxProcs) = Len(w)
    BY <2>2, BufferAssumption
  <2> QED
    BY <2>3, <2>4, <2>5
<1>3. Broadcast(b, q).buffer = c
  BY DEF Broadcast
<1>4. /\ c \in Buffers /\ c.owner = NoPid /\ SameRing(b, c) /\ c.wait[q] = << >>
      /\ \A r \in Queues : r # q => c.wait[r] = b.wait[r]
  <2>1. ASSUME NEW t \in Seq(Pids)
        PROVE  LET d == [b EXCEPT !.wait[q] = t]
               IN  /\ d \in Buffers /\ d.owner = NoPid /\ SameRing(b, d) /\ d.wait[q] = t
                   /\ \A r \in Queues : r # q => d.wait[r] = b.wait[r]
    BY <1>1 DEF Buffers, SameRing
  <2>2. << >> \in Seq(Pids)
    OBVIOUS
  <2> QED
    BY <2>1, <2>2, Zenon
<1> HIDE DEF c
<1>5. \A r \in Queues : IsInjective(c.wait[r])
  <2>1. IsInjective(c.wait[q])
    BY <1>4 DEF IsInjective
  <2> QED
    BY <1>1, <1>4, <2>1
<1>6. Sound(c)
  <2>1. c.wait["mutex"] = << >>
    BY <1>1, <1>4 DEF Queues
  <2>2. Ring(c)
    BY <1>1, <1>4 DEF SameRing, Ring
  <2> QED
    BY <1>4, <1>5, <2>1, <2>2 DEF Sound
<1>7. ASSUME NEW r \in Queues, NEW x \in Pids, Contains(b.wait[r], x), r = q
      PROVE  x \in ToSet(w)
  <2>1. w \in Seq(Pids)
    BY <1>1
  <2> QED
    BY <1>7, <2>1, LenProperties DEF Contains, ToSet
<1>8. WakeUp(b, Broadcast(b, q))
  BY <1>1, <1>2, <1>3, <1>4, <1>6, <1>7 DEF WakeUp
<1>9. WakeUp(b, Nobody(b))
  BY <1>1 DEF WakeUp, Nobody, SameRing
<1> QED
  BY <1>3, <1>4, <1>8, <1>9

LEMMA WakeUpTwice ==
    ASSUME NEW b, NEW e, NEW f, WakeUp(b, e), WakeUp(e.buffer, f)
    PROVE  WakeUp(b, [buffer |-> f.buffer, wake |-> e.wake \o f.wake])
<1> DEFINE w == [buffer |-> f.buffer, wake |-> e.wake \o f.wake]
<1>1. /\ e.wake \o f.wake \in Seq(Pids)
      /\ ToSet(e.wake \o f.wake) = ToSet(e.wake) \cup ToSet(f.wake)
  BY ToSetConcat DEF WakeUp
<1>2. w.buffer = f.buffer /\ w.wake = e.wake \o f.wake
  OBVIOUS
<1> HIDE DEF w
<1>3. ASSUME NEW q \in Queues, NEW x \in Pids, Contains(b.wait[q], x)
      PROVE  Contains(f.buffer.wait[q], x) \/ x \in ToSet(w.wake)
  BY <1>1, <1>2, <1>3 DEF WakeUp
<1>4. SameRing(b, f.buffer) /\ \A q \in Queues : f.buffer.wait[q] \in {<< >>, b.wait[q]}
  BY DEF WakeUp, SameRing
<1> QED
  BY <1>1, <1>2, <1>3, <1>4 DEF WakeUp, w

\* wake_buffer_waiters wakes whoever waits for a condition that holds by then.
LEMMA EndOfTickSound ==
    ASSUME NEW b, Sound(b)
    PROVE  WakeUp(b, wake_buffer_waiters(b)) /\ Settled(wake_buffer_waiters(b).buffer)
<1> DEFINE e == IF b.count > 0 THEN Broadcast(b, "not_empty") ELSE Nobody(b)
           f == IF b.count < Size THEN Broadcast(e.buffer, "not_full") ELSE Nobody(e.buffer)
           m == [buffer |-> DropFirst(f.buffer, "mutex"),
                 wake |-> FirstWaiter(f.buffer, "mutex")]
           r == wake_buffer_waiters(b)
<1>1. "not_empty" \in Conditions /\ "not_full" \in Conditions
  BY DEF Conditions
<1>2. /\ b.owner = NoPid /\ b.count \in 0..Size /\ Size \in Nat
      /\ "not_empty" \in Queues /\ "not_full" \in Queues
  BY BufferAssumption DEF Sound, Buffers, Queues
<1>3. WakeUp(b, e) /\ (b.count > 0 => e.buffer.wait["not_empty"] = << >>)
  BY <1>1, BroadcastSound
<1> HIDE DEF e
<1>4. /\ WakeUp(e.buffer, f)
      /\ b.count < Size => f.buffer.wait["not_full"] = << >>
  <2>1. Sound(e.buffer)
    BY <1>3 DEF WakeUp
  <2> QED
    BY <1>1, <2>1, BroadcastSound
<1> HIDE DEF f
<1>5. /\ e.wake \in Seq(Pids) /\ f.wake \in Seq(Pids)
      /\ f.buffer.wait["mutex"] = << >> /\ SameRing(b, f.buffer)
  BY <1>3, <1>4 DEF WakeUp, Sound, SameRing
<1>6. m.buffer = f.buffer /\ m.wake = << >>
  BY <1>5 DEF DropFirst, FirstWaiter
<1>7. r.buffer = f.buffer /\ r.wake = e.wake \o f.wake \o << >>
  BY <1>2, <1>6 DEF wake_buffer_waiters, locked, e, f
<1>8. r = [buffer |-> f.buffer, wake |-> e.wake \o f.wake \o << >>]
  BY <1>2, <1>6 DEF wake_buffer_waiters, locked, e, f
<1>9. e.wake \o f.wake \o << >> = e.wake \o f.wake
  BY <1>5
<1>10. WakeUp(b, r)
  BY <1>3, <1>4, <1>8, <1>9, WakeUpTwice
<1>11. Settled(f.buffer)
  BY <1>2, <1>3, <1>4, <1>5 DEF Settled, WakeUp, SameRing
<1> QED
  BY <1>7, <1>10, <1>11

-----------------------------------------------------------------------------
(* The inductive invariant *)

\* A call never finds the mutex taken; a process that was refused stands in a
\* queue as long as nobody reports it; the ring is full or empty if somebody
\* waits when a call comes.
IInv ==
    /\ Sound(buffer) /\ OneSided(buffer)
    /\ refused \in SUBSET Pids
    /\ turn \in {"call", "wake"}
    /\ turn = "call" => Settled(buffer)
    /\ \A p \in refused : \E q \in Queues : Contains(buffer.wait[q], p)

LEMMA InitSound ==
    ASSUME NEW item \in Items
    PROVE  LET b == buffer_init(item) IN Sound(b) /\ OneSided(b) /\ Settled(b)
<1> DEFINE b == buffer_init(item)
<1>1. Size \in Nat \ {0} /\ 0 \in 0..Size /\ 0 \in Slots
  BY BufferAssumption DEF Slots
<1>2. << >> \in Seq(Pids) /\ IsInjective(<< >>)
  BY DEF IsInjective
<1>3. /\ b \in Buffers /\ b.owner = NoPid
      /\ \A q \in Queues : b.wait[q] = << >>
      /\ b.in = 0 /\ b.out = 0 /\ b.count = 0
  BY <1>1, <1>2 DEF buffer_init, Buffers
<1>4. Ring(b)
  BY <1>1, <1>3 DEF Ring
<1> QED
  BY <1>2, <1>3, <1>4 DEF Sound, OneSided, Settled, Queues

LEMMA InitIInv == Init => IInv
<1> SUFFICES ASSUME Init PROVE IInv
  OBVIOUS
<1>1. PICK item \in Items : buffer = buffer_init(item)
  BY DEF Init
<1>2. Sound(buffer) /\ OneSided(buffer) /\ Settled(buffer)
  BY <1>1, InitSound
<1> QED
  BY <1>2 DEF Init, IInv

\* Whatever a call returns, the process it refuses stands in a queue and whoever
\* lost his place is reported.
LEMMA ReturnsIInv ==
    ASSUME IInv, NEW p \in Pids, NEW result, CallSound(buffer, result, p), Returns(result, p)
    PROVE  IInv'
<1> DEFINE c == result.buffer
<1>1. /\ buffer' = c /\ turn' = "wake"
      /\ refused' = (IF result.ok THEN refused \ {p} ELSE refused \cup {p}) \ ToSet(result.wake)
  BY DEF Returns
<1>2. /\ Sound(c) /\ OneSided(c) /\ result.ok \in BOOLEAN
      /\ ~ result.ok => \E q \in Queues : Contains(c.wait[q], p)
      /\ \A q \in Queues : \A x : Contains(buffer.wait[q], x) =>
             Contains(c.wait[q], x) \/ x \in ToSet(result.wake)
  BY DEF CallSound
<1>3. refused \in SUBSET Pids /\ \A x \in refused : \E q \in Queues : Contains(buffer.wait[q], x)
  BY DEF IInv
<1> HIDE DEF c
<1>4. ASSUME NEW x \in refused'
      PROVE  \E q \in Queues : Contains(c.wait[q], x)
  <2>1. CASE x \in refused
    BY <1>1, <1>2, <1>3, <1>4, <2>1
  <2>2. CASE x \notin refused
    BY <1>1, <1>2, <1>4, <2>2
  <2> QED
    BY <2>1, <2>2
<1>5. refused' \in SUBSET Pids
  BY <1>1, <1>3
<1> QED
  BY <1>1, <1>2, <1>4, <1>5 DEF IInv, Sound, OneSided, Ring

LEMMA NextIInv == IInv /\ [Next]_vars => IInv'
<1> SUFFICES ASSUME IInv, [Next]_vars PROVE IInv'
  OBVIOUS
<1>1. ASSUME NEW p \in Pids, Produce(p) PROVE IInv'
  <2>1. PICK item \in Items : Returns(buffer_produce(buffer, item, p), p)
    BY <1>1 DEF Produce
  <2>2. Sound(buffer) /\ Settled(buffer)
    BY <2>1 DEF IInv, Returns
  <2>3. CallSound(buffer, buffer_produce(buffer, item, p), p)
    BY <2>2, ProduceSound
  <2> QED
    BY <2>1, <2>3, ReturnsIInv
<1>2. ASSUME NEW p \in Pids, Consume(p) PROVE IInv'
  <2>1. Sound(buffer) /\ Settled(buffer)
    BY <1>2 DEF IInv, Consume, Returns
  <2>2. CallSound(buffer, buffer_consume(buffer, p), p)
    BY <2>1, ConsumeSound
  <2> QED
    BY <1>2, <2>2, ReturnsIInv DEF Consume
<1>3. CASE OtherCommand
  BY <1>3 DEF IInv, OtherCommand
<1>4. ASSUME NEW p \in Pids, Cleanup(p) PROVE IInv'
  <2> DEFINE c == buffer_release_mutex(buffer_remove_pid(buffer, p), p)
  <2>1. buffer' = c /\ refused' = refused \ {p} /\ turn' = "wake"
    BY <1>4 DEF Cleanup
  <2>2. /\ Sound(c)
        /\ \A q \in Queues : buffer.wait[q] = << >> => c.wait[q] = << >>
        /\ \A q \in Queues, x \in Pids :
               Contains(c.wait[q], x) <=> x # p /\ Contains(buffer.wait[q], x)
    BY CleanupSound DEF IInv
  <2> HIDE DEF c
  <2>3. OneSided(c)
    BY <2>2 DEF IInv, OneSided, Queues
  <2>4. ASSUME NEW x \in refused'
        PROVE  \E q \in Queues : Contains(c.wait[q], x)
    BY <2>1, <2>2, <2>4 DEF IInv
  <2> QED
    BY <2>1, <2>2, <2>3, <2>4 DEF IInv
<1>5. CASE EndOfTick
  <2> DEFINE w == wake_buffer_waiters(buffer)
  <2>1. buffer' = w.buffer /\ refused' = refused \ ToSet(w.wake) /\ turn' = "call"
    BY <1>5 DEF EndOfTick
  <2>2. WakeUp(buffer, w) /\ Settled(w.buffer)
    BY EndOfTickSound DEF IInv
  <2> HIDE DEF w
  <2>3. Sound(w.buffer) /\ OneSided(w.buffer)
    BY <2>2 DEF WakeUp, IInv, OneSided, Queues
  <2>4. ASSUME NEW x \in refused'
        PROVE  \E q \in Queues : Contains(w.buffer.wait[q], x)
    BY <2>1, <2>2, <2>4 DEF IInv, WakeUp
  <2> QED
    BY <2>1, <2>2, <2>3, <2>4 DEF IInv
<1>6. CASE UNCHANGED vars
  BY <1>6 DEF vars, IInv
<1> QED
  BY <1>1, <1>2, <1>3, <1>4, <1>5, <1>6 DEF Next

\* Every reachable state satisfies the invariant.
THEOREM Invariance == Spec => []IInv
BY InitIInv, NextIInv, PTL DEF Spec

\* Indices and count stay in the ring, and the mutex is free between two calls,
\* with nobody waiting for it: cond_wait has given it back.
THEOREM BufferTypeCorrect == Spec => [](TypeOK /\ MutexIsFree)
<1>1. IInv => TypeOK /\ MutexIsFree
  BY DEF IInv, Sound, TypeOK, MutexIsFree, locked
<1> QED
  BY <1>1, Invariance, PTL

\* No wake-up is lost in the buffer, and no queue overflows.
THEOREM RefusedStayRegistered == Spec => []RefusedAreRegistered
<1>1. IInv => RefusedAreRegistered
  <2> SUFFICES ASSUME IInv PROVE RefusedAreRegistered
    OBVIOUS
  <2>1. ASSUME NEW q \in Queues
        PROVE  IsInjective(buffer.wait[q]) /\ Len(buffer.wait[q]) <= MaxProcs
    <3>1. buffer.wait[q] \in Seq(Pids) /\ IsInjective(buffer.wait[q])
      BY DEF IInv, Sound, Buffers
    <3> QED
      BY <3>1, QueueHasRoom
  <2> QED
    BY <2>1 DEF IInv, RefusedAreRegistered
<1> QED
  BY <1>1, Invariance, PTL

\* Producers and consumers never wait at the same time, nor into the next tick
\* for a condition that holds.
THEOREM WaitersAreOnOneSide == Spec => []OneSideWaits
<1>1. IInv => OneSideWaits
  BY DEF IInv, OneSided, Settled, OneSideWaits
<1> QED
  BY <1>1, Invariance, PTL

-----------------------------------------------------------------------------
(* The ring is the channel *)

ContentOf(b) == [i \in 1..b.count |-> b.slot[(b.out + i - 1) % Size]]

LEMMA ContentType ==
    ASSUME NEW b \in Buffers
    PROVE  /\ ContentOf(b) \in Seq(Items) /\ Len(ContentOf(b)) = b.count
           /\ \A i \in 1..b.count : ContentOf(b)[i] = b.slot[(b.out + (i - 1)) % Size]
<1>1. b.count \in Nat /\ b.out \in Slots /\ b.slot \in [Slots -> Items] /\ b.count \in 0..Size
  BY BufferAssumption DEF Buffers
<1>2. ASSUME NEW i \in 1..b.count
      PROVE  /\ b.out + i - 1 = b.out + (i - 1)
             /\ (b.out + (i - 1)) % Size \in Slots
  <2>1. i - 1 \in 0..Size
    BY <1>1, BufferAssumption
  <2>2. (b.out + (i - 1)) % Size \in Slots
    BY <1>1, <2>1, SlotAt
  <2> QED
    BY <1>1, <2>2, BufferAssumption DEF Slots
<1>3. ContentOf(b) = [i \in 1..b.count |-> b.slot[(b.out + (i - 1)) % Size]]
  BY <1>2 DEF ContentOf
<1>4. \A i \in 1..b.count : b.slot[(b.out + (i - 1)) % Size] \in Items
  BY <1>1, <1>2
<1> QED
  BY <1>1, <1>3, <1>4

\* The free slot at in is none of those the content is in.
LEMMA PutContent ==
    ASSUME NEW b \in Buffers, Ring(b), b.count < Size, NEW item \in Items,
           NEW c \in Buffers, c.slot = [b.slot EXCEPT ![b.in] = item],
           c.out = b.out, c.count = b.count + 1
    PROVE  ContentOf(c) = Append(ContentOf(b), item)
<1> DEFINE s == ContentOf(b)
           t == ContentOf(c)
<1>1. /\ b.count \in Nat /\ b.out \in Slots /\ b.in \in Slots /\ b.count \in 0..Size
      /\ b.slot \in [Slots -> Items] /\ Size \in Nat \ {0}
  BY BufferAssumption DEF Buffers
<1>2. /\ s \in Seq(Items) /\ Len(s) = b.count
      /\ \A i \in 1..b.count : s[i] = b.slot[(b.out + (i - 1)) % Size]
  BY ContentType
<1>3. /\ t \in Seq(Items) /\ Len(t) = b.count + 1
      /\ \A i \in 1..(b.count + 1) : t[i] = c.slot[(b.out + (i - 1)) % Size]
  BY ContentType
<1> HIDE DEF s, t
<1>4. b.in = IF b.out + b.count < Size THEN b.out + b.count ELSE b.out + b.count - Size
  BY <1>1, SlotAt DEF Ring
<1>5. ASSUME NEW i \in 1..b.count
      PROVE  t[i] = s[i]
  <2> DEFINE slot == (b.out + (i - 1)) % Size
  <2>1. i - 1 \in 0..Size
    BY <1>1
  <2>2. /\ slot = IF b.out + (i - 1) < Size THEN b.out + (i - 1) ELSE b.out + (i - 1) - Size
        /\ slot \in Slots
    BY <1>1, <2>1, SlotAt
  <2>3. t[i] = c.slot[slot] /\ s[i] = b.slot[slot]
    BY <1>1, <1>2, <1>3
  <2> HIDE DEF slot
  <2>4. slot # b.in
    BY <1>1, <1>4, <2>2 DEF Slots
  <2> QED
    BY <1>1, <2>2, <2>3, <2>4
<1>6. t[b.count + 1] = item
  <2>1. t[b.count + 1] = c.slot[(b.out + b.count) % Size]
    <3>1. PICK n \in 1..(b.count + 1) : n = b.count + 1
      BY <1>1
    <3>2. t[n] = c.slot[(b.out + (n - 1)) % Size]
      BY <1>3
    <3>3. n - 1 = b.count
      BY <1>1, <3>1
    <3> QED
      BY <3>1, <3>2, <3>3
  <2>2. (b.out + b.count) % Size = b.in
    BY DEF Ring
  <2> QED
    BY <1>1, <2>1, <2>2
<1>7. /\ Append(s, item) \in Seq(Items) /\ Len(Append(s, item)) = b.count + 1
      /\ \A i \in 1..b.count : Append(s, item)[i] = s[i]
      /\ Append(s, item)[b.count + 1] = item
  BY <1>1, <1>2
<1>8. t = Append(s, item)
  BY <1>1, <1>3, <1>5, <1>6, <1>7, SeqEqual
<1> QED
  BY <1>8 DEF s, t

LEMMA GetContent ==
    ASSUME NEW b \in Buffers, b.count > 0, NEW c \in Buffers, c.slot = b.slot,
           c.out = (b.out + 1) % Size, c.count = b.count - 1
    PROVE  ContentOf(b) # << >> /\ ContentOf(c) = Tail(ContentOf(b))
<1> DEFINE s == ContentOf(b)
           t == ContentOf(c)
<1>1. b.count \in Nat /\ b.out \in Slots /\ b.count \in 0..Size /\ Size \in Nat \ {0}
  BY BufferAssumption DEF Buffers
<1>2. /\ s \in Seq(Items) /\ Len(s) = b.count
      /\ \A i \in 1..b.count : s[i] = b.slot[(b.out + (i - 1)) % Size]
  BY ContentType
<1>3. /\ t \in Seq(Items) /\ Len(t) = b.count - 1
      /\ \A i \in 1..(b.count - 1) : t[i] = b.slot[(c.out + (i - 1)) % Size]
  BY ContentType
<1> HIDE DEF s, t
<1>4. s # << >>
  BY <1>1, <1>2
<1>5. /\ Tail(s) \in Seq(Items) /\ Len(Tail(s)) = b.count - 1
      /\ \A i \in 1..(b.count - 1) : Tail(s)[i] = s[i + 1]
  BY <1>1, <1>2, <1>4
<1>6. ASSUME NEW i \in 1..(b.count - 1)
      PROVE  t[i] = Tail(s)[i]
  <2>1. i \in 0..Size /\ i + 1 \in 1..b.count /\ i + 1 - 1 = i
    BY <1>1
  <2>2. (b.out + i) % Size = (((b.out + 1) % Size) + (i - 1)) % Size
    BY <1>1, <2>1, SlotMoves
  <2>3. s[i + 1] = b.slot[(b.out + (i + 1 - 1)) % Size]
    BY <1>2, <2>1
  <2>4. s[i + 1] = b.slot[(b.out + i) % Size]
    BY <2>1, <2>3
  <2> QED
    BY <1>3, <1>5, <2>2, <2>4
<1>7. t = Tail(s)
  BY <1>3, <1>5, <1>6, SeqEqual
<1> QED
  BY <1>4, <1>7 DEF s, t

LEMMA SameContent ==
    ASSUME NEW b, NEW c, SameRing(b, c)
    PROVE  ContentOf(c) = ContentOf(b)
BY DEF SameRing, ContentOf

\* No item is lost, doubled or overtaken, wherever the ring has wrapped around
\* and whatever the processes do that wait.
THEOREM BufferImplementsChannel == Spec => ImplementsChannel
<1>1. Init => TheChannel!Init
  <2> SUFFICES ASSUME Init PROVE TheChannel!Init
    OBVIOUS
  <2>1. buffer.count = 0
    BY DEF Init, buffer_init
  <2>2. Content = << >>
    BY <2>1 DEF Content
  <2> QED
    BY <2>2 DEF TheChannel!Init
<1>2. IInv /\ IInv' /\ [Next]_vars => [TheChannel!Next]_Content
  <2> SUFFICES ASSUME IInv, IInv', [Next]_vars PROVE [TheChannel!Next]_Content
    OBVIOUS
  <2>1. Content = ContentOf(buffer) /\ Content' = ContentOf(buffer')
    BY DEF Content, ContentOf
  <2>2. /\ Sound(buffer) /\ buffer \in Buffers /\ Ring(buffer) /\ buffer' \in Buffers
        /\ Len(ContentOf(buffer)) = buffer.count
    BY ContentType DEF IInv, Sound
  <2>3. ASSUME NEW p \in Pids, Produce(p) PROVE TheChannel!Next \/ Content' = Content
    <3>1. PICK item \in Items : Returns(buffer_produce(buffer, item, p), p)
      BY <2>3 DEF Produce
    <3> DEFINE result == buffer_produce(buffer, item, p)
    <3>2. Settled(buffer) /\ buffer' = result.buffer
      BY <3>1 DEF IInv, Returns
    <3>3. /\ result.ok \in BOOLEAN
          /\ ~ result.ok => SameRing(buffer, buffer')
          /\ result.ok => /\ buffer.count < Size
                          /\ buffer'.slot = [buffer.slot EXCEPT ![buffer.in] = item]
                          /\ buffer'.out = buffer.out /\ buffer'.count = buffer.count + 1
      BY <2>2, <3>2, ProduceSound DEF CallSound
    <3> HIDE DEF result
    <3>4. CASE result.ok
      <4>1. ContentOf(buffer') = Append(ContentOf(buffer), item)
        BY <2>2, <3>3, <3>4, PutContent
      <4>2. TheChannel!Put(item)
        BY <2>1, <2>2, <3>3, <3>4, <4>1 DEF TheChannel!Put
      <4> QED
        BY <4>2 DEF TheChannel!Next
    <3>5. CASE ~ result.ok
      BY <2>1, <3>3, <3>5, SameContent
    <3> QED
      BY <3>4, <3>5
  <2>4. ASSUME NEW p \in Pids, Consume(p) PROVE TheChannel!Next \/ Content' = Content
    <3> DEFINE result == buffer_consume(buffer, p)
    <3>1. Settled(buffer) /\ buffer' = result.buffer
      BY <2>4 DEF IInv, Consume, Returns
    <3>2. /\ result.ok \in BOOLEAN
          /\ ~ result.ok => SameRing(buffer, buffer')
          /\ result.ok => /\ buffer.count > 0 /\ buffer'.slot = buffer.slot
                          /\ buffer'.out = (buffer.out + 1) % Size
                          /\ buffer'.count = buffer.count - 1
      BY <2>2, <3>1, ConsumeSound DEF CallSound
    <3> HIDE DEF result
    <3>3. CASE result.ok
      <4>1. ContentOf(buffer) # << >> /\ ContentOf(buffer') = Tail(ContentOf(buffer))
        BY <2>2, <3>2, <3>3, GetContent
      <4>2. TheChannel!Get
        BY <2>1, <4>1 DEF TheChannel!Get
      <4> QED
        BY <4>2 DEF TheChannel!Next
    <3>4. CASE ~ result.ok
      BY <2>1, <3>2, <3>4, SameContent
    <3> QED
      BY <3>3, <3>4
  <2>5. ASSUME NEW p \in Pids, Cleanup(p) PROVE Content' = Content
    BY <2>1, <2>2, <2>5, CleanupSound, SameContent DEF Cleanup
  <2>6. CASE OtherCommand
    BY <2>6 DEF OtherCommand, Content
  <2>7. CASE EndOfTick
    BY <2>1, <2>2, <2>7, EndOfTickSound, SameContent DEF EndOfTick, WakeUp
  <2>8. CASE UNCHANGED vars
    BY <2>8 DEF vars, Content
  <2> QED
    BY <2>3, <2>4, <2>5, <2>6, <2>7, <2>8 DEF Next
<1> QED
  BY <1>1, <1>2, Invariance, PTL DEF Spec, ImplementsChannel, TheChannel!Spec
=============================================================================
