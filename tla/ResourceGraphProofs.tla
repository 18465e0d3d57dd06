------------------------- MODULE ResourceGraphProofs -------------------------
(* The grants of deadlock.c, for every number of processes and resources,     *)
(* every assignment of ranks and wishes and every length of the queues.       *)
EXTENDS ResourceGraph, DataProofs

-----------------------------------------------------------------------------
(* The invariant *)

\* p stands where it is found when r becomes free.
Asked(g, p, r) == g.active[p] /\ g.request[p][r] = 1 /\ Contains(g.wait[r], p)

Threads == [Pids -> {"READY", "BLOCKED", "DONE"}]

UnitInv == Sound(graph) /\ phase \in [Pids -> 0..1] /\ thread \in Threads

\* Every queue has room for one more entry.  deadlock_request registers nobody
\* in a full queue, and does not say so.
QueuesHaveRoom == \A r \in Resources : Len(graph.wait[r]) < MaxProcs

LEMMA FieldTypes ==
    ASSUME NEW g \in Graphs
    PROVE  /\ g.allocation \in [Pids -> [Resources -> 0..1]]
           /\ g.request \in [Pids -> [Resources -> 0..1]]
           /\ g.available \in [Resources -> 0..1]
           /\ g.active \in [Pids -> BOOLEAN]
           /\ g.wait \in [Resources -> Seq(Pids)]
           /\ \A p \in Pids, r \in Resources :
                 g.allocation[p][r] = (IF Holds(g, p, r) THEN 1 ELSE 0)
BY DEF Graphs, Holds

-----------------------------------------------------------------------------
(* deadlock_request *)

\* c is g in which p has asked for r.
IsAsked(c, g, p, r) ==
    /\ c \in Graphs /\ c.allocation = g.allocation /\ c.available = g.available
    /\ \A q \in Pids, s \in Resources :
          c.request[q][s] = IF q = p /\ s = r THEN 1 ELSE g.request[q][s]
    /\ \A q \in Pids : q = p \/ g.active[q] => c.active[q]

LEMMA AskedFields ==
    ASSUME NEW g \in Graphs, NEW p \in Pids, NEW r \in Resources
    PROVE  LET c == [g EXCEPT !.request[p][r] = 1, !.active[p] = TRUE]
           IN  IsAsked(c, g, p, r) /\ c.wait = g.wait
<1> DEFINE request == [g.request EXCEPT ![p][r] = 1]
           active == [g.active EXCEPT ![p] = TRUE]
           c == [g EXCEPT !.request = request, !.active = active]
<1>1. request \in [Pids -> [Resources -> 0..1]] /\ active \in [Pids -> BOOLEAN]
  BY FieldTypes
<1>2. /\ \A q \in Pids, s \in Resources :
            request[q][s] = IF q = p /\ s = r THEN 1 ELSE g.request[q][s]
      /\ \A q \in Pids : q = p \/ g.active[q] => active[q]
  BY FieldTypes
<1> HIDE DEF request, active
<1>3. /\ c \in Graphs /\ c.request = request /\ c.active = active
      /\ c.allocation = g.allocation /\ c.available = g.available /\ c.wait = g.wait
  BY <1>1 DEF Graphs
<1> HIDE DEF c
<1>4. IsAsked(c, g, p, r) /\ c.wait = g.wait
  BY <1>2, <1>3 DEF IsAsked
<1> QED
  BY <1>4 DEF c, request, active

\* The unit goes to p, which held none.
LEMMA AllocSound ==
    ASSUME NEW g, Sound(g), NEW p \in Pids, NEW r \in Resources, g.available[r] = 1
    PROVE  LET c == deadlock_alloc(g, p, r)
           IN  /\ Sound(c) /\ c.wait = g.wait
               /\ \A s \in Resources : c.available[s] = IF s = r THEN 0 ELSE g.available[s]
               /\ \A q \in Pids, s \in Resources :
                     c.request[q][s] = IF q = p /\ s = r THEN 0 ELSE g.request[q][s]
               /\ \A q \in Pids : q = p \/ g.active[q] => c.active[q]
<1> DEFINE allocation == [g.allocation EXCEPT ![p][r] = g.allocation[p][r] + 1]
           request == [g.request EXCEPT ![p][r] = 0]
           available == [g.available EXCEPT ![r] = g.available[r] - 1]
           active == [g.active EXCEPT ![p] = TRUE]
           c == deadlock_alloc(g, p, r)
<1>1. g \in Graphs /\ g.allocation[p][r] = 0
  BY FieldTypes DEF Sound, OneUnit
<1>2. c = [g EXCEPT !.available = available, !.allocation = allocation,
                    !.request = request, !.active = active]
  BY DEF deadlock_alloc
<1>3. /\ \A q \in Pids, s \in Resources :
            /\ request[q][s] = (IF q = p /\ s = r THEN 0 ELSE g.request[q][s])
            /\ allocation[q][s] = (IF q = p /\ s = r THEN 1 ELSE g.allocation[q][s])
      /\ \A q \in Pids : q = p \/ g.active[q] => active[q]
      /\ \A s \in Resources : available[s] = IF s = r THEN 0 ELSE g.available[s]
  <2>1. \A q \in Pids, s \in Resources : request[q][s] = IF q = p /\ s = r THEN 0 ELSE g.request[q][s]
    BY <1>1, FieldTypes
  <2>2. \A q \in Pids, s \in Resources :
           allocation[q][s] = IF q = p /\ s = r THEN 1 ELSE g.allocation[q][s]
    BY <1>1, FieldTypes
  <2>3. \A q \in Pids : q = p \/ g.active[q] => active[q]
    BY <1>1, FieldTypes
  <2>4. \A s \in Resources : available[s] = IF s = r THEN 0 ELSE g.available[s]
    BY <1>1, FieldTypes
  <2> QED
    BY <2>1, <2>2, <2>3, <2>4
<1>4. request \in [Pids -> [Resources -> 0..1]] /\ active \in [Pids -> BOOLEAN]
  BY <1>1, FieldTypes
<1>5. allocation \in [Pids -> [Resources -> 0..1]] /\ available \in [Resources -> 0..1]
  BY <1>1, FieldTypes
<1> HIDE DEF request, active, allocation, available, c
<1>6. /\ c \in Graphs /\ c.request = request /\ c.active = active
      /\ c.allocation = allocation /\ c.available = available /\ c.wait = g.wait
  BY <1>1, <1>2, <1>4, <1>5 DEF Graphs
<1>7. \A q \in Pids, s \in Resources : Holds(c, q, s) <=> (q = p /\ s = r) \/ Holds(g, q, s)
  BY <1>3, <1>6 DEF Holds
<1>8. OneUnit(c)
  <2> SUFFICES ASSUME NEW s \in Resources
               PROVE  /\ c.available[s] = 1 => \A q \in Pids : ~ Holds(c, q, s)
                      /\ c.available[s] = 0 => \E q \in Pids : Holds(c, q, s)
                      /\ \A o, q \in Pids : Holds(c, o, s) /\ Holds(c, q, s) => o = q
    BY DEF OneUnit
  <2>1. /\ g.available[s] = 1 => \A q \in Pids : ~ Holds(g, q, s)
        /\ g.available[s] = 0 => \E q \in Pids : Holds(g, q, s)
        /\ \A o, q \in Pids : Holds(g, o, s) /\ Holds(g, q, s) => o = q
    BY DEF Sound, OneUnit
  <2>2. CASE s = r
    BY <1>3, <1>6, <1>7, <2>1, <2>2
  <2>3. CASE s # r
    BY <1>3, <1>6, <1>7, <2>1, <2>3
  <2> QED
    BY <2>2, <2>3
<1> QED
  BY <1>3, <1>6, <1>8 DEF Sound, c

\* What a request leaves behind; p itself is registered when it is refused and
\* the queue has room.
LEMMA RequestSound ==
    ASSUME NEW g, Sound(g), NEW p \in Pids, NEW r \in Resources
    PROVE  LET c == deadlock_request(g, p, r)
           IN  /\ Sound(c)
               /\ \A q \in Pids, s \in Resources :
                     q # p /\ Asked(g, q, s) /\ g.available[s] = 0 =>
                        Asked(c, q, s) /\ c.available[s] = 0
               /\ Result(g, p, r) = "refused" /\ Len(g.wait[r]) < MaxProcs =>
                     Asked(c, p, r) /\ c.available[r] = 0
<1> DEFINE c == deadlock_request(g, p, r)
           asked == [g EXCEPT !.request[p][r] = 1, !.active[p] = TRUE]
           queued == [asked EXCEPT !.wait[r] = Append(@, p)]
<1>1. g \in Graphs /\ g.available[r] \in 0..1 /\ g.allocation[p][r] \in 0..1
  BY FieldTypes DEF Sound
<1>2. IsAsked(asked, g, p, r) /\ asked.wait = g.wait
  BY <1>1, AskedFields
<1>3. c = CASE Result(g, p, r) = "held" -> g
            [] Result(g, p, r) = "granted" -> deadlock_alloc(asked, p, r)
            [] Result(g, p, r) = "refused" ->
                  IF Len(g.wait[r]) < MaxProcs THEN queued ELSE asked
  BY DEF deadlock_request
<1> HIDE DEF asked, c
<1>4. Sound(asked)
  BY <1>2 DEF IsAsked, Sound, OneUnit, Holds
<1>5. CASE Result(g, p, r) = "held"
  <2>1. c = g /\ Result(g, p, r) # "refused"
    BY <1>3, <1>5
  <2> QED
    BY <2>1 DEF c
<1>6. CASE Result(g, p, r) = "granted"
  <2>1. c = deadlock_alloc(asked, p, r) /\ g.available[r] = 1 /\ Result(g, p, r) # "refused"
    BY <1>1, <1>3, <1>6 DEF Result
  <2>2. asked.available[r] = 1
    BY <1>2, <2>1 DEF IsAsked
  <2>3. /\ Sound(c) /\ c.wait = asked.wait
        /\ \A s \in Resources : c.available[s] = IF s = r THEN 0 ELSE asked.available[s]
        /\ \A q \in Pids, s \in Resources :
              c.request[q][s] = IF q = p /\ s = r THEN 0 ELSE asked.request[q][s]
        /\ \A q \in Pids : q = p \/ asked.active[q] => c.active[q]
    BY <1>4, <2>1, <2>2, AllocSound
  <2>4. ASSUME NEW q \in Pids, NEW s \in Resources, q # p, Asked(g, q, s), g.available[s] = 0
        PROVE  Asked(c, q, s) /\ c.available[s] = 0
    BY <1>2, <2>3, <2>4 DEF IsAsked, Asked
  <2> QED
    BY <2>1, <2>3, <2>4 DEF c
<1>7. CASE Result(g, p, r) = "refused"
  <2>1. g.available[r] = 0 /\ c = IF Len(g.wait[r]) < MaxProcs THEN queued ELSE asked
    BY <1>1, <1>3, <1>7 DEF Result
  <2>2. CASE Len(g.wait[r]) < MaxProcs
    <3> DEFINE wait == [asked.wait EXCEPT ![r] = Append(asked.wait[r], p)]
    <3>1. asked \in Graphs /\ g.wait[r] \in Seq(Pids)
      BY <1>1, <1>4, FieldTypes DEF Sound
    <3>2. /\ Append(g.wait[r], p) \in Seq(Pids)
          /\ \A x : Contains(g.wait[r], x) \/ x = p => Contains(Append(g.wait[r], p), x)
      <4>1. PICK t : t = Append(g.wait[r], p)
        OBVIOUS
      <4>2. /\ t \in Seq(Pids) /\ Len(t) = Len(g.wait[r]) + 1 /\ t[Len(g.wait[r]) + 1] = p
            /\ Len(g.wait[r]) \in Nat /\ \A i \in 1..Len(g.wait[r]) : t[i] = g.wait[r][i]
        BY <3>1, <4>1
      <4>3. \A x : Contains(g.wait[r], x) \/ x = p => Contains(t, x)
        BY <4>2 DEF Contains
      <4> QED
        BY <4>1, <4>2, <4>3
    <3>3. /\ wait \in [Resources -> Seq(Pids)]
          /\ \A q \in Pids, s \in Resources : Contains(g.wait[s], q) => Contains(wait[s], q)
          /\ Contains(wait[r], p)
      BY <1>2, <3>1, <3>2, FieldTypes
    <3>4. c = [asked EXCEPT !.wait = wait]
      BY <2>1, <2>2
    <3> HIDE DEF wait
    <3>5. /\ c \in Graphs /\ c.wait = wait /\ c.allocation = asked.allocation
          /\ c.available = asked.available /\ c.request = asked.request /\ c.active = asked.active
      BY <3>1, <3>3, <3>4 DEF Graphs
    <3>6. Sound(c)
      BY <1>4, <3>5 DEF Sound, OneUnit, Holds
    <3>7. /\ c.available = g.available
          /\ \A q \in Pids, s \in Resources :
                c.request[q][s] = IF q = p /\ s = r THEN 1 ELSE g.request[q][s]
          /\ \A q \in Pids : q = p \/ g.active[q] => c.active[q]
      BY <1>2, <3>5 DEF IsAsked
    <3>8. \A q \in Pids, s \in Resources : Contains(g.wait[s], q) => Contains(c.wait[s], q)
      BY <3>3, <3>5
    <3>9. ASSUME NEW q \in Pids, NEW s \in Resources, Asked(g, q, s), g.available[s] = 0
          PROVE  Asked(c, q, s) /\ c.available[s] = 0
      BY <3>7, <3>8, <3>9 DEF Asked
    <3>10. Asked(c, p, r) /\ c.available[r] = 0
      BY <2>1, <3>3, <3>5, <3>7 DEF Asked
    <3> QED
      BY <3>6, <3>9, <3>10 DEF c
  <2>3. CASE ~ (Len(g.wait[r]) < MaxProcs)
    <3>1. c = asked
      BY <2>1, <2>3
    <3>2. \A q \in Pids, s \in Resources :
             Asked(g, q, s) /\ g.available[s] = 0 => Asked(c, q, s) /\ c.available[s] = 0
      BY <1>2, <3>1 DEF IsAsked, Asked
    <3> QED
      BY <1>4, <2>3, <3>1, <3>2 DEF c
  <2> QED
    BY <2>2, <2>3
<1>8. Result(g, p, r) \in {"held", "granted", "refused"}
  BY <1>1 DEF Result
<1> QED
  BY <1>5, <1>6, <1>7, <1>8

-----------------------------------------------------------------------------
(* Clean-up and grants *)

\* A process that goes gives its units back, and nothing else changes.
LEMMA CleanupSound ==
    ASSUME NEW g, Sound(g), NEW p \in Pids
    PROVE  LET c == deadlock_cleanup_process(g, p)
           IN  /\ Sound(c)
               /\ \A q \in Pids, s \in Resources : q # p /\ Asked(g, q, s) => Asked(c, q, s)
<1> DEFINE allocation == [g.allocation EXCEPT ![p] = [r \in Resources |-> 0]]
           request == [g.request EXCEPT ![p] = [r \in Resources |-> 0]]
           available == [r \in Resources |-> g.available[r] + g.allocation[p][r]]
           active == [g.active EXCEPT ![p] = FALSE]
           c == deadlock_cleanup_process(g, p)
<1>1. g \in Graphs
  BY DEF Sound
<1>2. c = [g EXCEPT !.available = available, !.allocation = allocation,
                    !.request = request, !.active = active]
  BY DEF deadlock_cleanup_process
<1>3. \A r \in Resources : Holds(g, p, r) => g.available[r] = 0
  BY <1>1, FieldTypes DEF Sound, OneUnit
<1>4. /\ \A q \in Pids, s \in Resources :
            /\ q # p => request[q][s] = g.request[q][s]
            /\ allocation[q][s] = (IF q = p THEN 0 ELSE g.allocation[q][s])
      /\ \A q \in Pids : q # p => active[q] = g.active[q]
  BY <1>1, FieldTypes
<1>5. \A s \in Resources : available[s] = IF Holds(g, p, s) THEN 1 ELSE g.available[s]
  BY <1>1, <1>3, FieldTypes DEF Holds
<1>6. request \in [Pids -> [Resources -> 0..1]] /\ active \in [Pids -> BOOLEAN]
  BY <1>1, FieldTypes
<1>7. allocation \in [Pids -> [Resources -> 0..1]]
  BY <1>1, FieldTypes
<1>8. available \in [Resources -> 0..1]
  <2>1. \A s \in Resources : available[s] \in 0..1
    BY <1>1, <1>5, FieldTypes
  <2>2. available = [s \in Resources |-> available[s]]
    OBVIOUS
  <2> HIDE DEF available
  <2> QED
    BY <2>1, <2>2
<1> HIDE DEF request, active, allocation, available, c
<1>9. /\ c \in Graphs /\ c.request = request /\ c.active = active
      /\ c.allocation = allocation /\ c.available = available /\ c.wait = g.wait
  BY <1>1, <1>2, <1>6, <1>7, <1>8 DEF Graphs
<1>10. \A q \in Pids, s \in Resources : Holds(c, q, s) <=> q # p /\ Holds(g, q, s)
  BY <1>4, <1>9 DEF Holds
<1>11. OneUnit(c)
  <2> SUFFICES ASSUME NEW s \in Resources
               PROVE  /\ c.available[s] = 1 => \A q \in Pids : ~ Holds(c, q, s)
                      /\ c.available[s] = 0 => \E q \in Pids : Holds(c, q, s)
                      /\ \A o, q \in Pids : Holds(c, o, s) /\ Holds(c, q, s) => o = q
    BY DEF OneUnit
  <2>1. /\ g.available[s] = 1 => \A q \in Pids : ~ Holds(g, q, s)
        /\ g.available[s] = 0 => \E q \in Pids : Holds(g, q, s)
        /\ \A o, q \in Pids : Holds(g, o, s) /\ Holds(g, q, s) => o = q
        /\ c.available[s] = IF Holds(g, p, s) THEN 1 ELSE g.available[s]
    BY <1>5, <1>9 DEF Sound, OneUnit
  <2> QED
    BY <1>10, <2>1
<1>12. ASSUME NEW q \in Pids, NEW s \in Resources, q # p, Asked(g, q, s)
       PROVE  Asked(c, q, s)
  BY <1>4, <1>9, <1>12 DEF Asked
<1> QED
  BY <1>9, <1>11, <1>12 DEF Sound, c

\* Whoever is granted r waits for it, and r is free.
LEMMA GrantedIsWaiting ==
    ASSUME NEW g, Sound(g), NEW r \in Resources
    PROVE  /\ Waiting(g, r) \in Seq(Pids)
           /\ \A p \in Pids : Contains(Waiting(g, r), p) <=> g.active[p] /\ Contains(g.wait[r], p)
           /\ Granted(g, r) \in Seq(Pids)
           /\ \/ Granted(g, r) = << >> /\ (g.available[r] = 0 \/ Waiting(g, r) = << >>)
              \/ /\ Granted(g, r) = <<Head(Waiting(g, r))>> /\ Head(Waiting(g, r)) \in Pids
                 /\ Waiting(g, r) # << >> /\ g.available[r] = 1
<1>1. g.wait[r] \in Seq(Pids) /\ g.available[r] \in 0..1
  BY FieldTypes DEF Sound
<1>2. /\ Waiting(g, r) \in Seq(Pids)
      /\ \A p \in Pids : Contains(Waiting(g, r), p) <=> g.active[p] /\ Contains(g.wait[r], p)
  BY <1>1, KeepProperties DEF Waiting
<1>3. Waiting(g, r) # << >> => Head(Waiting(g, r)) \in Pids
  BY <1>2, QueueTail
<1>4. << >> \in Seq(Pids) /\ \A p \in Pids : <<p>> \in Seq(Pids)
  OBVIOUS
<1>5. CASE g.available[r] > 0 /\ Waiting(g, r) # << >>
  <2>1. Granted(g, r) = <<Head(Waiting(g, r))>> /\ g.available[r] = 1
    BY <1>1, <1>5 DEF Granted
  <2> QED
    BY <1>2, <1>3, <1>4, <1>5, <2>1
<1>6. CASE ~ (g.available[r] > 0 /\ Waiting(g, r) # << >>)
  <2>1. Granted(g, r) = << >> /\ (g.available[r] = 0 \/ Waiting(g, r) = << >>)
    BY <1>1, <1>6 DEF Granted
  <2> QED
    BY <1>2, <1>4, <2>1
<1> QED
  BY <1>5, <1>6

\* The pass over the waiters: it reports whom it grants something, and those who
\* still wait for a resource stay registered at it and it is not free.
LEMMA WakeSound ==
    ASSUME NEW g, Sound(g)
    PROVE  LET w == deadlock_wake_waiters(g)
           IN  /\ Sound(w.graph)
               /\ \A q \in Pids, s \in Resources :
                     Asked(g, q, s) /\ q \notin ToSet(w.granted) =>
                        Asked(w.graph, q, s) /\ w.graph.available[s] = 0
<1> DEFINE gets(p, r) == <<p>> = Granted(g, r)
           available == [r \in Resources |-> g.available[r] - Len(Granted(g, r))]
           allocation == [p \in Pids |-> [r \in Resources |->
                             IF gets(p, r) THEN g.allocation[p][r] + 1 ELSE g.allocation[p][r]]]
           request == [p \in Pids |-> [r \in Resources |->
                             IF gets(p, r) THEN 0 ELSE g.request[p][r]]]
           wait == [r \in Resources |->
                       IF Granted(g, r) = << >> THEN Waiting(g, r) ELSE Tail(Waiting(g, r))]
           w == deadlock_wake_waiters(g)
           c == w.graph
           lists == [i \in 1..NumResources |-> Granted(g, i - 1)]
<1>1. g \in Graphs
  BY DEF Sound
<1>2. /\ c = [g EXCEPT !.available = available, !.allocation = allocation,
                       !.request = request, !.wait = wait]
      /\ w.granted = FlattenSeq(lists)
  BY DEF deadlock_wake_waiters
<1>3. ASSUME NEW q \in Pids, NEW s \in Resources, gets(q, s)
      PROVE  q \in ToSet(w.granted)
  <2>1. NumResources \in Nat /\ s + 1 \in 1..NumResources /\ (s + 1) - 1 = s
    BY GraphAssumption DEF Resources
  <2>2. \A i \in 1..NumResources : i - 1 \in Resources
    BY <2>1 DEF Resources
  <2>3. lists \in Seq(Seq(Pids)) /\ Len(lists) = NumResources /\ lists[s + 1] = <<q>>
    <3>1. \A i \in 1..NumResources : Granted(g, i - 1) \in Seq(Pids)
      BY <2>2, GrantedIsWaiting
    <3> QED
      BY <1>3, <2>1, <3>1
  <2> HIDE DEF lists
  <2>4. q \in ToSet(lists[s + 1])
    <3>1. q \in ToSet(<<q>>)
      BY DEF ToSet
    <3> QED
      BY <2>3, <3>1
  <2> QED
    BY <1>2, <2>1, <2>3, <2>4, FlattenMembers
<1> HIDE DEF w, c, lists
<1>4. ASSUME NEW s \in Resources
      PROVE  /\ \/ /\ Granted(g, s) = << >> /\ \A q \in Pids : ~ gets(q, s)
                   /\ available[s] = g.available[s] /\ wait[s] = Waiting(g, s)
                \/ /\ g.available[s] = 1 /\ available[s] = 0 /\ wait[s] = Tail(Waiting(g, s))
                   /\ Waiting(g, s) # << >>
                   /\ \E o \in Pids : /\ o = Head(Waiting(g, s))
                                      /\ \A q \in Pids : gets(q, s) <=> q = o
             /\ wait[s] \in Seq(Pids) /\ available[s] \in 0..1
  <2>1. g.available[s] \in 0..1
    BY <1>1, FieldTypes
  <2>2. CASE Granted(g, s) = << >>
    <3>1. Len(<< >>) = 0 /\ \A q \in Pids : <<q>> # << >>
      OBVIOUS
    <3> QED
      BY <2>1, <2>2, <3>1, GrantedIsWaiting
  <2>3. CASE Granted(g, s) # << >>
    <3>1. PICK o \in Pids : /\ Granted(g, s) = <<o>> /\ o = Head(Waiting(g, s))
                            /\ Waiting(g, s) # << >> /\ g.available[s] = 1
      BY <2>3, GrantedIsWaiting
    <3>2. Len(<<o>>) = 1 /\ \A q \in Pids : <<q>> = <<o>> <=> q = o
      OBVIOUS
    <3>3. available[s] = 0 /\ wait[s] = Tail(Waiting(g, s))
      <4>1. available[s] = g.available[s] - Len(Granted(g, s))
        OBVIOUS
      <4>2. Len(Granted(g, s)) = 1
        BY <3>1, <3>2, Zenon
      <4>3. wait[s] = Tail(Waiting(g, s))
        BY <2>3
      <4> QED
        BY <3>1, <4>1, <4>2, <4>3
    <3>4. Tail(Waiting(g, s)) \in Seq(Pids)
      BY <3>1, GrantedIsWaiting, QueueTail
    <3> QED
      BY <3>1, <3>2, <3>3, <3>4
  <2> QED
    BY <2>2, <2>3
<1>5. /\ \A q \in Pids, s \in Resources :
            /\ request[q][s] = (IF gets(q, s) THEN 0 ELSE g.request[q][s])
            /\ allocation[q][s] = (IF gets(q, s) THEN g.allocation[q][s] + 1
                                   ELSE g.allocation[q][s])
      /\ allocation = [q \in Pids |-> [s \in Resources |-> allocation[q][s]]]
      /\ request = [q \in Pids |-> [s \in Resources |-> request[q][s]]]
      /\ available = [s \in Resources |-> available[s]] /\ wait = [s \in Resources |-> wait[s]]
  OBVIOUS
<1> HIDE DEF request, allocation, available, wait, gets
<1>6. ASSUME NEW q \in Pids, NEW s \in Resources
      PROVE  /\ g.allocation[q][s] \in 0..1 /\ g.request[q][s] \in 0..1
             /\ gets(q, s) => ~ Holds(g, q, s) /\ g.allocation[q][s] = 0
  <2>1. g.allocation[q][s] \in 0..1 /\ g.request[q][s] \in 0..1
    BY <1>1, FieldTypes
  <2>2. gets(q, s) => ~ Holds(g, q, s)
    BY <1>4 DEF Sound, OneUnit
  <2> QED
    BY <2>1, <2>2 DEF Holds
<1>7. /\ allocation \in [Pids -> [Resources -> 0..1]] /\ request \in [Pids -> [Resources -> 0..1]]
      /\ available \in [Resources -> 0..1] /\ wait \in [Resources -> Seq(Pids)]
  <2>1. \A q \in Pids, s \in Resources : allocation[q][s] \in 0..1
    BY <1>5, <1>6
  <2>2. \A q \in Pids, s \in Resources : request[q][s] \in 0..1
    BY <1>5, <1>6
  <2>3. \A s \in Resources : available[s] \in 0..1 /\ wait[s] \in Seq(Pids)
    BY <1>4
  <2>4. allocation \in [Pids -> [Resources -> 0..1]]
    BY <1>5, <2>1
  <2>5. request \in [Pids -> [Resources -> 0..1]]
    BY <1>5, <2>2
  <2>6. available \in [Resources -> 0..1] /\ wait \in [Resources -> Seq(Pids)]
    BY <1>5, <2>3
  <2> QED
    BY <2>4, <2>5, <2>6
<1>8. /\ c \in Graphs /\ c.request = request /\ c.active = g.active
      /\ c.allocation = allocation /\ c.available = available /\ c.wait = wait
  BY <1>1, <1>2, <1>7 DEF Graphs
<1>9. \A q \in Pids, s \in Resources : Holds(c, q, s) <=> gets(q, s) \/ Holds(g, q, s)
  BY <1>5, <1>6, <1>8 DEF Holds
<1>10. OneUnit(c)
  <2> SUFFICES ASSUME NEW s \in Resources
               PROVE  /\ c.available[s] = 1 => \A q \in Pids : ~ Holds(c, q, s)
                      /\ c.available[s] = 0 => \E q \in Pids : Holds(c, q, s)
                      /\ \A o, q \in Pids : Holds(c, o, s) /\ Holds(c, q, s) => o = q
    BY DEF OneUnit
  <2>1. /\ g.available[s] = 1 => \A q \in Pids : ~ Holds(g, q, s)
        /\ g.available[s] = 0 => \E q \in Pids : Holds(g, q, s)
        /\ \A o, q \in Pids : Holds(g, o, s) /\ Holds(g, q, s) => o = q
    BY DEF Sound, OneUnit
  <2> QED
    BY <1>4, <1>8, <1>9, <2>1
<1>11. ASSUME NEW q \in Pids, NEW s \in Resources, Asked(g, q, s), q \notin ToSet(w.granted)
       PROVE  Asked(c, q, s) /\ c.available[s] = 0
  <2>1. ~ gets(q, s)
    BY <1>3, <1>11
  <2>2. c.active[q] /\ c.request[q][s] = 1
    BY <1>5, <1>8, <1>11, <2>1 DEF Asked
  <2>3. Contains(Waiting(g, s), q) /\ Waiting(g, s) \in Seq(Pids)
    <3>1. g.active[q] /\ Contains(g.wait[s], q)
      BY <1>11 DEF Asked
    <3> QED
      BY <3>1, GrantedIsWaiting
  <2>4. Waiting(g, s) # << >>
    <3>1. Len(<< >>) = 0
      OBVIOUS
    <3> QED
      BY <2>3, <3>1 DEF Contains
  <2>5. Contains(wait[s], q) /\ available[s] = 0
    <3>1. CASE Granted(g, s) = << >>
      <4>1. g.available[s] = 0
        <5>1. ~ (Granted(g, s) = <<Head(Waiting(g, s))>>)
          BY <3>1
        <5> QED
          BY <2>4, <5>1, GrantedIsWaiting
      <4>2. available[s] = 0 /\ wait[s] = Waiting(g, s)
        BY <1>4, <4>1
      <4> QED
        BY <2>3, <4>2
    <3>2. CASE Granted(g, s) # << >>
      <4>1. PICK o \in Pids : /\ o = Head(Waiting(g, s)) /\ (gets(q, s) <=> q = o)
                              /\ available[s] = 0 /\ wait[s] = Tail(Waiting(g, s))
        BY <1>4, <3>2
      <4>2. Contains(Waiting(g, s), q) <=> q = Head(Waiting(g, s)) \/ Contains(Tail(Waiting(g, s)), q)
        BY <2>3, <2>4, QueueTail
      <4> QED
        BY <2>1, <2>3, <4>1, <4>2
    <3> QED
      BY <3>1, <3>2
  <2> QED
    BY <1>8, <2>2, <2>5 DEF Asked
<1> QED
  BY <1>8, <1>10, <1>11 DEF Sound, c, w

-----------------------------------------------------------------------------
(* The steps *)

\* Nothing is left in the graph of a process that has been cleaned up: it holds
\* and asks for nothing, and the pass over the queues drops it.  Nobody else loses
\* a unit.
LEMMA ResolveForgets ==
    ASSUME NEW g, Sound(g), NEW p \in Pids
    PROVE  LET freed == deadlock_resolve(g, p)
           IN  /\ Sound(freed.graph) /\ freed.granted \in Seq(Pids)
               /\ \A r \in Resources : /\ freed.graph.allocation[p][r] = 0
                                       /\ freed.graph.request[p][r] = 0
                                       /\ ~ Contains(freed.graph.wait[r], p)
               /\ \A q \in Pids \ {p}, r \in Resources :
                     freed.graph.allocation[q][r] >= g.allocation[q][r]
<1> DEFINE c == deadlock_cleanup_process(g, p)
           w == deadlock_wake_waiters(c)
           lists == [i \in 1..NumResources |-> Granted(c, i - 1)]
<1>1. Sound(c)
  BY CleanupSound
<1>2. Sound(w.graph)
  BY <1>1, WakeSound
<1>3. g \in Graphs
  BY DEF Sound
<1>4. c.active[p] = FALSE /\ \A r \in Resources : c.allocation[p][r] = 0 /\ c.request[p][r] = 0
  BY <1>3 DEF deadlock_cleanup_process, Graphs
<1>10. \A q \in Pids \ {p}, r \in Resources : c.allocation[q][r] = g.allocation[q][r]
  BY <1>3 DEF deadlock_cleanup_process, Graphs
<1> HIDE DEF c
<1>5. /\ w.graph = [c EXCEPT
                       !.available = [r \in Resources |-> @[r] - Len(Granted(c, r))],
                       !.allocation = [q \in Pids |-> [r \in Resources |->
                          IF <<q>> = Granted(c, r) THEN @[q][r] + 1 ELSE @[q][r]]],
                       !.request = [q \in Pids |-> [r \in Resources |->
                          IF <<q>> = Granted(c, r) THEN 0 ELSE @[q][r]]],
                       !.wait = [r \in Resources |->
                          IF Granted(c, r) = << >> THEN Waiting(c, r) ELSE Tail(Waiting(c, r))]]
      /\ w.granted = FlattenSeq(lists)
  BY DEF deadlock_wake_waiters
<1>6. w.granted \in Seq(Pids)
  <2>1. NumResources \in Nat /\ \A i \in 1..NumResources : i - 1 \in Resources
    BY GraphAssumption DEF Resources
  <2>2. lists \in Seq(Seq(Pids))
    BY <1>1, <2>1, GrantedIsWaiting
  <2> HIDE DEF lists, w
  <2> QED
    BY <1>5, <2>2, FlattenMembers
<1> HIDE DEF lists, w
<1>7. ASSUME NEW r \in Resources
      PROVE  /\ <<p>> # Granted(c, r)
             /\ ~ Contains(IF Granted(c, r) = << >> THEN Waiting(c, r) ELSE Tail(Waiting(c, r)), p)
  <2>1. ~ Contains(Waiting(c, r), p)
    BY <1>1, <1>4, GrantedIsWaiting
  <2>2. CASE Granted(c, r) = << >>
    <3>1. <<p>> # << >>
      OBVIOUS
    <3> QED
      BY <2>1, <2>2, <3>1
  <2>3. CASE Granted(c, r) # << >>
    <3>1. /\ Waiting(c, r) # << >> /\ Waiting(c, r) \in Seq(Pids)
          /\ Granted(c, r) = <<Head(Waiting(c, r))>>
      BY <1>1, <2>3, GrantedIsWaiting
    <3>2. Contains(Waiting(c, r), p)
             <=> p = Head(Waiting(c, r)) \/ Contains(Tail(Waiting(c, r)), p)
      BY <3>1, QueueTail
    <3> QED
      BY <2>1, <2>3, <3>1, <3>2
  <2> QED
    BY <2>2, <2>3
<1>8. c \in Graphs
  BY <1>1 DEF Sound
<1>9. ASSUME NEW r \in Resources
      PROVE  /\ w.graph.allocation[p][r] = 0 /\ w.graph.request[p][r] = 0
             /\ ~ Contains(w.graph.wait[r], p)
  <2>1. w.graph.allocation[p][r] = c.allocation[p][r] /\ w.graph.request[p][r] = c.request[p][r]
    BY <1>5, <1>7, <1>8 DEF Graphs
  <2>2. w.graph.wait[r] = IF Granted(c, r) = << >> THEN Waiting(c, r) ELSE Tail(Waiting(c, r))
    BY <1>5, <1>8 DEF Graphs
  <2> QED
    BY <1>4, <1>7, <2>1, <2>2
<1>11. ASSUME NEW q \in Pids \ {p}, NEW r \in Resources
       PROVE  w.graph.allocation[q][r] >= g.allocation[q][r]
  <2>1. w.graph.allocation[q][r] = IF <<q>> = Granted(c, r) THEN c.allocation[q][r] + 1
                                   ELSE c.allocation[q][r]
    BY <1>5, <1>8 DEF Graphs
  <2>2. c.allocation[q][r] \in 0..1
    BY <1>8 DEF Graphs
  <2> QED
    BY <1>10, <2>1, <2>2
<1> QED
  BY <1>2, <1>6, <1>9, <1>11 DEF deadlock_resolve, w, c

Wish(p) == Wants[p][phase[p]]

LEMMA BlockedAsked ==
    BlockedIsRegistered <=>
        \A p \in Pids : thread[p] = "BLOCKED" =>
            Asked(graph, p, Wish(p)) /\ graph.available[Wish(p)] = 0
BY DEF BlockedIsRegistered, Asked, Wish

LEMMA RequestSteps ==
    ASSUME UnitInv, NEW p \in Pids, Request(p)
    PROVE  UnitInv' /\ (QueuesHaveRoom /\ BlockedIsRegistered => BlockedIsRegistered')
<1> DEFINE r == Wish(p)
<1>1. r \in Resources /\ \A q \in Pids : Wish(q) \in Resources
  BY GraphAssumption DEF UnitInv, Wish
<1>2. /\ Sound(graph) /\ phase \in [Pids -> 0..1] /\ thread \in Threads
      /\ thread[p] = "READY"
      /\ graph' = deadlock_request(graph, p, r)
      /\ phase' = [phase EXCEPT ![p] = IF Result(graph, p, r) = "granted" THEN 1 ELSE @]
      /\ thread' = [thread EXCEPT ![p] = IF Result(graph, p, r) = "refused" THEN "BLOCKED" ELSE @]
  BY DEF UnitInv, Request, Wish
<1> HIDE DEF r
<1>3. /\ Sound(graph')
      /\ \A q \in Pids, s \in Resources :
            q # p /\ Asked(graph, q, s) /\ graph.available[s] = 0 =>
               Asked(graph', q, s) /\ graph'.available[s] = 0
      /\ Result(graph, p, r) = "refused" /\ Len(graph.wait[r]) < MaxProcs =>
            Asked(graph', p, r) /\ graph'.available[r] = 0
  BY <1>1, <1>2, RequestSound
<1>4. phase' \in [Pids -> 0..1] /\ thread' \in Threads
  BY <1>2 DEF Threads
<1>5. ASSUME QueuesHaveRoom, BlockedIsRegistered, NEW q \in Pids, thread'[q] = "BLOCKED"
      PROVE  Asked(graph', q, Wish(q)') /\ graph'.available[Wish(q)'] = 0
  <2>1. CASE q = p
    <3>1. Result(graph, p, r) = "refused"
      BY <1>2, <1>5, <2>1 DEF Threads
    <3>2. phase'[p] = phase[p]
      BY <1>2, <3>1
    <3>3. Wish(p)' = r /\ Len(graph.wait[r]) < MaxProcs
      BY <1>1, <1>5, <3>2 DEF Wish, r, QueuesHaveRoom
    <3> QED
      BY <1>3, <2>1, <3>1, <3>3
  <2>2. CASE q # p
    <3>1. thread[q] = "BLOCKED" /\ phase'[q] = phase[q]
      BY <1>2, <1>5, <2>2 DEF Threads
    <3>2. Wish(q)' = Wish(q)
      BY <3>1 DEF Wish
    <3>3. Asked(graph, q, Wish(q)) /\ graph.available[Wish(q)] = 0
      BY <1>5, <3>1, BlockedAsked
    <3> QED
      BY <1>1, <1>3, <2>2, <3>2, <3>3
  <2> QED
    BY <2>1, <2>2
<1>6. QueuesHaveRoom /\ BlockedIsRegistered => BlockedIsRegistered'
  BY <1>5, Zenon DEF BlockedIsRegistered, Asked, Wish
<1> QED
  BY <1>3, <1>4, <1>6 DEF UnitInv

\* The victim is not blocked afterwards, and those who still are were before and
\* were granted nothing.
LEMMA UprootSteps ==
    ASSUME UnitInv, NEW p \in Pids, Uproot(p)
    PROVE  UnitInv' /\ (BlockedIsRegistered => BlockedIsRegistered')
<1> DEFINE c == deadlock_cleanup_process(graph, p)
           w == deadlock_wake_waiters(c)
           woken == {q \in ToSet(w.granted) : thread[q] = "BLOCKED"}
<1>1. /\ Sound(graph) /\ phase \in [Pids -> 0..1] /\ thread \in Threads
      /\ graph' = w.graph /\ WakeAndKill(w.granted, p)
  BY DEF UnitInv, Uproot, deadlock_resolve
<1>2. PICK last \in {"DONE"} \cup ({thread[p]} \ {"BLOCKED"}) :
         /\ thread' = [q \in Pids |-> CASE q = p -> last
                                        [] q # p /\ q \in woken -> "READY"
                                        [] q # p /\ q \notin woken -> thread[q]]
         /\ phase' = [q \in Pids |-> IF q \in woken THEN 1 ELSE phase[q]]
  BY <1>1 DEF WakeAndKill
<1>3. /\ Sound(c)
      /\ \A q \in Pids, s \in Resources : q # p /\ Asked(graph, q, s) => Asked(c, q, s)
  BY <1>1, CleanupSound
<1> HIDE DEF c
<1>4. /\ Sound(w.graph)
      /\ \A q \in Pids, s \in Resources :
            Asked(c, q, s) /\ q \notin ToSet(w.granted) =>
                Asked(w.graph, q, s) /\ w.graph.available[s] = 0
  BY <1>3, WakeSound
<1> HIDE DEF w
<1>5. phase' \in [Pids -> 0..1] /\ thread' \in Threads
  BY <1>1, <1>2 DEF Threads
<1>6. ASSUME BlockedIsRegistered, NEW q \in Pids, thread'[q] = "BLOCKED"
      PROVE  Asked(graph', q, Wish(q)') /\ graph'.available[Wish(q)'] = 0
  <2>1. q # p /\ q \notin woken /\ thread[q] = "BLOCKED"
    BY <1>2, <1>6
  <2>2. q \notin ToSet(w.granted) /\ phase'[q] = phase[q]
    BY <1>2, <2>1
  <2>3. Wish(q)' = Wish(q) /\ Wish(q) \in Resources
    BY <1>1, <2>2, GraphAssumption DEF Wish
  <2>4. Asked(c, q, Wish(q))
    BY <1>3, <1>6, <2>1, <2>3, BlockedAsked
  <2> QED
    BY <1>1, <1>4, <2>2, <2>3, <2>4
<1>7. BlockedIsRegistered => BlockedIsRegistered'
  BY <1>6, Zenon DEF BlockedIsRegistered, Asked, Wish
<1> QED
  BY <1>1, <1>4, <1>5, <1>7 DEF UnitInv

LEMMA OtherSteps ==
    ASSUME UnitInv, NEW p \in Pids, Finish(p) \/ SpuriousWake(p)
    PROVE  UnitInv' /\ (BlockedIsRegistered => BlockedIsRegistered')
<1>1. /\ Sound(graph) /\ phase \in [Pids -> 0..1] /\ thread \in Threads
      /\ graph' = graph /\ phase' = phase
      /\ \E t \in {"READY", "DONE"} : thread' = [thread EXCEPT ![p] = t]
  BY DEF UnitInv, Finish, SpuriousWake
<1>2. thread' \in Threads /\ \A q \in Pids : thread'[q] = "BLOCKED" => thread[q] = "BLOCKED"
  BY <1>1 DEF Threads
<1> QED
  BY <1>1, <1>2 DEF UnitInv, BlockedIsRegistered

LEMMA NextSteps ==
    ASSUME UnitInv, [Next]_vars
    PROVE  UnitInv' /\ (QueuesHaveRoom /\ BlockedIsRegistered => BlockedIsRegistered')
<1>1. CASE UNCHANGED vars
  BY <1>1 DEF vars, UnitInv, BlockedIsRegistered
<1>2. CASE Detect
  BY <1>2, UprootSteps DEF Detect
<1>3. ASSUME NEW p \in Pids, Request(p) \/ Finish(p) \/ SpuriousWake(p) \/ Crash(p)
      PROVE  UnitInv' /\ (QueuesHaveRoom /\ BlockedIsRegistered => BlockedIsRegistered')
  BY <1>3, RequestSteps, UprootSteps, OtherSteps DEF Crash
<1> QED
  BY <1>1, <1>2, <1>3 DEF Next

LEMMA InitSound == Sound(deadlock_init)
<1>1. << >> \in Seq(Pids)
  OBVIOUS
<1>2. deadlock_init \in Graphs
  BY <1>1 DEF deadlock_init, Graphs
<1>3. OneUnit(deadlock_init)
  BY DEF deadlock_init, OneUnit, Holds
<1> QED
  BY <1>2, <1>3 DEF Sound

LEMMA InitSteps == Init => UnitInv /\ BlockedIsRegistered
<1> SUFFICES ASSUME Init PROVE UnitInv /\ BlockedIsRegistered
  OBVIOUS
<1>1. /\ graph = deadlock_init /\ phase = [p \in Pids |-> 0]
      /\ thread = [p \in Pids |-> "READY"]
  BY DEF Init
<1> QED
  BY <1>1, InitSound DEF UnitInv, Threads, BlockedIsRegistered

-----------------------------------------------------------------------------
(* The theorems *)

\* Every reachable state satisfies the invariant.
THEOREM Invariance == Spec => []UnitInv
<1>1. UnitInv /\ [Next]_vars => UnitInv'
  BY NextSteps
<1>2. Init => UnitInv
  BY InitSteps
<1> QED
  BY <1>1, <1>2, PTL DEF Spec

\* The matrices hold nothing but zeros and ones, and no queue anything but pids.
THEOREM GraphTypeCorrect == Spec => []TypeOK
<1>1. UnitInv => TypeOK
  BY DEF UnitInv, Sound, Threads, TypeOK
<1> QED
  BY <1>1, Invariance, PTL

\* Whoever keeps the units keeps their number.
LEMMA UnitsCount == UnitInv => UnitsAreConserved
<1> SUFFICES ASSUME UnitInv, NEW r \in Resources
             PROVE  graph.available[r] + Cardinality({p \in Pids : graph.allocation[p][r] > 0}) = 1
  BY DEF UnitsAreConserved
<1> DEFINE holders == {p \in Pids : graph.allocation[p][r] > 0}
<1>1. graph.available[r] \in 0..1 /\ \A p \in Pids : p \in holders <=> Holds(graph, p, r)
  BY FieldTypes DEF UnitInv, Sound, Holds
<1>2. CASE graph.available[r] = 1
  <2>1. holders = {}
    BY <1>2 DEF UnitInv, Sound, OneUnit, Holds
  <2> QED
    BY <1>2, <2>1, FS_EmptySet
<1>3. CASE graph.available[r] = 0
  <2>1. PICK p \in Pids : Holds(graph, p, r)
    BY <1>3 DEF UnitInv, Sound, OneUnit
  <2>2. \A q \in Pids : Holds(graph, q, r) => q = p
    BY <2>1 DEF UnitInv, Sound, OneUnit
  <2>3. holders = {p}
    BY <1>1, <2>1, <2>2
  <2>4. Cardinality({p}) = 1
    BY FS_Singleton
  <2> QED
    BY <1>3, <2>3, <2>4
<1> QED
  BY <1>1, <1>2, <1>3

\* No sequence of requests, crashes and victims makes a resource disappear or
\* gives it to two processes.
THEOREM UnitsStayConserved == Spec => []UnitsAreConserved
BY UnitsCount, Invariance, PTL

\* As long as no queue has been full, no grant is forgotten: whoever is blocked
\* is registered at the resource it wants, and that is not available.
THEOREM NoGrantIsForgotten == Spec /\ []QueuesHaveRoom => []BlockedIsRegistered
<1> DEFINE I == UnitInv /\ BlockedIsRegistered
<1>1. I /\ QueuesHaveRoom /\ [Next]_vars => I'
  BY NextSteps
<1>2. Init => I
  BY InitSteps
<1>3. I => BlockedIsRegistered
  OBVIOUS
<1> HIDE DEF I
<1> QED
  BY <1>1, <1>2, <1>3, PTL DEF Spec
=============================================================================
