---------------------------- MODULE ResourceGraph ----------------------------
(***************************************************************************)
(* The resource-allocation graph of src/src/deadlock.c: single-unit        *)
(* resources, a queue of waiting processes for each, a depth-first search  *)
(* for cycles and the removal of a victim; and the calls kernel_run makes  *)
(* for the processes, which take their resources in a fixed order that     *)
(* depends on deadlock_phase.                                              *)
(***************************************************************************)
EXTENDS Integers, FiniteSets, SequencesExt, Compaction

CONSTANTS
    NumProcs,       \* the number of processes the kernel has created
    NumResources,   \* NUM_RESOURCES
    Rank,           \* enum Priority of every process: 0 is CRITICAL
    Wants,          \* Wants[p][k]: the resource p asks for in phase k; the
                    \* last one stays
    MaxProcs        \* MAX_PROCS, the length of a waiting queue

Pids == 0..(NumProcs - 1)
Resources == 0..(NumResources - 1)

ASSUME GraphAssumption ==
    /\ NumProcs \in Nat /\ NumResources \in Nat
    /\ Rank \in [Pids -> 0..3]
    /\ Wants \in [Pids -> [0..1 -> Resources]]
    /\ MaxProcs \in Nat

VARIABLES
    graph,      \* the static graph of deadlock.c
    phase,      \* deadlock_phase, 1 standing for every value above 0
    thread      \* the main thread of p: READY while it runs or can run,
                \* BLOCKED with RESOURCE_WAIT, or DONE and in no ready queue

vars == <<graph, phase, thread>>

-----------------------------------------------------------------------------
(* deadlock.c *)

deadlock_init ==
    [allocation |-> [p \in Pids |-> [r \in Resources |-> 0]],
     request |-> [p \in Pids |-> [r \in Resources |-> 0]],
     available |-> [r \in Resources |-> 1],
     active |-> [p \in Pids |-> FALSE],
     wait |-> [r \in Resources |-> << >>]]

\* The caller has checked that r is available.
deadlock_alloc(g, p, r) ==
    [g EXCEPT !.available[r] = @ - 1,
              !.allocation[p][r] = @ + 1,
              !.request[p][r] = 0,
              !.active[p] = TRUE]

\* What deadlock_request returns: 1, 0 or -1.
Result(g, p, r) == CASE g.allocation[p][r] > 0 -> "held"
                     [] g.allocation[p][r] <= 0 /\ g.available[r] > 0 -> "granted"
                     [] g.allocation[p][r] <= 0 /\ g.available[r] <= 0 -> "refused"

\* A process that asks again while it is registered is registered again.
deadlock_request(g, p, r) ==
    LET asked == [g EXCEPT !.request[p][r] = 1, !.active[p] = TRUE]
    IN  CASE Result(g, p, r) = "held" -> g
          [] Result(g, p, r) = "granted" -> deadlock_alloc(asked, p, r)
          [] Result(g, p, r) = "refused" ->
                IF Len(g.wait[r]) < MaxProcs
                THEN [asked EXCEPT !.wait[r] = Append(@, p)] ELSE asked

\* Mutants of deadlock_cleanup_process: it releases what is not held, or it
\* takes the units with it.
ReleaseUnheld(g, p) ==
    [g EXCEPT !.available = [r \in Resources |-> @[r] + 1],
              !.allocation[p] = [r \in Resources |-> 0],
              !.request[p] = [r \in Resources |-> 0],
              !.active[p] = FALSE]
LoseUnits(g, p) ==
    [g EXCEPT !.allocation[p] = [r \in Resources |-> 0],
              !.request[p] = [r \in Resources |-> 0],
              !.active[p] = FALSE]

deadlock_cleanup_process(g, p) ==
    [g EXCEPT !.available = [r \in Resources |-> @[r] + g.allocation[p][r]],
              !.allocation[p] = [r \in Resources |-> 0],
              !.request[p] = [r \in Resources |-> 0],
              !.active[p] = FALSE]

\* deadlock_wake_waiters(r): inactive processes are dropped from the queue of r,
\* the first active one gets the unit if it is free.  A pass changes nothing
\* the pass for another resource looks at, so the loop over all of them is one
\* step; granted lists, in their order, whom victim_cb is called for.
Waiting(g, r) == Keep(g.wait[r], {p \in Pids : g.active[p]})
Granted(g, r) ==
    IF g.available[r] > 0 /\ Waiting(g, r) # << >> THEN <<Head(Waiting(g, r))>> ELSE << >>

deadlock_wake_waiters(g) ==
    LET gets(p, r) == <<p>> = Granted(g, r)
    IN  [graph |->
            [g EXCEPT
               !.available = [r \in Resources |-> @[r] - Len(Granted(g, r))],
               !.allocation = [p \in Pids |-> [r \in Resources |->
                                  IF gets(p, r) THEN @[p][r] + 1 ELSE @[p][r]]],
               !.request = [p \in Pids |-> [r \in Resources |->
                                  IF gets(p, r) THEN 0 ELSE @[p][r]]],
               !.wait = [r \in Resources |->
                            IF Granted(g, r) = << >> THEN Waiting(g, r)
                            ELSE Tail(Waiting(g, r))]],
         granted |-> FlattenSeq([i \in 1..NumResources |-> Granted(g, i - 1)])]

-----------------------------------------------------------------------------
(* Detection *)

\* Mutant of Successors: the process waits for every holder of anything.
SuccessorsUnasked(g, p) ==
    SetToSeq({q \in Pids : /\ g.active[q] /\ q # p
                           /\ \E r \in Resources : g.allocation[q][r] > 0})

\* The processes q the two loops of dfs_cycle come to, in their order.
Successors(g, p) ==
    LET Pairs == [i \in 1..(NumResources * NumProcs) |->
                    <<(i - 1) \div NumProcs, (i - 1) % NumProcs>>]
        Edge(pair) == /\ g.request[p][pair[1]] > 0
                      /\ g.active[pair[2]] /\ pair[2] # p
                      /\ g.allocation[pair[2]][pair[1]] > 0
        found == SelectSeq(Pairs, Edge)
    IN  [i \in 1..Len(found) |-> found[i][2]]

\* dfs_cycle: the loop over the successors ps of p, with the sets visited and
\* in_stack.  It returns at once when it finds a cycle, and in_stack is then
\* the path from the first process to the last.
Search(g) ==
    LET from[p \in Pids, ps \in Seq(Pids),
             visited \in SUBSET Pids, in_stack \in SUBSET Pids] ==
            LET q == Head(ps)
                deeper == from[q, Successors(g, q), visited \cup {q}, in_stack \cup {q}]
            IN  CASE ps = << >> -> [found |-> FALSE, visited |-> visited,
                                    in_stack |-> in_stack \ {p}]
                  [] ps # << >> /\ q \notin visited ->
                        IF deeper.found THEN deeper
                        ELSE from[p, Tail(ps), deeper.visited, deeper.in_stack]
                  [] ps # << >> /\ q \in visited /\ q \in in_stack ->
                        [found |-> TRUE, visited |-> visited, in_stack |-> in_stack]
                  [] ps # << >> /\ q \in visited /\ q \notin in_stack ->
                        from[p, Tail(ps), visited, in_stack]
    IN  [p \in Pids |-> from[p, Successors(g, p), {p}, {p}]]

\* The processes on the path of a search that found a cycle, for every start.
Suspects(g) ==
    LET search == Search(g)
        starts == {p \in Pids : /\ g.active[p]
                                /\ \E r \in Resources : g.request[p][r] > 0}
    IN  UNION {search[p].in_stack : p \in {q \in starts : search[q].found}}

\* Mutants of IsVictim: anyone who is active, suspect or not; and nobody of high
\* importance.
VictimAmongActive(g, p) ==
    /\ Suspects(g) # {} /\ g.active[p]
    /\ \A q \in Pids : g.active[q] => Rank[q] < Rank[p] \/ (Rank[q] = Rank[p] /\ q <= p)
VictimOfLowRank(g, p) ==
    /\ p \in Suspects(g) /\ Rank[p] > 1
    /\ \A q \in Suspects(g) : Rank[q] < Rank[p] \/ (Rank[q] = Rank[p] /\ q <= p)

\* deadlock_detect: the victim is the least important suspect, the highest pid
\* among equals; there is none if there is no suspect.
IsVictim(g, p) ==
    LET suspects == Suspects(g)
    IN  /\ p \in suspects
        /\ \A q \in suspects : Rank[q] < Rank[p] \/ (Rank[q] = Rank[p] /\ q <= p)

\* Mutant of deadlock_resolve: the waiters are not looked at.
ResolveWithoutWaking(g, p) == [graph |-> deadlock_cleanup_process(g, p), granted |-> << >>]

deadlock_resolve(g, p) == deadlock_wake_waiters(deadlock_cleanup_process(g, p))

-----------------------------------------------------------------------------
(* The calls of the kernel *)

Init == /\ graph = deadlock_init
        /\ phase = [p \in Pids |-> 0]
        /\ thread = [p \in Pids |-> "READY"]

\* deadlock_wake_callback: the thread of a process that gets what it waits for
\* runs on with the next phase; a thread that is not blocked does not notice.
Wake(granted) ==
    LET woken == {p \in ToSet(granted) : thread[p] = "BLOCKED"}
    IN  /\ phase' = [p \in Pids |-> IF p \in woken THEN 1 ELSE phase[p]]
        /\ thread' = [p \in Pids |-> IF p \in woken THEN "READY" ELSE thread[p]]

\* The same, while cleanup_process writes T_DONE into the threads of victim:
\* a blocked thread is gone, one in a ready queue may be taken and run on.
WakeAndKill(granted, victim) ==
    LET woken == {p \in ToSet(granted) : thread[p] = "BLOCKED"}
    IN  /\ phase' = [p \in Pids |-> IF p \in woken THEN 1 ELSE phase[p]]
        /\ \E last \in {"DONE"} \cup ({thread[victim]} \ {"BLOCKED"}) :
              thread' = [p \in Pids |-> CASE p = victim -> last
                                          [] p # victim /\ p \in woken -> "READY"
                                          [] p # victim /\ p \notin woken -> thread[p]]

\* CMD_ACQUIRE_RESOURCE.
Request(p) ==
    LET r == Wants[p][phase[p]]
        result == Result(graph, p, r)
    IN  /\ thread[p] = "READY"
        /\ graph' = deadlock_request(graph, p, r)
        /\ phase' = [phase EXCEPT ![p] = IF result = "granted" THEN 1 ELSE @]
        /\ thread' = [thread EXCEPT ![p] = IF result = "refused" THEN "BLOCKED" ELSE @]

\* The burst is used up.  The process keeps its resources: cleanup_process is
\* called with release_resources = 0.  A refused thread asks again before.
Finish(p) ==
    /\ thread[p] = "READY"
    /\ \A r \in Resources : graph.request[p][r] = 0
    /\ thread' = [thread EXCEPT ![p] = "DONE"]
    /\ UNCHANGED <<graph, phase>>

\* A buffer wake-up that finds the thread blocked (kernel.c:410, 418, 554, 574
\* ask for T_BLOCKED only, not for the reason).
SpuriousWake(p) ==
    /\ thread[p] = "BLOCKED"
    /\ thread' = [thread EXCEPT ![p] = "READY"]
    /\ UNCHANGED <<graph, phase>>

Uproot(p) ==
    LET freed == deadlock_resolve(graph, p)
    IN  graph' = freed.graph /\ WakeAndKill(freed.granted, p)

\* Step 5.5 of kernel_run.
Detect == \E victim \in Pids : IsVictim(graph, victim) /\ Uproot(victim)

\* Step 5.6: cleanup_process with release_resources = 1 makes the same calls.
Crash(p) == Uproot(p)

Next == \/ \E p \in Pids : Request(p) \/ Finish(p) \/ SpuriousWake(p) \/ Crash(p)
        \/ Detect

\* kernel_run looks for a deadlock in every tenth turn.
Spec == Init /\ [][Next]_vars /\ WF_vars(Detect)

-----------------------------------------------------------------------------
(* Properties *)

Graphs == [allocation : [Pids -> [Resources -> 0..1]],
           request : [Pids -> [Resources -> 0..1]],
           available : [Resources -> 0..1],
           active : [Pids -> BOOLEAN],
           wait : [Resources -> Seq(Pids)]]

Holds(g, p, r) == g.allocation[p][r] > 0

\* A resource has one unit: it is available, or one process holds it.
OneUnit(g) ==
    \A r \in Resources :
        /\ g.available[r] = 1 => \A p \in Pids : ~ Holds(g, p, r)
        /\ g.available[r] = 0 => \E p \in Pids : Holds(g, p, r)
        /\ \A p, q \in Pids : Holds(g, p, r) /\ Holds(g, q, r) => p = q

\* What every call finds and leaves behind.
Sound(g) == g \in Graphs /\ OneUnit(g)

\* The shape of the data, and every resource has a single unit.
TypeOK ==
    /\ graph \in Graphs
    /\ phase \in [Pids -> 0..1]
    /\ thread \in [Pids -> {"READY", "BLOCKED", "DONE"}]

\* The unit of a resource is either available or allocated, to one process:
\* releases, grants and the clean-up of victims neither lose nor double it.
UnitsAreConserved ==
    \A r \in Resources :
        LET holders == {p \in Pids : graph.allocation[p][r] > 0}
        IN  graph.available[r] + Cardinality(holders) = 1

\* A blocked process is registered at what it has asked for, and that is not
\* available: no grant is forgotten, whatever the order of clean-ups.
BlockedIsRegistered ==
    \A p \in Pids : thread[p] = "BLOCKED" =>
        LET r == Wants[p][phase[p]]
        IN  /\ graph.active[p] /\ graph.request[p][r] = 1
            /\ Contains(graph.wait[r], p)
            /\ graph.available[r] = 0

\* The wait-for relation, and the processes that wait for themselves through
\* it: p is in every set that holds what p waits for and what its members
\* wait for.
WaitsFor(p) == {q \in Pids : /\ p # q /\ graph.active[p] /\ graph.active[q]
                             /\ \E r \in Resources : /\ graph.request[p][r] > 0
                                                     /\ graph.allocation[q][r] > 0}
Deadlocked ==
    LET Closed == {S \in SUBSET Pids : \A p \in S : WaitsFor(p) \subseteq S}
    IN  {p \in Pids : \A S \in Closed : WaitsFor(p) \subseteq S => p \in S}

\* The search reports a deadlock if and only if there is one, and everyone it
\* suspects is part of it: no innocent process is sacrificed.
DetectionIsExact == Suspects(graph) = Deadlocked

\* After a victim has been removed there is no deadlock left at all, and one of
\* the others has got what it was waiting for.
DetectionBreaksDeadlock ==
    [][Detect => /\ Deadlocked' = {}
                 /\ \E p \in Deadlocked, r \in Resources :
                        graph.request[p][r] > 0 /\ graph'.allocation[p][r] > 0]_vars

\* A deadlock does not last.
DeadlockIsBroken == (Deadlocked # {}) ~> (Deadlocked = {})
=============================================================================
