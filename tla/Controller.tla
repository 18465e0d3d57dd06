----------------------------- MODULE Controller ------------------------------
(***************************************************************************)
(* src/web/server.py: the server between the pages and the simulators it   *)
(* starts.  Its threads are the handlers, one for each event a page sends, *)
(* the steppers (_auto_step) and the readers (_read_output).  They share   *)
(* the variable sim and the attributes of the SimulatorController objects, *)
(* and take no lock.  Another thread may run between any two statements;   *)
(* statements between which that makes no difference are one step here.    *)
(* A simulator is the prompt of Console behind a pipe, and plays ticks.    *)
(***************************************************************************)
EXTENDS Integers, SequencesExt

CONSTANTS
    Loads,          \* what the pages send: which events, how many of them, and
                    \* how many are handled at a time
    MaxSteppers,    \* how many steppers are alive at a time
    MaxRuns,        \* how many simulators are started
    MaxTicks,       \* the ticks of a run, --ticks
    MaxLines        \* the lines a pipe holds before a writer blocks

Requests == {"start", "resume", "pause", "step", "stop", "run_compare"}

ASSUME ControllerAssumption ==
    /\ Loads \subseteq [requests : Nat, handlers : Nat, events : SUBSET Requests]
    /\ {MaxSteppers, MaxRuns, MaxTicks, MaxLines} \subseteq Nat \ {0}

C == INSTANCE Console

VARIABLES
    sim,        \* sim, None or an index of obj
    obj,        \* the controllers: proc, paused, _running, _step_thread
    child,      \* the simulators, in the order of their start
    handler, stepper, reader,   \* the threads; who has ended makes room
    requests    \* which events, and how many of them, are still to be sent

vars == <<sim, obj, child, handler, stepper, reader, requests>>

None == 0
Idle == [pc |-> "idle"]
Live(threads) == {t \in DOMAIN threads : threads[t] # Idle}
\* Where the next thread goes; reader has room for all of them.
Free(threads) == {t \in DOMAIN threads :
                    threads[t] = Idle /\ \A u \in DOMAIN threads : threads[u] = Idle => t <= u}

NewObject == [proc |-> None, paused |-> TRUE, running |-> FALSE, stepper |-> None]

\* played is its current_tick; written counts the steps written to it and quit says
\* that it was told to quit, for the properties.
NewChild(compare) ==
    [alive |-> TRUE, compare |-> compare, console |-> C!Prompt, input |-> C!NoInput,
     played |-> 0, written |-> 0, quit |-> FALSE]
\* Nothing else matters of a child that has ended.
Dead == [NewChild(FALSE) EXCEPT !.alive = FALSE]

Init == /\ sim = None
        /\ obj = <<>> /\ child = <<>>
        /\ \E load \in Loads : /\ requests = [left |-> load.requests, events |-> load.events]
                               /\ handler = [h \in 1..load.handlers |-> Idle]
        /\ stepper = [s \in 1..MaxSteppers |-> Idle]
        /\ reader = [r \in 1..MaxRuns |-> Idle]

-----------------------------------------------------------------------------
(* Pipes *)

\* self.proc.stdin.write and flush raise without a child, or when it has ended.  They
\* read self.proc once each, and so do poll and terminate; here a child is looked up
\* once.
Accepting == {c \in DOMAIN child : child[c].alive}
Raises(c) == c \notin Accepting
Write(c, line) ==
    IF Raises(c) THEN child
    ELSE [child EXCEPT ![c].input.pipe = Append(@, line),
                       ![c].written = IF line = C!Step THEN @ + 1 ELSE @,
                       ![c].quit = @ \/ line = C!QuitLine]
Full(c) == c \in {d \in Accepting : Len(child[d].input.pipe) >= MaxLines}

-----------------------------------------------------------------------------
(* The handlers *)

Starting == {"start", "run_compare"}
Starts(h) == handler[h].request \in Starting
Handling(some) == {h \in Live(handler) : handler[h].request \in some}

\* A page sends a request; python-socketio gives each a thread of its own.
Send(request) ==
    /\ requests.left > 0 /\ request \in requests.events
    /\ requests' = [requests EXCEPT !.left = @ - 1]
    /\ request \in Starting => Len(child) + Cardinality(Handling(Starting)) < MaxRuns
    /\ request = "resume" =>
          Cardinality(Live(stepper)) + Cardinality(Handling({"resume"})) < MaxSteppers
    /\ \E h \in Free(handler) : handler' = [handler EXCEPT ![h] =
          [request |-> request, self |-> None, child |-> None,
           pc |-> IF request \in Starting THEN "look" ELSE "call"]]
    /\ UNCHANGED <<sim, obj, child, stepper, reader>>

\* Handler h is at from and goes on to to.
At(h, from, to) ==
    /\ handler[h].pc = from
    /\ handler' = [handler EXCEPT ![h] = IF to = "idle" THEN Idle ELSE [@ EXCEPT !.pc = to]]
    /\ UNCHANGED requests
Self(h) == obj[handler[h].self]

\* if sim is None: sim = SimulatorController().
Look(h) ==
    /\ At(h, "look", IF sim = None THEN "create" ELSE "call")
    /\ UNCHANGED <<sim, obj, child, stepper, reader>>
Create(h) ==
    /\ At(h, "create", "call")
    /\ obj' = Append(obj, NewObject)
    /\ sim' = Len(obj')
    /\ UNCHANGED <<child, stepper, reader>>

\* sim.start(), if sim: sim.resume() ...: nothing comes of it when sim is None, be it
\* that None raises.
Call(h) ==
    /\ handler[h].pc = "call"
    /\ handler' = [handler EXCEPT ![h] =
           IF sim = None THEN Idle ELSE [@ EXCEPT !.self = sim, !.pc = "method"]]
    /\ UNCHANGED <<sim, obj, child, stepper, reader, requests>>

\* stop(), with which start() and run_compare() begin.  A write that raises is
\* swallowed.
Halt(h) ==
    LET o == handler[h].self
    IN  /\ handler[h].request = "stop" \/ Starts(h)
        /\ At(h, "method", IF Self(h).running /\ Self(h).proc # None THEN "ask" ELSE "forget")
        /\ obj' = [obj EXCEPT ![o].paused = TRUE]
        /\ UNCHANGED <<sim, child, stepper, reader>>
Ask(h) ==
    LET c == Self(h).proc
    IN  /\ At(h, "ask", "nap") /\ ~ Full(c)
        /\ child' = Write(c, C!QuitLine)
        /\ UNCHANGED <<sim, obj, stepper, reader>>

\* Mutant of Terminate: it waits for the child to end by itself.
WaitForEnd(h) ==
    /\ At(h, "nap", "forget")
    /\ Raises(Self(h).proc)
    /\ UNCHANGED <<sim, obj, child, stepper, reader>>

\* After time.sleep(0.3), which promises nothing about what the others have done.
Terminate(h) ==
    LET c == Self(h).proc
    IN  /\ At(h, "nap", "forget")
        /\ child' = IF Raises(c) THEN child ELSE [child EXCEPT ![c] = Dead]
        /\ UNCHANGED <<sim, obj, stepper, reader>>

Forget(h) ==
    /\ At(h, "forget", IF Starts(h) THEN "ready" ELSE "unset")
    /\ obj' = [obj EXCEPT ![handler[h].self].proc = None, ![handler[h].self].running = FALSE]
    /\ UNCHANGED <<sim, child, stepper, reader>>
Unset(h) ==
    /\ At(h, "unset", "idle")
    /\ sim' = None
    /\ UNCHANGED <<obj, child, stepper, reader>>

\* When object o is unpaused its steppers are forgiven their late step.
Forgiven(o) == [s \in DOMAIN stepper |->
    IF s \in Live(stepper) /\ stepper[s].self = o THEN [stepper[s] EXCEPT !.late = 0]
    ELSE stepper[s]]

\* The flags, and subprocess.Popen.
Popen(h) ==
    LET o == handler[h].self
        compare == handler[h].request = "run_compare"
    IN  /\ handler[h].pc = "ready"
        /\ obj' = [obj EXCEPT ![o].paused = ~ compare, ![o].running = TRUE]
        /\ stepper' = IF compare THEN Forgiven(o) ELSE stepper
        /\ child' = Append(child, NewChild(compare))
        /\ handler' = [handler EXCEPT ![h].pc = "assign", ![h].child = Len(child')]
        /\ UNCHANGED <<sim, reader, requests>>
\* self.proc = what Popen returns; the reader is started.
Assign(h) ==
    LET o == handler[h].self
    IN  /\ At(h, "assign", "idle")
        /\ obj' = [obj EXCEPT ![o].proc = handler[h].child]
        /\ \E r \in Free(reader) :
              reader' = [reader EXCEPT ![r] = [self |-> o, pc |-> "open", child |-> None]]
        /\ UNCHANGED <<sim, child, stepper>>

\* resume(): the flags, the check and the start of a thread are three steps.
Resume(h) ==
    LET o == handler[h].self
        runs == Self(h).running
    IN  /\ handler[h].request = "resume"
        /\ At(h, "method", IF runs THEN "check" ELSE "idle")
        /\ obj' = IF runs THEN [obj EXCEPT ![o].paused = FALSE] ELSE obj
        /\ stepper' = IF runs THEN Forgiven(o) ELSE stepper
        /\ UNCHANGED <<sim, child, reader>>
Check(h) ==
    /\ At(h, "check", IF Self(h).stepper \in Live(stepper) THEN "idle" ELSE "thread")
    /\ UNCHANGED <<sim, obj, child, stepper, reader>>
StartStepper(h) ==
    LET o == handler[h].self
    IN  /\ At(h, "thread", "idle")
        /\ \E s \in Free(stepper) :
              /\ stepper' = [stepper EXCEPT ![s] = [self |-> o, pc |-> "loop", late |-> 0]]
              /\ obj' = [obj EXCEPT ![o].stepper = s]
        /\ UNCHANGED <<sim, child, reader>>

Pause(h) ==
    /\ handler[h].request = "pause"
    /\ At(h, "method", "idle")
    /\ obj' = [obj EXCEPT ![handler[h].self].paused = TRUE]
    /\ UNCHANGED <<sim, child, stepper, reader>>

\* step_sim(): as swallowing as stop().
StepSim(h) ==
    /\ handler[h].request = "step"
    /\ At(h, "method", IF Self(h).running THEN "step" ELSE "idle")
    /\ UNCHANGED <<sim, obj, child, stepper, reader>>
WriteStep(h) ==
    LET c == Self(h).proc
    IN  /\ At(h, "step", "idle") /\ ~ Full(c)
        /\ child' = Write(c, C!Step)
        /\ UNCHANGED <<sim, obj, stepper, reader>>

-----------------------------------------------------------------------------
(* The steppers *)

\* Mutant of Stepping: a stepper does not look at paused.
SteppingOn(s) == obj[stepper[s].self].running

Stepping(s) == LET o == obj[stepper[s].self] IN ~ o.paused /\ o.running

StepperAt(s, from, to) ==
    /\ stepper[s].pc = from
    /\ stepper' = [stepper EXCEPT ![s].pc = to]
    /\ UNCHANGED <<sim, obj, child, handler, reader, requests>>
\* To its controller a thread that is not alive is as good as None.
StepperEnds(s) ==
    /\ stepper' = [stepper EXCEPT ![s] = Idle]
    /\ obj' = [o \in DOMAIN obj |->
                 IF obj[o].stepper = s THEN [obj[o] EXCEPT !.stepper = None] ELSE obj[o]]
    /\ UNCHANGED <<sim, child, handler, reader, requests>>

Loop(s) == Stepping(s) /\ StepperAt(s, "loop", "sleep")
LoopEnds(s) == stepper[s].pc = "loop" /\ ~ Stepping(s) /\ StepperEnds(s)
\* After time.sleep(self.speed).
Awake(s) == StepperAt(s, "sleep", IF Stepping(s) THEN "write" ELSE "loop")

AutoStep(s) ==
    LET o == obj[stepper[s].self]
    IN  /\ stepper[s].pc = "write" /\ ~ Raises(o.proc) /\ ~ Full(o.proc)
        /\ child' = Write(o.proc, C!Step)
        /\ stepper' = [stepper EXCEPT ![s].pc = "loop", ![s].late = IF o.paused THEN @ + 1 ELSE @]
        /\ UNCHANGED <<sim, obj, handler, reader, requests>>
\* except: break
Break(s) == stepper[s].pc = "write" /\ Raises(obj[stepper[s].self].proc) /\ StepperEnds(s)

-----------------------------------------------------------------------------
(* The readers *)

\* for line in self.proc.stdout: the child is looked up by the new thread.
OpenOutput(r) ==
    LET c == obj[reader[r].self].proc
    IN  /\ reader[r].pc = "open"
        /\ reader' = [reader EXCEPT ![r].child = c,
                                    ![r].pc = IF c = None THEN "finally" ELSE "lines"]
        /\ UNCHANGED <<sim, obj, child, handler, stepper, requests>>
\* Mutant of Finally: an end by itself, without stop, is not noticed.
FinallyUnnoticed(r) ==
    /\ \/ reader[r].pc = "finally"
       \/ reader[r].pc = "lines" /\ ~ child[reader[r].child].alive
    /\ reader' = [reader EXCEPT ![r] = Idle]
    /\ UNCHANGED <<sim, obj, child, handler, stepper, requests>>

\* The lines are passed on to the pages, up to the end of the child; finally:
Finally(r) ==
    /\ \/ reader[r].pc = "finally"
       \/ reader[r].pc = "lines" /\ ~ child[reader[r].child].alive
    /\ obj' = [obj EXCEPT ![reader[r].self].running = FALSE]
    /\ reader' = [reader EXCEPT ![r] = Idle]
    /\ UNCHANGED <<sim, child, handler, stepper, requests>>

-----------------------------------------------------------------------------
(* The simulators *)

Interactive(c) == child[c].alive /\ ~ child[c].compare

\* Child c becomes what its next step makes of it.
ChildBecomes(c, next) == /\ child' = [child EXCEPT ![c] = next]
                         /\ UNCHANGED <<sim, obj, handler, stepper, reader, requests>>

\* At the prompt: one line is read and obeyed.
ReadLine(c) ==
    LET in == child[c].input
        line == C!NextLine(in)
    IN  /\ Interactive(c) /\ C!Waits(child[c].console)
        /\ C!Ready(in)
        /\ ChildBecomes(c, IF line = C!QuitLine THEN Dead
                           ELSE [child[c] EXCEPT !.input = C!Without(in),
                                                 !.console = C!obey(@, line)])

\* One tick; the loop ends at max_ticks, or with the last of the processes.
PlayTick(c) ==
    LET played == [child[c] EXCEPT !.console = C!play(@), !.played = @ + 1]
    IN  /\ Interactive(c) /\ ~ C!Waits(child[c].console)
        /\ \/ played.played < MaxTicks /\ ChildBecomes(c, played)
           \/ ChildBecomes(c, Dead)

\* With --compare both runs are played through and stdin is never read.
Compare(c) == child[c].alive /\ child[c].compare /\ ChildBecomes(c, Dead)

-----------------------------------------------------------------------------
HandlerStep == \E h \in Live(handler) :
    \/ Look(h) \/ Create(h) \/ Call(h)
    \/ Halt(h) \/ Ask(h) \/ Terminate(h) \/ Forget(h) \/ Unset(h) \/ Popen(h) \/ Assign(h)
    \/ Resume(h) \/ Check(h) \/ StartStepper(h)
    \/ Pause(h) \/ StepSim(h) \/ WriteStep(h)
StepperStep == \E s \in Live(stepper) :
    Loop(s) \/ LoopEnds(s) \/ Awake(s) \/ AutoStep(s) \/ Break(s)
ReaderStep == \E r \in Live(reader) : OpenOutput(r) \/ Finally(r)
ChildStep == \E c \in DOMAIN child : ReadLine(c) \/ PlayTick(c) \/ Compare(c)

System == HandlerStep \/ StepperStep \/ ReaderStep \/ ChildStep
Next == (\E request \in Requests : Send(request)) \/ System

\* Every thread and every process gets the processor again and again; nobody has to
\* touch a page.  All of them come to rest, so fairness to one step is enough.
Spec == Init /\ [][Next]_vars /\ WF_vars(System)

-----------------------------------------------------------------------------
(* Properties *)

Steps(lines) == Cardinality({i \in DOMAIN lines : lines[i] = C!Step})

\* Between the server and the ticks no step is lost, doubled or made up, whoever
\* wrote it: it is in the pipe, in stdio, about to be played, or has been played.
StepsAreConserved ==
    \A c \in DOMAIN child : child[c].alive =>
        child[c].written = child[c].played + child[c].console.target
                           + Steps(child[c].input.stdio) + Steps(child[c].input.pipe)

\* Pause, and everything else that pauses, is obeyed but for the one step that a
\* stepper is about to write.
OneLateStep == \A s \in Live(stepper) : stepper[s].late <= 1

\* A child that was told to quit ends, although the line can stay behind a step in
\* stdio where select does not see it: the terminate ends it there.  Where requests
\* overlap the terminate can hit another child, and one whose quit stands in stdio
\* is left at its prompt for ever; every other one ends all the same.
Missed(c) == Len(handler) > 1 /\ Contains(child[c].input.stdio, C!QuitLine)
QuitChildEnds == []<>(\A c \in Accepting : child[c].quit => Missed(c))

\* A controller does not go on for good taking a child that has ended for a running
\* one, which would keep resume and step alive without anything to step.
EndIsNoticed ==
    []<>(\A o \in DOMAIN obj : obj[o].running => obj[o].proc = None \/ obj[o].proc \in Accepting)

\* "Simülasyon durdu" (the simulation has stopped; web/static/js/dashboard.js:647):
\* once the server has let go of its controller, what still runs comes to its end.
StopEndsTheRun == []<>(sim = None => Accepting = {})
=============================================================================
