-------------------------- MODULE ControllerProofs ---------------------------
(* The threads of the web server and the simulators they start, for every     *)
(* number of requests, threads, runs, ticks and lines in a pipe.              *)
EXTENDS Controller, DataProofs

-----------------------------------------------------------------------------
(* What every step finds and leaves behind *)

\* The attributes of a controller.
Objects == [proc : Nat, paused : BOOLEAN, running : BOOLEAN, stepper : Nat]

\* A handler knows its controller from the moment it calls a method, and no
\* controller ever goes away.
Statements == {"look", "create", "call", "method", "ask", "nap", "forget", "unset", "ready",
               "assign", "check", "thread", "step", "idle"}
Handlers == [request : Requests, self : Nat, child : Nat, pc : Statements]
Methods(h, objects) == h.pc \notin {"look", "create", "call"} => h.self \in DOMAIN objects
HandlersKnow(handlers, objects) ==
    /\ handlers \in [DOMAIN handlers -> Handlers \cup {Idle}]
    /\ \A h \in Live(handlers) : Methods(handlers[h], objects)

\* A stepper that wrote after a pause is back at the top of its loop, and the
\* pause is still on: it finds it there before it can write again.
Steppers == [self : Nat, pc : {"loop", "sleep", "write"}, late : 0..1]
Obeys(s, objects) ==
    /\ s.self \in DOMAIN objects
    /\ s.late = 1 => objects[s.self].paused /\ s.pc = "loop"
SteppersObey(steppers, objects) ==
    /\ steppers \in [1..MaxSteppers -> Steppers \cup {Idle}]
    /\ \A s \in Live(steppers) : Obeys(steppers[s], objects)

ThreadsInv == /\ obj \in Seq(Objects) /\ sim \in 0..Len(obj)
              /\ HandlersKnow(handler, obj) /\ SteppersObey(stepper, obj)

\* All that the server writes.
Lines == {C!Step, C!QuitLine}
Consoles == [paused : BOOLEAN, target : Nat]
Inputs == [pipe : Seq(Lines), stdio : Seq(Lines)]
Children == [alive : BOOLEAN, compare : BOOLEAN, console : Consoles, input : Inputs,
             played : Nat, written : Nat, quit : BOOLEAN]
\* A prompt that pauses has nothing left to play.
Balanced(k) ==
    /\ k.console.paused => k.console.target = 0
    /\ k.alive => k.written = k.played + k.console.target
                              + Steps(k.input.stdio) + Steps(k.input.pipe)
GoodChildren == {k \in Children : Balanced(k)}

ChildrenInv == child \in Seq(GoodChildren)

IInv == ThreadsInv /\ ChildrenInv

-----------------------------------------------------------------------------
(* Lines and children *)

LEMMA ReplaceElement ==
    ASSUME NEW S, NEW s \in Seq(S), NEW i, NEW x \in S
    PROVE  /\ [s EXCEPT ![i] = x] \in Seq(S)
           /\ Len([s EXCEPT ![i] = x]) = Len(s)
<1>1. s \in [1..Len(s) -> S] /\ Len(s) \in Nat
  OBVIOUS
<1> DEFINE t == [s EXCEPT ![i] = x]
<1>2. t \in [1..Len(s) -> S]
  BY <1>1, Zenon
<1> HIDE DEF t
<1>3. t \in Seq(S) /\ Len(t) = Len(s)
  BY <1>1, <1>2
<1> QED
  BY <1>3 DEF t

LEMMA StepsCount ==
    ASSUME NEW s \in Seq(Lines)
    PROVE  /\ Steps(s) \in Nat
           /\ \A line \in Lines : Steps(Append(s, line)) = Steps(s) + IF line = C!Step THEN 1 ELSE 0
           /\ s # << >> => Steps(s) = Steps(Tail(s)) + IF Head(s) = C!Step THEN 1 ELSE 0
<1>1. \A r : Steps(r) = Count(r, C!Step)
  BY DEF Steps, Count
<1>2. Count(s, C!Step) \in Nat
  BY CountFinite
<1>3. ASSUME NEW line \in Lines
      PROVE  Count(Append(s, line), C!Step) = Count(s, C!Step) + IF line = C!Step THEN 1 ELSE 0
  BY CountAppend
<1>4. ASSUME s # << >>
      PROVE  Count(s, C!Step) = Count(Tail(s), C!Step) + IF Head(s) = C!Step THEN 1 ELSE 0
  BY <1>4, CountTail
<1> QED
  BY <1>1, <1>2, <1>3, <1>4

LEMMA NoSteps == Steps(<< >>) = 0
  BY CountEmpty DEF Steps, Count

LEMMA LinesDiffer == C!Step \in Lines /\ C!QuitLine \in Lines /\ C!Step # C!QuitLine
  BY DEF Lines, C!Step, C!QuitLine, C!Line

\* A child begins, and ends, in balance.
LEMMA NewChildren ==
    /\ \A compare \in BOOLEAN : NewChild(compare) \in GoodChildren
    /\ Dead \in GoodChildren
<1>1. << >> \in Seq(Lines) /\ Steps(<< >>) = 0
  BY NoSteps
<1>2. ASSUME NEW compare \in BOOLEAN
      PROVE  NewChild(compare) \in Children /\ Balanced(NewChild(compare))
  BY <1>1 DEF NewChild, Children, Consoles, Inputs, Balanced, C!Prompt, C!NoInput
<1>3. Dead \in Children /\ Balanced(Dead)
  BY <1>1 DEF Dead, NewChild, Children, Consoles, Inputs, Balanced, C!Prompt, C!NoInput
<1> QED
  BY <1>2, <1>3 DEF GoodChildren

\* What is written is counted, or it raises and nothing happens.
LEMMA WriteBalances ==
    ASSUME ChildrenInv, NEW c, NEW line \in Lines
    PROVE  Write(c, line) \in Seq(GoodChildren)
<1>1. CASE Raises(c)
  BY <1>1 DEF Write, ChildrenInv
<1>2. CASE ~ Raises(c)
  <2>1. c \in DOMAIN child /\ child[c].alive
    BY <1>2 DEF Raises, Accepting
  <2> DEFINE k == child[c]
             more == IF line = C!Step THEN 1 ELSE 0
             pipe == Append(k.input.pipe, line)
             written == IF line = C!Step THEN k.written + 1 ELSE k.written
             quit == k.quit \/ line = C!QuitLine
             l == [k EXCEPT !.input.pipe = pipe, !.written = written, !.quit = quit]
  <2>2. k \in Children /\ Balanced(k)
    BY <2>1 DEF ChildrenInv, GoodChildren
  <2>3. /\ k.input.pipe \in Seq(Lines) /\ pipe \in Seq(Lines)
        /\ Steps(pipe) = Steps(k.input.pipe) + more
        /\ Steps(k.input.pipe) \in Nat /\ Steps(k.input.stdio) \in Nat
    BY <2>2, StepsCount DEF Children, Inputs
  <2>4. written \in Nat /\ written = k.written + more /\ quit \in BOOLEAN
    BY <2>2 DEF Children
  <2>5. Write(c, line) = [child EXCEPT ![c] = l]
    BY <1>2 DEF Write
  <2> HIDE DEF pipe, written, quit, more
  <2>6. l \in Children
    BY <2>2, <2>3, <2>4 DEF Children, Inputs
  <2>7. /\ l.console = k.console /\ (l.alive <=> k.alive) /\ l.played = k.played
        /\ l.written = written /\ l.input.pipe = pipe /\ l.input.stdio = k.input.stdio
    BY <2>2 DEF Children, Inputs
  <2>8. more \in Nat /\ k.played \in Nat /\ k.console.target \in Nat /\ k.written \in Nat
    BY <2>2 DEF Children, Consoles, more
  <2>9. Balanced(l)
    <3>1. k.alive => k.written = k.played + k.console.target + Steps(k.input.stdio)
                                 + Steps(k.input.pipe)
      BY <2>2 DEF Balanced
    <3>2. k.alive => written = k.played + k.console.target + Steps(k.input.stdio) + Steps(pipe)
      BY <2>3, <2>4, <2>8, <3>1
    <3>3. k.console.paused => k.console.target = 0
      BY <2>2 DEF Balanced
    <3> HIDE DEF l
    <3> QED
      BY <2>7, <3>2, <3>3 DEF Balanced
  <2>10. l \in GoodChildren
    BY <2>6, <2>9 DEF GoodChildren
  <2> HIDE DEF l
  <2> QED
    BY <2>5, <2>10, ReplaceElement DEF ChildrenInv
<1> QED
  BY <1>1, <1>2

LEMMA HeadConcat ==
    ASSUME NEW S, NEW s \in Seq(S), NEW t \in Seq(S), s # << >>
    PROVE  Head(s \o t) = Head(s) /\ Head(s) \in S
<1> DEFINE u == s \o t
<1>1. Len(s) \in Nat /\ Len(s) > 0 /\ Len(t) \in Nat /\ Head(s) = s[1] /\ Head(s) \in S
  OBVIOUS
<1>2. u \in Seq(S) /\ Len(u) = Len(s) + Len(t) /\ u[1] = s[1]
  BY <1>1
<1> HIDE DEF u
<1>3. Head(u) = u[1]
  BY <1>1, <1>2
<1> QED
  BY <1>1, <1>2, <1>3 DEF u

\* fgets takes the line it returns out of the input and no other.
LEMMA LineTaken ==
    ASSUME NEW in \in Inputs, C!Ready(in)
    PROVE  /\ C!NextLine(in) \in Lines /\ C!Without(in) \in Inputs
           /\ Steps(in.stdio) + Steps(in.pipe)
                = Steps(C!Without(in).stdio) + Steps(C!Without(in).pipe)
                  + IF C!NextLine(in) = C!Step THEN 1 ELSE 0
<1>1. /\ in.stdio \in Seq(Lines) /\ in.pipe \in Seq(Lines) /\ << >> \in Seq(Lines)
      /\ Steps(in.stdio) \in Nat /\ Steps(in.pipe) \in Nat /\ Steps(<< >>) = 0
  BY StepsCount, NoSteps DEF Inputs
<1>2. CASE in.stdio # << >>
  <2>1. Head(in.stdio \o in.pipe) = Head(in.stdio) /\ Head(in.stdio) \in Lines
    BY <1>1, <1>2, HeadConcat
  <2>2. Tail(in.stdio) \in Seq(Lines)
    BY <1>1, <1>2
  <2>3. C!NextLine(in) = Head(in.stdio)
    BY <2>1 DEF C!NextLine
  <2>4. C!Without(in) = [pipe |-> in.pipe, stdio |-> Tail(in.stdio)]
    BY <1>2 DEF C!Without, Inputs
  <2>5. /\ Steps(Tail(in.stdio)) \in Nat
        /\ Steps(in.stdio) = Steps(Tail(in.stdio)) + IF Head(in.stdio) = C!Step THEN 1 ELSE 0
    BY <1>1, <1>2, <2>2, StepsCount
  <2>6. /\ C!Without(in) \in Inputs
        /\ C!Without(in).pipe = in.pipe /\ C!Without(in).stdio = Tail(in.stdio)
    BY <1>1, <2>2, <2>4 DEF Inputs
  <2> QED
    BY <1>1, <2>1, <2>3, <2>5, <2>6
<1>3. CASE in.stdio = << >>
  <2>1. in.pipe # << >>
    BY <1>3 DEF C!Ready
  <2>2. Tail(in.pipe) \in Seq(Lines) /\ Head(in.pipe) \in Lines
    BY <1>1, <2>1
  <2>3. in.stdio \o in.pipe = in.pipe
    BY <1>1, <1>3
  <2>4. C!NextLine(in) = Head(in.pipe)
    BY <2>3 DEF C!NextLine
  <2>5. C!Without(in) = [pipe |-> << >>, stdio |-> Tail(in.pipe)]
    BY <1>3 DEF C!Without
  <2>6. /\ Steps(Tail(in.pipe)) \in Nat
        /\ Steps(in.pipe) = Steps(Tail(in.pipe)) + IF Head(in.pipe) = C!Step THEN 1 ELSE 0
    BY <1>1, <2>1, <2>2, StepsCount
  <2>7. /\ C!Without(in) \in Inputs
        /\ C!Without(in).pipe = << >> /\ C!Without(in).stdio = Tail(in.pipe)
    BY <1>1, <2>2, <2>5 DEF Inputs
  <2> QED
    BY <1>1, <1>3, <2>2, <2>4, <2>6, <2>7
<1> QED
  BY <1>2, <1>3

\* What is obeyed is a step, and only when there is nothing left to play.
LEMMA ReadBalances ==
    ASSUME ChildrenInv, NEW c \in DOMAIN child, ReadLine(c)
    PROVE  ChildrenInv'
<1> DEFINE k == child[c]
           line == C!NextLine(k.input)
           left == C!Without(k.input)
<1>1. k \in Children /\ Balanced(k) /\ k.alive
  BY DEF ReadLine, Interactive, ChildrenInv, GoodChildren
<1>2. k.input \in Inputs /\ C!Ready(k.input) /\ k.console \in Consoles /\ C!Waits(k.console)
  BY <1>1 DEF ReadLine, Children
<1>3. /\ line \in Lines /\ left \in Inputs
      /\ Steps(k.input.stdio) + Steps(k.input.pipe)
           = Steps(left.stdio) + Steps(left.pipe) + IF line = C!Step THEN 1 ELSE 0
  BY <1>2, LineTaken
<1>4. k.console.target = 0
  BY <1>1, <1>2 DEF C!Waits, Balanced, Consoles
<1>5. CASE line = C!QuitLine
  <2>1. child' = [child EXCEPT ![c] = Dead]
    BY <1>5 DEF ReadLine, ChildBecomes
  <2> QED
    BY <2>1, NewChildren, ReplaceElement DEF ChildrenInv
<1>6. CASE line = C!Step
  <2> DEFINE console == [paused |-> FALSE, target |-> 1]
             l == [k EXCEPT !.input = left, !.console = console]
  <2>1. C!obey(k.console, line) = console
    BY <1>6 DEF C!obey, C!Step, C!Line
  <2>2. line # C!QuitLine
    BY <1>6, LinesDiffer
  <2>3. child' = [child EXCEPT ![c] = [k EXCEPT !.input = left, !.console = C!obey(k.console, line)]]
    BY <2>2, <1>1 DEF ReadLine, ChildBecomes, Children
  <2>4. child' = [child EXCEPT ![c] = l]
    BY <2>1, <2>3
  <2>5. console \in Consoles /\ ~ console.paused /\ console.target = 1
    BY DEF Consoles
  <2> HIDE DEF console, left, line
  <2>6. l \in Children
    BY <1>1, <1>3, <2>5 DEF Children
  <2>7. /\ l.console = console /\ (l.alive <=> k.alive) /\ l.played = k.played
        /\ l.written = k.written /\ l.input = left
    BY <1>1 DEF Children
  <2>8. /\ k.written \in Nat /\ k.played \in Nat
        /\ Steps(left.stdio) \in Nat /\ Steps(left.pipe) \in Nat
        /\ Steps(k.input.stdio) \in Nat /\ Steps(k.input.pipe) \in Nat
    BY <1>1, <1>2, <1>3, StepsCount DEF Children, Inputs
  <2>9. k.written = k.played + 0 + Steps(k.input.stdio) + Steps(k.input.pipe)
    BY <1>1, <1>4 DEF Balanced
  <2>10. k.written = k.played + 1 + Steps(left.stdio) + Steps(left.pipe)
    BY <1>3, <1>6, <2>8, <2>9
  <2> HIDE DEF l
  <2>11. l \in GoodChildren
    BY <2>5, <2>6, <2>7, <2>10 DEF GoodChildren, Balanced
  <2> QED
    BY <2>4, <2>11, ReplaceElement DEF ChildrenInv
<1> QED
  BY <1>3, <1>5, <1>6 DEF Lines

\* A tick takes a step from the target to the ticks that were played.
LEMMA PlayBalances ==
    ASSUME ChildrenInv, NEW c \in DOMAIN child, PlayTick(c)
    PROVE  ChildrenInv'
<1> DEFINE k == child[c]
           console == [k.console EXCEPT !.target = k.console.target - 1]
           l == [k EXCEPT !.console = console, !.played = k.played + 1]
<1>1. k \in Children /\ Balanced(k) /\ k.alive
  BY DEF PlayTick, Interactive, ChildrenInv, GoodChildren
<1>2. child' = [child EXCEPT ![c] = l] \/ child' = [child EXCEPT ![c] = Dead]
  BY <1>1 DEF PlayTick, ChildBecomes, C!play
<1>3. k.console \in Consoles /\ ~ k.console.paused /\ k.console.target \in Nat \ {0}
  BY <1>1 DEF PlayTick, C!Waits, Children, Consoles
<1>4. console \in Consoles /\ ~ console.paused /\ console.target = k.console.target - 1
  BY <1>3 DEF Consoles
<1> HIDE DEF console
<1>5. l \in Children
  <2>1. k.played + 1 \in Nat
    BY <1>1 DEF Children
  <2> QED
    BY <1>1, <1>4, <2>1 DEF Children
<1>6. /\ l.console = console /\ (l.alive <=> k.alive) /\ l.played = k.played + 1
      /\ l.written = k.written /\ l.input = k.input
  BY <1>1 DEF Children
<1>7. /\ k.written \in Nat /\ k.played \in Nat
      /\ Steps(k.input.stdio) \in Nat /\ Steps(k.input.pipe) \in Nat
  BY <1>1, StepsCount DEF Children, Inputs
<1>8. k.written = k.played + k.console.target + Steps(k.input.stdio) + Steps(k.input.pipe)
  BY <1>1 DEF Balanced
<1> HIDE DEF l
<1>9. k.written = (k.played + 1) + (k.console.target - 1) + Steps(k.input.stdio) + Steps(k.input.pipe)
  <2>1. \A w, p, t, i, j \in Int : w = p + t + i + j => w = (p + 1) + (t - 1) + i + j
    OBVIOUS
  <2>2. k.console.target \in Int
    BY <1>3
  <2> QED
    BY <1>7, <1>8, <2>1, <2>2
<1>10. l \in GoodChildren
  BY <1>4, <1>5, <1>6, <1>9 DEF GoodChildren, Balanced
<1> QED
  BY <1>2, <1>10, NewChildren, ReplaceElement DEF ChildrenInv

-----------------------------------------------------------------------------
(* Threads and controllers *)

First == {"look", "create", "call"}

\* Handler h has gone on to statement to, or has ended.
Goes(old, new, h, to) ==
    new = [old EXCEPT ![h] = IF to = "idle" THEN Idle ELSE [old[h] EXCEPT !.pc = to]]
Gone(h) == /\ handler[h].pc \notin First \/ \E to \in First : Goes(handler, handler', h, to)
           /\ \E to \in Statements : Goes(handler, handler', h, to)

LEMMA HandlerBecomes ==
    ASSUME HandlersKnow(handler, obj), NEW h, NEW next,
           handler' = [handler EXCEPT ![h] = next],
           next = Idle \/ (next \in Handlers /\ Methods(next, obj))
    PROVE  HandlersKnow(handler', obj)
  BY DEF HandlersKnow, Live

LEMMA HandlerMoves ==
    ASSUME HandlersKnow(handler, obj), NEW h \in Live(handler), Gone(h)
    PROVE  HandlersKnow(handler', obj)
<1> DEFINE g == handler[h]
<1>1. h \in DOMAIN handler /\ g \in Handlers /\ Methods(g, obj)
  BY DEF HandlersKnow, Live
<1>2. PICK to \in Statements : /\ handler' = [handler EXCEPT ![h] =
                                  IF to = "idle" THEN Idle ELSE [g EXCEPT !.pc = to]]
                          /\ (g.pc \notin First \/ to \in First)
  BY DEF Gone, Goes, First, Statements
<1> DEFINE next == IF to = "idle" THEN Idle ELSE [g EXCEPT !.pc = to]
<1>3. handler' = [handler EXCEPT ![h] = next]
  BY <1>2
<1>4. next = Idle \/ (next \in Handlers /\ Methods(next, obj))
  <2>1. CASE to = "idle"
    BY <2>1
  <2>2. CASE to # "idle"
    <3>1. next = [g EXCEPT !.pc = to]
      BY <2>2
    <3> HIDE DEF next
    <3>2. next \in Handlers /\ next.pc = to /\ next.self = g.self
      BY <1>1, <3>1 DEF Handlers
    <3> QED
      BY <1>1, <1>2, <3>2 DEF Methods, First
  <2> QED
    BY <2>1, <2>2
<1> HIDE DEF next
<1> QED
  BY <1>3, <1>4, HandlerBecomes

\* Where a statement leads.
LEMMA HandlerGoes ==
    ASSUME NEW h,
           \/ Look(h) \/ Create(h)
           \/ Halt(h) \/ Ask(h) \/ Terminate(h) \/ Forget(h) \/ Unset(h) \/ Assign(h)
           \/ Resume(h) \/ Check(h) \/ StartStepper(h)
           \/ Pause(h) \/ StepSim(h) \/ WriteStep(h)
    PROVE  Gone(h)
<1>1. CASE Look(h)
  <2>1. /\ handler[h].pc = "look"
        /\ \/ Goes(handler, handler', h, "create")
           \/ Goes(handler, handler', h, "call")
    BY <1>1 DEF Look, At, Goes
  <2> QED
    BY <2>1 DEF Gone, First, Statements
<1>2. CASE Create(h)
  <2>1. /\ handler[h].pc = "create"
        /\ Goes(handler, handler', h, "call")
    BY <1>2 DEF Create, At, Goes
  <2> QED
    BY <2>1 DEF Gone, First, Statements
<1>3. CASE Halt(h)
  <2>1. /\ handler[h].pc = "method"
        /\ \/ Goes(handler, handler', h, "ask")
           \/ Goes(handler, handler', h, "forget")
    BY <1>3 DEF Halt, At, Goes
  <2> QED
    BY <2>1 DEF Gone, First, Statements
<1>4. CASE Ask(h)
  <2>1. /\ handler[h].pc = "ask"
        /\ Goes(handler, handler', h, "nap")
    BY <1>4 DEF Ask, At, Goes
  <2> QED
    BY <2>1 DEF Gone, First, Statements
<1>5. CASE Terminate(h)
  <2>1. /\ handler[h].pc = "nap"
        /\ Goes(handler, handler', h, "forget")
    BY <1>5 DEF Terminate, At, Goes
  <2> QED
    BY <2>1 DEF Gone, First, Statements
<1>6. CASE Forget(h)
  <2>1. /\ handler[h].pc = "forget"
        /\ \/ Goes(handler, handler', h, "ready")
           \/ Goes(handler, handler', h, "unset")
    BY <1>6 DEF Forget, At, Goes
  <2> QED
    BY <2>1 DEF Gone, First, Statements
<1>7. CASE Unset(h)
  <2>1. /\ handler[h].pc = "unset"
        /\ Goes(handler, handler', h, "idle")
    BY <1>7 DEF Unset, At, Goes
  <2> QED
    BY <2>1 DEF Gone, First, Statements
<1>8. CASE Assign(h)
  <2>1. /\ handler[h].pc = "assign"
        /\ Goes(handler, handler', h, "idle")
    BY <1>8 DEF Assign, At, Goes
  <2> QED
    BY <2>1 DEF Gone, First, Statements
<1>9. CASE Resume(h)
  <2>1. /\ handler[h].pc = "method"
        /\ \/ Goes(handler, handler', h, "check")
           \/ Goes(handler, handler', h, "idle")
    BY <1>9 DEF Resume, At, Goes
  <2> QED
    BY <2>1 DEF Gone, First, Statements
<1>10. CASE Check(h)
  <2>1. /\ handler[h].pc = "check"
        /\ \/ Goes(handler, handler', h, "idle")
           \/ Goes(handler, handler', h, "thread")
    BY <1>10 DEF Check, At, Goes
  <2> QED
    BY <2>1 DEF Gone, First, Statements
<1>11. CASE StartStepper(h)
  <2>1. /\ handler[h].pc = "thread"
        /\ Goes(handler, handler', h, "idle")
    BY <1>11 DEF StartStepper, At, Goes
  <2> QED
    BY <2>1 DEF Gone, First, Statements
<1>12. CASE Pause(h)
  <2>1. /\ handler[h].pc = "method"
        /\ Goes(handler, handler', h, "idle")
    BY <1>12 DEF Pause, At, Goes
  <2> QED
    BY <2>1 DEF Gone, First, Statements
<1>13. CASE StepSim(h)
  <2>1. /\ handler[h].pc = "method"
        /\ \/ Goes(handler, handler', h, "step")
           \/ Goes(handler, handler', h, "idle")
    BY <1>13 DEF StepSim, At, Goes
  <2> QED
    BY <2>1 DEF Gone, First, Statements
<1>14. CASE WriteStep(h)
  <2>1. /\ handler[h].pc = "step"
        /\ Goes(handler, handler', h, "idle")
    BY <1>14 DEF WriteStep, At, Goes
  <2> QED
    BY <2>1 DEF Gone, First, Statements
<1> QED
  BY <1>1, <1>2, <1>3, <1>4, <1>5, <1>6, <1>7, <1>8, <1>9, <1>10, <1>11, <1>12, <1>13, <1>14

\* The step of a handler that leaves the others alone, or makes more controllers, or
\* pauses some.
LEMMA ThreadsKeep ==
    ASSUME ThreadsInv, obj' \in Seq(Objects), Len(obj) <= Len(obj'),
           \A o \in DOMAIN obj : obj[o].paused => obj'[o].paused,
           sim' \in 0..Len(obj'), HandlersKnow(handler', obj), SteppersObey(stepper', obj)
    PROVE  ThreadsInv'
<1>1. DOMAIN obj \subseteq DOMAIN obj'
  BY DEF ThreadsInv
<1>2. HandlersKnow(handler', obj')
  BY <1>1 DEF HandlersKnow, Methods
<1>3. SteppersObey(stepper', obj')
  BY <1>1 DEF SteppersObey, Obeys
<1> QED
  BY <1>2, <1>3 DEF ThreadsInv

LEMMA FunctionSeq ==
    ASSUME NEW S, NEW n \in Nat, NEW f \in [1..n -> S]
    PROVE  f \in Seq(S) /\ Len(f) = n
  OBVIOUS

\* An attribute of controller o is assigned, or two of them.
Assigns(os, o, x, b) ==
    os \in {[obj EXCEPT ![o].proc = x], [obj EXCEPT ![o].running = b],
            [obj EXCEPT ![o].proc = x, ![o].running = b],
            [obj EXCEPT ![o].stepper = x], [obj EXCEPT ![o].paused = TRUE]}

LEMMA Assigned ==
    ASSUME obj \in Seq(Objects), NEW o, NEW x \in Nat, NEW b \in BOOLEAN,
           NEW os, Assigns(os, o, x, b)
    PROVE  /\ os \in Seq(Objects) /\ Len(os) = Len(obj)
           /\ \A p \in DOMAIN obj : obj[p].paused => os[p].paused
<1>1. obj \in [1..Len(obj) -> Objects] /\ Len(obj) \in Nat
  OBVIOUS
<1>2. DOMAIN os = 1..Len(obj)
  BY <1>1 DEF Assigns
<1>3. \A p \in 1..Len(obj) : os[p] \in Objects /\ (obj[p].paused => os[p].paused)
  <2>1. SUFFICES ASSUME NEW p \in 1..Len(obj)
                 PROVE  os[p] \in Objects /\ (obj[p].paused => os[p].paused)
    OBVIOUS
  <2> DEFINE c == obj[p]
  <2>2. c \in Objects
    BY <1>1
  <2>3. \/ os[p] = c
        \/ os[p] = [c EXCEPT !.proc = x]
        \/ os[p] = [c EXCEPT !.running = b]
        \/ os[p] = [c EXCEPT !.proc = x, !.running = b]
        \/ os[p] = [c EXCEPT !.stepper = x]
        \/ os[p] = [c EXCEPT !.paused = TRUE]
    BY <1>1 DEF Assigns
  <2> HIDE DEF c
  <2>4. os[p] \in Objects /\ (c.paused => os[p].paused)
    BY <2>2, <2>3 DEF Objects
  <2> QED
    BY <2>4 DEF c
<1>4. os \in [1..Len(obj) -> Objects]
  BY <1>1, <1>2, <1>3 DEF Assigns
<1> QED
  BY <1>1, <1>3, <1>4

\* Pausing ends no forgiveness, and unpausing forgives all that a stepper is late.
LEMMA Unpaused ==
    ASSUME ThreadsInv, NEW o, NEW b \in BOOLEAN, NEW r \in BOOLEAN,
           obj' = [obj EXCEPT ![o].paused = b, ![o].running = r],
           stepper' = (IF b THEN stepper ELSE Forgiven(o)),
           sim' = sim, HandlersKnow(handler', obj)
    PROVE  ThreadsInv'
<1>1. obj \in [1..Len(obj) -> Objects] /\ Len(obj) \in Nat
  BY DEF ThreadsInv
<1>2. /\ DOMAIN obj' = 1..Len(obj)
      /\ \A p \in 1..Len(obj) : /\ obj'[p] \in Objects
                                /\ p # o => obj'[p].paused = obj[p].paused
                                /\ p = o => obj'[p].paused = b
  BY <1>1 DEF Objects
<1>3. obj' \in Seq(Objects) /\ Len(obj') = Len(obj)
  <2>1. obj' \in [1..Len(obj) -> Objects]
    BY <1>1, <1>2
  <2> QED
    BY <1>1, <2>1, FunctionSeq
<1>4. HandlersKnow(handler', obj')
  BY <1>1, <1>2 DEF HandlersKnow, Methods
<1>5. CASE b
  <2>1. \A p \in DOMAIN obj : obj[p].paused => obj'[p].paused
    BY <1>1, <1>2, <1>5
  <2>2. SteppersObey(stepper', obj)
    BY <1>5 DEF ThreadsInv
  <2> QED
    BY <1>1, <1>3, <2>1, <2>2, ThreadsKeep DEF ThreadsInv
<1>6. CASE ~ b
  <2>1. stepper' = Forgiven(o)
    BY <1>6
  <2>2. DOMAIN stepper' = DOMAIN stepper /\ SteppersObey(stepper, obj)
    BY <2>1 DEF Forgiven, ThreadsInv
  <2>3. ASSUME NEW s \in DOMAIN stepper
        PROVE  /\ stepper'[s] \in Steppers \cup {Idle}
               /\ stepper'[s] # Idle => Obeys(stepper'[s], obj')
    <3>1. CASE stepper[s] = Idle
      BY <2>1, <3>1 DEF Forgiven, Live
    <3>2. CASE stepper[s] # Idle /\ stepper[s].self # o
      <4>1. stepper'[s] = stepper[s] /\ stepper[s] \in Steppers /\ Obeys(stepper[s], obj)
        BY <2>1, <2>2, <3>2 DEF Forgiven, Live, SteppersObey
      <4> QED
        BY <1>1, <1>2, <3>2, <4>1 DEF Obeys
    <3>3. CASE stepper[s] # Idle /\ stepper[s].self = o
      <4>1. /\ stepper'[s] = [stepper[s] EXCEPT !.late = 0]
            /\ stepper[s] \in Steppers /\ Obeys(stepper[s], obj)
        BY <2>1, <2>2, <3>3 DEF Forgiven, Live, SteppersObey
      <4>2. /\ stepper'[s] \in Steppers /\ stepper'[s].late = 0
            /\ stepper'[s].self \in DOMAIN obj
        BY <4>1 DEF Steppers, Obeys
      <4> QED
        BY <1>1, <1>2, <4>2 DEF Obeys
    <3> QED
      BY <3>1, <3>2, <3>3
  <2>4. SteppersObey(stepper', obj')
    <3>1. stepper' \in [1..MaxSteppers -> Steppers \cup {Idle}]
      BY <2>1, <2>2, <2>3 DEF Forgiven, SteppersObey
    <3> QED
      BY <2>2, <2>3, <3>1 DEF SteppersObey, Live
  <2> QED
    BY <1>3, <1>4, <2>4 DEF ThreadsInv
<1> QED
  BY <1>5, <1>6

LEMMA HandlerKeepsThreads ==
    ASSUME ThreadsInv, ChildrenInv, NEW h \in Live(handler),
           \/ Look(h) \/ Create(h) \/ Call(h)
           \/ Halt(h) \/ Ask(h) \/ Terminate(h) \/ Forget(h) \/ Unset(h) \/ Popen(h) \/ Assign(h)
           \/ Resume(h) \/ Check(h) \/ StartStepper(h)
           \/ Pause(h) \/ StepSim(h) \/ WriteStep(h)
    PROVE  ThreadsInv'
<1> DEFINE g == handler[h]
<1>1. /\ obj \in Seq(Objects) /\ Len(obj) \in Nat /\ sim \in 0..Len(obj)
      /\ HandlersKnow(handler, obj) /\ SteppersObey(stepper, obj)
  BY DEF ThreadsInv
<1>2. h \in DOMAIN handler /\ g \in Handlers /\ Methods(g, obj)
  BY <1>1 DEF HandlersKnow, Live
<1>3. ASSUME obj' = obj, sim' \in {sim, None}, stepper' = stepper, HandlersKnow(handler', obj)
      PROVE  ThreadsInv'
  BY <1>1, <1>3, ThreadsKeep DEF None
<1>4. Gone(h) => HandlersKnow(handler', obj)
  BY <1>1, HandlerMoves
<1>5. CASE Look(h)
  <2>1. Gone(h)
    BY <1>5, HandlerGoes
  <2> QED
    BY <1>3, <1>4, <1>5, <2>1 DEF Look
<1>6. CASE Create(h)
  <2>1. Gone(h)
    BY <1>6, HandlerGoes
  <2>2. NewObject \in Objects
    BY DEF NewObject, Objects, None
  <2>3. /\ obj' = Append(obj, NewObject) /\ sim' = Len(obj') /\ stepper' = stepper
    BY <1>6 DEF Create
  <2>4. /\ obj' \in Seq(Objects) /\ Len(obj') = Len(obj) + 1
        /\ \A o \in DOMAIN obj : obj'[o] = obj[o]
    BY <1>1, <2>2, <2>3
  <2>5. Len(obj) <= Len(obj') /\ sim' \in 0..Len(obj')
    BY <1>1, <2>3, <2>4
  <2>6. \A o \in DOMAIN obj : obj[o].paused => obj'[o].paused
    BY <2>4
  <2>7. SteppersObey(stepper', obj)
    BY <1>1, <2>3
  <2> QED
    BY <1>4, <2>1, <2>4, <2>5, <2>6, <2>7, ThreadsKeep
<1>7. CASE Call(h)
  <2> DEFINE next == IF sim = None THEN Idle ELSE [g EXCEPT !.self = sim, !.pc = "method"]
  <2>1. handler' = [handler EXCEPT ![h] = next]
    BY <1>7 DEF Call
  <2>2. next = Idle \/ (next \in Handlers /\ Methods(next, obj))
    <3>1. CASE sim = None
      BY <3>1
    <3>2. CASE sim # None
      <4>1. sim \in DOMAIN obj /\ sim \in Nat
        BY <1>1, <3>2 DEF None
      <4>2. next = [g EXCEPT !.self = sim, !.pc = "method"]
        BY <3>2
      <4> HIDE DEF next
      <4>3. next \in Handlers /\ next.self = sim
        BY <1>2, <4>1, <4>2 DEF Handlers, Statements
      <4> QED
        BY <4>1, <4>3 DEF Methods
    <3> QED
      BY <3>1, <3>2
  <2> HIDE DEF next
  <2>3. HandlersKnow(handler', obj)
    BY <1>1, <2>1, <2>2, HandlerBecomes
  <2>4. obj' = obj /\ sim' = sim /\ stepper' = stepper
    BY <1>7 DEF Call
  <2> QED
    BY <1>3, <2>3, <2>4
<1>8. CASE Ask(h) \/ Terminate(h) \/ Unset(h) \/ Check(h) \/ StepSim(h) \/ WriteStep(h)
  <2>1. Gone(h)
    BY <1>8, HandlerGoes
  <2> QED
    BY <1>3, <1>4, <1>8, <2>1 DEF Ask, Terminate, Unset, Check, StepSim, WriteStep
<1>9. CASE Halt(h) \/ Pause(h) \/ Forget(h) \/ Assign(h)
  <2>1. Gone(h)
    BY <1>9, HandlerGoes
  <2>2. g.child \in Nat /\ 0 \in Nat
    BY <1>2 DEF Handlers
  <2>3. Assigns(obj', g.self, 0, FALSE) \/ Assigns(obj', g.self, g.child, FALSE)
    BY <1>9 DEF Halt, Pause, Forget, Assign, None, Assigns
  <2>4. /\ obj' \in Seq(Objects) /\ Len(obj') = Len(obj)
        /\ \A p \in DOMAIN obj : obj[p].paused => obj'[p].paused
    BY <1>1, <2>2, <2>3, Assigned
  <2>5. sim' = sim /\ stepper' = stepper
    BY <1>9 DEF Halt, Pause, Forget, Assign
  <2> QED
    BY <1>4, <1>1, <2>1, <2>4, <2>5, ThreadsKeep
<1>10. CASE Popen(h)
  <2> DEFINE b == g.request # "run_compare"
             next == [g EXCEPT !.pc = "assign", !.child = Len(child')]
  <2>1. g.pc = "ready" /\ handler' = [handler EXCEPT ![h] = next]
    BY <1>10, <1>2 DEF Popen
  <2>2. Len(child') \in Nat
    <3>1. child' = Append(child, NewChild(~ b))
      BY <1>10 DEF Popen
    <3>2. NewChild(~ b) \in GoodChildren
      BY NewChildren
    <3> QED
      BY <3>1, <3>2 DEF ChildrenInv
  <2>3. next \in Handlers /\ Methods(next, obj)
    <3>1. PICK n \in Nat : n = Len(child')
      BY <2>2
    <3>2. next = [g EXCEPT !.pc = "assign", !.child = n]
      BY <3>1
    <3> HIDE DEF next
    <3>3. next \in Handlers /\ next.self = g.self /\ g.self \in DOMAIN obj
      BY <1>2, <2>1, <3>2 DEF Handlers, Statements, Methods
    <3> QED
      BY <3>3 DEF Methods
  <2> HIDE DEF next
  <2>4. HandlersKnow(handler', obj)
    BY <1>1, <2>1, <2>3, HandlerBecomes
  <2>5. /\ obj' = [obj EXCEPT ![g.self].paused = b, ![g.self].running = TRUE]
        /\ stepper' = (IF b THEN stepper ELSE Forgiven(g.self)) /\ sim' = sim
    BY <1>10 DEF Popen
  <2> QED
    BY <1>4, <2>4, <2>5, Unpaused
<1>11. CASE Resume(h)
  <2>1. Gone(h)
    BY <1>11, HandlerGoes
  <2>2. CASE ~ obj[g.self].running
    <3>1. obj' = obj /\ stepper' = stepper /\ sim' = sim
      BY <1>11, <2>2 DEF Resume, Self
    <3> QED
      BY <1>3, <1>4, <2>1, <3>1
  <2>3. CASE obj[g.self].running
    <3>1. /\ obj' = [obj EXCEPT ![g.self].paused = FALSE]
          /\ stepper' = Forgiven(g.self) /\ sim' = sim
      BY <1>11, <2>3 DEF Resume, Self
    <3>2. g.pc = "method" /\ g.self \in DOMAIN obj
      BY <1>2, <1>11 DEF Resume, At, Methods
    <3>3. obj[g.self] \in Objects
      BY <1>1, <3>2
    <3>4. [obj[g.self] EXCEPT !.paused = FALSE] = [obj[g.self] EXCEPT !.paused = FALSE, !.running = TRUE]
      BY <2>3, <3>3 DEF Objects
    <3>5. obj' = [obj EXCEPT ![g.self].paused = FALSE, ![g.self].running = TRUE]
      BY <3>1, <3>4
    <3> QED
      BY <1>4, <2>1, <3>1, <3>5, Unpaused
  <2> QED
    BY <2>2, <2>3
<1>12. CASE StartStepper(h)
  <2>1. HandlersKnow(handler', obj)
    BY <1>4, <1>12, HandlerGoes
  <2>2. PICK s \in Free(stepper) :
           /\ stepper' = [stepper EXCEPT ![s] = [self |-> g.self, pc |-> "loop", late |-> 0]]
           /\ obj' = [obj EXCEPT ![g.self].stepper = s]
    BY <1>12 DEF StartStepper
  <2> DEFINE next == [self |-> g.self, pc |-> "loop", late |-> 0]
  <2>3. g.self \in DOMAIN obj /\ g.self \in Nat
    <3>1. g.pc = "thread"
      BY <1>12 DEF StartStepper, At
    <3> QED
      BY <1>2, <3>1 DEF Methods, Handlers
  <2>4. next \in Steppers /\ Obeys(next, obj)
    BY <2>3 DEF Steppers, Obeys
  <2>5. stepper' = [stepper EXCEPT ![s] = next]
    BY <2>2
  <2> HIDE DEF next
  <2>6. SteppersObey(stepper', obj)
    BY <1>1, <2>4, <2>5 DEF SteppersObey, Live
  <2>7. s \in Nat
    <3>1. s \in 1..MaxSteppers
      BY <1>1, <2>2 DEF Free, SteppersObey
    <3> QED
      BY <3>1, ControllerAssumption
  <2>8. Assigns(obj', g.self, s, FALSE)
    BY <2>2 DEF Assigns
  <2>9. /\ obj' \in Seq(Objects) /\ Len(obj') = Len(obj)
        /\ \A p \in DOMAIN obj : obj[p].paused => obj'[p].paused
    BY <1>1, <2>7, <2>8, Assigned
  <2>10. sim' = sim
    BY <1>12 DEF StartStepper
  <2> QED
    BY <1>1, <2>1, <2>6, <2>9, <2>10, ThreadsKeep
<1> QED
  BY <1>5, <1>6, <1>7, <1>8, <1>9, <1>10, <1>11, <1>12

\* A stepper writes its one late step from the write it was already at, and is then
\* at the top of its loop, which it only leaves to end.
LEMMA StepperKeepsThreads ==
    ASSUME ThreadsInv, NEW s \in Live(stepper),
           Loop(s) \/ LoopEnds(s) \/ Awake(s) \/ AutoStep(s) \/ Break(s)
    PROVE  ThreadsInv'
<1> DEFINE t == stepper[s]
<1>1. /\ obj \in Seq(Objects) /\ Len(obj) \in Nat /\ sim \in 0..Len(obj)
      /\ HandlersKnow(handler, obj) /\ SteppersObey(stepper, obj)
  BY DEF ThreadsInv
<1>2. s \in DOMAIN stepper /\ t \in Steppers /\ Obeys(t, obj)
  BY <1>1 DEF SteppersObey, Live
<1>3. obj[t.self] \in Objects
  BY <1>1, <1>2 DEF Obeys
<1>4. ASSUME NEW next \in Steppers \cup {Idle}, next # Idle => Obeys(next, obj),
             stepper' = [stepper EXCEPT ![s] = next]
      PROVE  SteppersObey(stepper', obj)
  BY <1>1, <1>4 DEF SteppersObey, Live
<1>5. CASE Loop(s) \/ Awake(s) \/ AutoStep(s)
  <2>1. PICK to \in {"loop", "sleep", "write"}, late \in 0..1 :
          /\ stepper' = [stepper EXCEPT ![s] = [t EXCEPT !.pc = to, !.late = late]]
          /\ late = 1 => obj[t.self].paused /\ to = "loop"
    <3>1. CASE Loop(s)
      <4>1. ~ obj[t.self].paused
        BY <3>1 DEF Loop, Stepping
      <4>2. t.late = 0
        BY <1>2, <4>1 DEF Obeys, Steppers
      <4>3. stepper' = [stepper EXCEPT ![s].pc = "sleep"]
        BY <3>1 DEF Loop, StepperAt
      <4>4. stepper' = [stepper EXCEPT ![s] = [t EXCEPT !.pc = "sleep", !.late = 0]]
        BY <1>2, <4>2, <4>3 DEF Steppers
      <4> QED
        BY <4>4
    <3>2. CASE Awake(s)
      <4>1. t.pc = "sleep"
        BY <3>2 DEF Awake, StepperAt
      <4>2. t.late = 0
        BY <1>2, <4>1 DEF Obeys, Steppers
      <4>3. PICK to \in {"loop", "write"} : stepper' = [stepper EXCEPT ![s].pc = to]
        <5>1. CASE Stepping(s)
          <6>1. stepper' = [stepper EXCEPT ![s].pc = "write"]
            BY <3>2, <5>1 DEF Awake, StepperAt
          <6> QED
            BY <6>1
        <5>2. CASE ~ Stepping(s)
          <6>1. stepper' = [stepper EXCEPT ![s].pc = "loop"]
            BY <3>2, <5>2 DEF Awake, StepperAt
          <6> QED
            BY <6>1
        <5> QED
          BY <5>1, <5>2
      <4>4. stepper' = [stepper EXCEPT ![s] = [t EXCEPT !.pc = to, !.late = 0]]
        BY <1>2, <4>2, <4>3 DEF Steppers
      <4> WITNESS to \in {"loop", "sleep", "write"}, 0 \in 0..1
      <4> QED
        BY <4>4
    <3>3. CASE AutoStep(s)
      <4>1. t.pc = "write"
        BY <3>3 DEF AutoStep
      <4>2. t.late = 0
        BY <1>2, <4>1 DEF Obeys, Steppers
      <4>3. PICK late \in 0..1 : /\ late = IF obj[t.self].paused THEN 1 ELSE 0
        OBVIOUS
      <4>4. stepper' = [stepper EXCEPT ![s].pc = "loop",
                                       ![s].late = IF obj[t.self].paused THEN t.late + 1 ELSE t.late]
        BY <1>2, <3>3 DEF AutoStep
      <4>5. (IF obj[t.self].paused THEN t.late + 1 ELSE t.late) = late
        BY <4>2, <4>3
      <4>6. stepper' = [stepper EXCEPT ![s].pc = "loop", ![s].late = late]
        BY <4>4, <4>5
      <4>7. stepper' = [stepper EXCEPT ![s] = [t EXCEPT !.pc = "loop", !.late = late]]
        BY <1>2, <4>6 DEF Steppers
      <4> WITNESS "loop" \in {"loop", "sleep", "write"}, late \in 0..1
      <4> QED
        BY <4>3, <4>7
    <3> QED
      BY <1>5, <3>1, <3>2, <3>3
  <2> DEFINE next == [t EXCEPT !.pc = to, !.late = late]
  <2>2. next \in Steppers /\ next.self = t.self /\ next.pc = to /\ next.late = late
    BY <1>2 DEF Steppers
  <2>3. stepper' = [stepper EXCEPT ![s] = next]
    BY <2>1
  <2> HIDE DEF next
  <2>4. Obeys(next, obj)
    BY <1>2, <2>1, <2>2 DEF Obeys
  <2>5. SteppersObey(stepper', obj)
    BY <1>4, <2>2, <2>3, <2>4
  <2>6. obj' = obj /\ sim' = sim /\ handler' = handler
    BY <1>5 DEF Loop, Awake, AutoStep, StepperAt
  <2> QED
    BY <1>1, <2>5, <2>6, ThreadsKeep
<1>6. CASE LoopEnds(s) \/ Break(s)
  <2>1. /\ stepper' = [stepper EXCEPT ![s] = Idle] /\ sim' = sim /\ handler' = handler
        /\ obj' = [o \in DOMAIN obj |->
                     IF obj[o].stepper = s THEN [obj[o] EXCEPT !.stepper = None] ELSE obj[o]]
    BY <1>6 DEF LoopEnds, Break, StepperEnds
  <2>2. SteppersObey(stepper', obj)
    BY <1>4, <2>1
  <2>3. /\ DOMAIN obj' = 1..Len(obj) /\ DOMAIN obj = 1..Len(obj)
        /\ \A o \in DOMAIN obj : obj'[o] \in Objects /\ (obj[o].paused => obj'[o].paused)
    <3>1. ASSUME NEW o \in DOMAIN obj
          PROVE  obj'[o] \in Objects /\ (obj[o].paused => obj'[o].paused)
      <4> DEFINE c == obj[o]
      <4>1. c \in Objects /\ (obj'[o] = c \/ obj'[o] = [c EXCEPT !.stepper = 0])
        BY <1>1, <2>1 DEF None
      <4> HIDE DEF c
      <4>2. obj'[o] \in Objects /\ (c.paused => obj'[o].paused)
        BY <4>1 DEF Objects
      <4> QED
        BY <4>2 DEF c
    <3> QED
      BY <1>1, <2>1, <3>1
  <2>4. obj' \in [1..Len(obj) -> Objects]
    BY <2>1, <2>3
  <2>5. obj' \in Seq(Objects) /\ Len(obj') = Len(obj)
    BY <1>1, <2>4, FunctionSeq
  <2> QED
    BY <1>1, <2>1, <2>2, <2>3, <2>5, ThreadsKeep
<1> QED
  BY <1>5, <1>6

LEMMA OthersKeepThreads ==
    ASSUME ThreadsInv,
           \/ \E request \in Requests : Send(request)
           \/ ReaderStep \/ ChildStep
           \/ UNCHANGED vars
    PROVE  ThreadsInv'
<1>1. /\ obj \in Seq(Objects) /\ Len(obj) \in Nat /\ sim \in 0..Len(obj)
      /\ HandlersKnow(handler, obj) /\ SteppersObey(stepper, obj)
  BY DEF ThreadsInv
<1>2. ASSUME NEW request \in Requests, Send(request)
      PROVE  ThreadsInv'
  <2>1. PICK h \in Free(handler), to \in {"look", "call"} : handler' = [handler EXCEPT ![h] =
           [request |-> request, self |-> 0, child |-> 0, pc |-> to]]
    BY <1>2 DEF Send, None
  <2> DEFINE next == [request |-> request, self |-> 0, child |-> 0, pc |-> to]
  <2>2. next \in Handlers /\ Methods(next, obj)
    BY DEF Handlers, Methods, Statements
  <2>3. handler' = [handler EXCEPT ![h] = next]
    BY <2>1
  <2> HIDE DEF next
  <2>4. HandlersKnow(handler', obj)
    BY <1>1, <2>2, <2>3, HandlerBecomes
  <2>5. obj' = obj /\ sim' = sim /\ stepper' = stepper
    BY <1>2 DEF Send
  <2> QED
    BY <1>1, <2>4, <2>5, ThreadsKeep
<1>3. CASE ReaderStep
  <2>1. sim' = sim /\ handler' = handler /\ stepper' = stepper
    BY <1>3 DEF ReaderStep, OpenOutput, Finally
  <2>2. obj' = obj \/ \E o : obj' = [obj EXCEPT ![o].running = FALSE]
    BY <1>3 DEF ReaderStep, OpenOutput, Finally
  <2>3. CASE obj' = obj
    BY <1>1, <2>1, <2>3, ThreadsKeep
  <2>4. ASSUME NEW o, obj' = [obj EXCEPT ![o].running = FALSE]
        PROVE  ThreadsInv'
    <3>1. Assigns(obj', o, 0, FALSE)
      BY <2>4 DEF Assigns
    <3>2. /\ obj' \in Seq(Objects) /\ Len(obj') = Len(obj)
          /\ \A p \in DOMAIN obj : obj[p].paused => obj'[p].paused
      BY <1>1, <3>1, Assigned
    <3> QED
      BY <1>1, <2>1, <3>2, ThreadsKeep
  <2> QED
    BY <2>2, <2>3, <2>4
<1>4. CASE ChildStep \/ UNCHANGED vars
  <2>1. sim' = sim /\ obj' = obj /\ handler' = handler /\ stepper' = stepper
    BY <1>4 DEF ChildStep, ReadLine, PlayTick, Compare, ChildBecomes, vars
  <2> QED
    BY <1>1, <2>1, ThreadsKeep
<1> QED
  BY <1>2, <1>3, <1>4

LEMMA NextKeepsThreads ==
    ASSUME ThreadsInv, ChildrenInv, [Next]_vars
    PROVE  ThreadsInv'
<1>1. CASE HandlerStep
  BY <1>1, HandlerKeepsThreads DEF HandlerStep
<1>2. CASE StepperStep
  BY <1>2, StepperKeepsThreads DEF StepperStep
<1>3. CASE \/ \E request \in Requests : Send(request)
           \/ ReaderStep \/ ChildStep \/ UNCHANGED vars
  BY <1>3, OthersKeepThreads
<1> QED
  BY <1>1, <1>2, <1>3 DEF Next, System

LEMMA NextKeepsChildren ==
    ASSUME ChildrenInv, [Next]_vars
    PROVE  ChildrenInv'
<1>1. ASSUME NEW h \in Live(handler),
             Ask(h) \/ Terminate(h) \/ Popen(h) \/ WriteStep(h)
      PROVE  ChildrenInv'
  <2>1. CASE Ask(h)
    BY <2>1, WriteBalances, LinesDiffer DEF Ask, ChildrenInv
  <2>2. CASE WriteStep(h)
    BY <2>2, WriteBalances, LinesDiffer DEF WriteStep, ChildrenInv
  <2>3. CASE Terminate(h)
    <3>1. \/ child' = child
          \/ child' = [child EXCEPT ![Self(h).proc] = Dead]
      BY <2>3 DEF Terminate
    <3> QED
      BY <3>1, NewChildren, ReplaceElement DEF ChildrenInv
  <2>4. CASE Popen(h)
    <3>1. PICK compare \in BOOLEAN : child' = Append(child, NewChild(compare))
      BY <2>4 DEF Popen
    <3>2. NewChild(compare) \in GoodChildren
      BY NewChildren
    <3> QED
      BY <3>1, <3>2 DEF ChildrenInv
  <2> QED
    BY <1>1, <2>1, <2>2, <2>3, <2>4
<1>2. ASSUME NEW s \in Live(stepper), AutoStep(s)
      PROVE  ChildrenInv'
  BY <1>2, WriteBalances, LinesDiffer DEF AutoStep, ChildrenInv
<1>3. ASSUME NEW c \in DOMAIN child, ReadLine(c) \/ PlayTick(c) \/ Compare(c)
      PROVE  ChildrenInv'
  <2>1. CASE Compare(c)
    BY <2>1, NewChildren, ReplaceElement DEF Compare, ChildBecomes, ChildrenInv
  <2> QED
    BY <1>3, <2>1, ReadBalances, PlayBalances
<1>4. CASE child' = child
  BY <1>4 DEF ChildrenInv
<1>5. CASE HandlerStep
  BY <1>1, <1>4, <1>5 DEF HandlerStep, Look, Create, Call, Halt, Forget, Unset, Assign, Resume,
                          Check, StartStepper, Pause, StepSim
<1>6. CASE StepperStep
  BY <1>2, <1>4, <1>6 DEF StepperStep, Loop, LoopEnds, Awake, Break, StepperAt, StepperEnds
<1>7. CASE ReaderStep
  BY <1>4, <1>7 DEF ReaderStep, OpenOutput, Finally
<1>8. CASE \/ \E request \in Requests : Send(request)
           \/ UNCHANGED vars
  BY <1>4, <1>8 DEF Send, vars
<1> QED
  BY <1>3, <1>5, <1>6, <1>7, <1>8 DEF Next, System, ChildStep

-----------------------------------------------------------------------------
(* What the server and the simulators promise *)

LEMMA InitIInv == Init => IInv
<1> SUFFICES ASSUME Init PROVE IInv
  OBVIOUS
<1>1. ChildrenInv
  BY DEF Init, ChildrenInv
<1>2. PICK n \in Nat : handler = [h \in 1..n |-> Idle]
  BY ControllerAssumption DEF Init
<1>3. HandlersKnow(handler, obj)
  BY <1>2 DEF HandlersKnow, Live
<1>4. stepper = [s \in 1..MaxSteppers |-> Idle]
  BY DEF Init
<1>5. SteppersObey(stepper, obj)
  BY <1>4 DEF SteppersObey, Live
<1>6. obj \in Seq(Objects) /\ sim \in 0..Len(obj)
  BY DEF Init, None
<1> QED
  BY <1>1, <1>3, <1>5, <1>6 DEF IInv, ThreadsInv

\* The inductive invariant of the server: a handler in a method has a controller, a
\* stepper that wrote after a pause finds the pause at the top of its loop, and every
\* child that lives has its steps in balance.
THEOREM Invariance == Spec => []IInv
<1>1. IInv /\ [Next]_vars => IInv'
  BY NextKeepsThreads, NextKeepsChildren DEF IInv
<1> QED
  BY <1>1, InitIInv, PTL DEF Spec

\* Of the steps the server writes to a simulator (_auto_step and step_sim of
\* server.py) none is lost, doubled or made up between the pipe, stdio, the target
\* of the prompt and the ticks it plays (process_interactive of kernel.c).
THEOREM StepsStayConserved == Spec => []StepsAreConserved
<1>1. IInv => StepsAreConserved
  <2> SUFFICES ASSUME IInv, NEW c \in DOMAIN child, child[c].alive
               PROVE  child[c].written = child[c].played + child[c].console.target
                           + Steps(child[c].input.stdio) + Steps(child[c].input.pipe)
    BY DEF StepsAreConserved
  <2>1. child[c] \in GoodChildren
    BY DEF IInv, ChildrenInv
  <2> QED
    BY <2>1 DEF GoodChildren, Balanced
<1> QED
  BY <1>1, Invariance, PTL

\* After a pause, a stop or a new start every stepper of the controller writes at most
\* the one step it was already past the check for (_auto_step of server.py).
THEOREM PauseIsObeyed == Spec => []OneLateStep
<1>1. IInv => OneLateStep
  <2> SUFFICES ASSUME IInv, NEW s \in Live(stepper)
               PROVE  stepper[s].late <= 1
    BY DEF OneLateStep
  <2>1. stepper[s] \in Steppers
    BY DEF IInv, ThreadsInv, SteppersObey, Live
  <2> QED
    BY <2>1 DEF Steppers
<1> QED
  BY <1>1, Invariance, PTL
=============================================================================
