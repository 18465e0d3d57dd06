------------------------------ MODULE Console -------------------------------
(* process_interactive of src/src/kernel.c: the prompt that decides when the   *)
(* next tick is played.  Operators on two records:                             *)
(*   console  paused, target   the statics interactive_paused and step_target  *)
(*   input    pipe, stdio      lines that wait in the file behind stdin, and   *)
(*                             lines fgets has read from it ahead of the one   *)
(*                             it returned                                     *)
(* A line is [cmd, n]: "run" with a number n behind it is ["run_n", n], every  *)
(* other line has n = 0.                                                       *)
EXTENDS Integers, Sequences

Line(cmd, n) == [cmd |-> cmd, n |-> n]
Step == Line("step", 0)
QuitLine == Line("quit", 0)

\* The ticks a user means with a line.
Ticks(line) == IF line = Step THEN 1 ELSE line.n

Prompt == [paused |-> FALSE, target |-> 0]
NoInput == [pipe |-> <<>>, stdio |-> <<>>]

\* The loop goes round for another line, and pauses when there is nothing to play.
Waits(console) == console.paused \/ console.target <= 0
Pausing(console) == IF console.target <= 0 THEN [console EXCEPT !.paused = TRUE] ELSE console

\* Mutant of obey: "run_n" plays one tick more, like a loop that counts to n.
ObeyOneMore(console, line) ==
    IF line.cmd = "run_n" THEN [paused |-> FALSE, target |-> line.n + 1] ELSE Pausing(console)

\* What one line does.  "run" alone asks for no tick, so the loop pauses again at
\* once; "run 0", "status" and anything else change nothing.
obey(console, line) ==
    CASE line.cmd = "step" -> [paused |-> FALSE, target |-> 1]
      [] line.cmd = "run_n" /\ line.n > 0 -> [paused |-> FALSE, target |-> line.n]
      [] line.cmd = "run" -> [paused |-> FALSE, target |-> 0]
      [] line.cmd = "pause" -> [paused |-> TRUE, target |-> 0]
      [] OTHER -> Pausing(console)

play(console) == [console EXCEPT !.target = @ - 1]

\* select looks at the file only: a line that stdio has already taken from it does
\* not count.  The other end of the file is open as long as the server lives: a
\* Popen that is dropped while its child runs is kept in subprocess._active.
Ready(input) == input.pipe # <<>>

\* fgets: the next line, and the input without it.  When stdio is empty, all that
\* is in the pipe is read at once.
NextLine(input) == Head(input.stdio \o input.pipe)

\* Mutant of Without: what was read ahead is thrown away.
WithoutReadAhead(input) == [pipe |-> <<>>, stdio |-> <<>>]

Without(input) ==
    IF input.stdio # <<>> THEN [input EXCEPT !.stdio = Tail(@)]
    ELSE [pipe |-> <<>>, stdio |-> Tail(input.pipe)]
=============================================================================
