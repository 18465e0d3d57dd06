----------------------------- MODULE ThreadQueue -----------------------------
(* What Scheduler takes a ready queue for: a sequence without repetitions of   *)
(* at most Size threads, that grows at the end and shrinks at the front or     *)
(* wherever the thread is that is taken out.                                   *)
EXTENDS SequencesExt

CONSTANTS Threads, Size
VARIABLES content, popped

vars == <<content, popped>>

Init == content = << >> /\ popped = << >>

\* A push into a full queue, or of a thread that is queued, does nothing; so
\* does a pop from an empty one.
Nothing == popped' = << >> /\ UNCHANGED content
Push(t) == /\ Len(content) < Size /\ ~ Contains(content, t)
           /\ content' = Append(content, t) /\ popped' = << >>
Pop == /\ content # << >>
       /\ content' = Tail(content) /\ popped' = <<Head(content)>>
Take(t) == \E i \in 1..Len(content) :
               /\ content[i] = t
               /\ content' = RemoveAt(content, i) /\ popped' = <<t>>

Next == Nothing \/ Pop \/ \E t \in Threads : Push(t) \/ Take(t)
Spec == Init /\ [][Next]_vars
=============================================================================
