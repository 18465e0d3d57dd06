------------------------------ MODULE Compaction -----------------------------
(* How sync.c and deadlock.c take entries out of a waiting queue, and kernel.c *)
(* out of the table of pending events: a loop moves the entries that stay up   *)
(* over the gaps.  This is that loop.  It is SelectSeq written as a function   *)
(* of the length, of which DataProofs can say what it does.                    *)
EXTENDS Integers, Sequences

\* What is left of the queue s when the members of A are kept.
Keep(s, A) ==
    LET kept[i \in 0..Len(s)] ==
            IF i = 0 THEN << >>
            ELSE IF s[i] \in A THEN Append(kept[i - 1], s[i]) ELSE kept[i - 1]
    IN  kept[Len(s)]
=============================================================================
