------------------------------- MODULE Channel -------------------------------
(* What the sensor buffer promises: a channel that holds at most Size items   *)
(* and gives them back in the order in which they were put in, none twice and *)
(* none lost.                                                                 *)
EXTENDS Integers, Sequences

CONSTANTS Items, Size
VARIABLE content

Init == content = << >>

Put(item) == Len(content) < Size /\ content' = Append(content, item)
Get == content # << >> /\ content' = Tail(content)

Next == Get \/ \E item \in Items : Put(item)
Spec == Init /\ [][Next]_content
=============================================================================
