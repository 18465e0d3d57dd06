---------------------------- MODULE MCController -----------------------------
(* The server with a handful of requests: from a page that sends the next one  *)
(* when the last is done with, and from pages that do not wait.                *)
EXTENDS Controller

Load(number, handlers, events) ==
    [requests |-> number, handlers |-> handlers, events |-> events]

Patient == {Load(5, 1, Requests)}
\* Two stops at a time need five requests to do harm.
PatientAndNot == Patient \cup {Load(3, 3, Requests), Load(5, 2, {"start", "step", "stop"})}
=============================================================================
