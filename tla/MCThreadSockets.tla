-------------------------- MODULE MCThreadSockets --------------------------
(* Three threads and two numbers for their sockets, up to the first race   *)
(* or reuse: nothing is claimed of what comes after, and both are lasting. *)
EXTENDS ThreadSockets
MCUndisturbed == ~raced /\ ~reused
=============================================================================
