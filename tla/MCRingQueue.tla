----------------------------- MODULE MCRingQueue -----------------------------
(* A small instance of RingQueue: the capacity is 3, so every index wraps. *)
EXTENDS RingQueue

MCErrEmpty == -2
==============================================================================
