-------------------------------- MODULE Deque --------------------------------
(***************************************************************************)
(* What the queue of thread.c promises its callers: a bounded sequence     *)
(* that is extended at the back and shortened at either end.  The ready    *)
(* queue and every wait queue are used through these three operations and  *)
(* nothing else, so the scheduler modules keep their queues as sequences;  *)
(* RingQueue shows that the ring buffer implements this specification.     *)
(***************************************************************************)
EXTENDS Integers, Sequences

CONSTANTS
  Capacity,    (* THREAD_MAX_THREADS * 30 in the code                      *)
  Values,      (* what the callers store: thread identifiers               *)
  ERR_EMPTY    (* what the pops return when there is nothing to take       *)

VARIABLES
  seq,         (* the stored values, oldest first                          *)
  ret          (* the result of the last call                              *)

dequeVars == <<seq, ret>>

Init == seq = <<>> /\ ret = 0

(* A push is refused, with result 0 (false), when the queue is full. *)
Push(v) ==
  \/ /\ Len(seq) < Capacity
     /\ seq' = Append(seq, v)
     /\ ret' = 1
  \/ /\ Len(seq) = Capacity
     /\ ret' = 0
     /\ UNCHANGED seq

(* Take the oldest value. *)
PopFirst ==
  /\ seq # <<>>
  /\ ret' = seq[1]
  /\ seq' = Tail(seq)

(* Take the youngest value. *)
PopLast ==
  /\ seq # <<>>
  /\ ret' = seq[Len(seq)]
  /\ seq' = SubSeq(seq, 1, Len(seq) - 1)

PopEmpty ==
  /\ seq = <<>>
  /\ ret' = ERR_EMPTY
  /\ UNCHANGED seq

Next == (\E v \in Values : Push(v)) \/ PopFirst \/ PopLast \/ PopEmpty

Spec == Init /\ [][Next]_dequeVars
==============================================================================
