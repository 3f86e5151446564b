------------------------------ MODULE RingQueue ------------------------------
(***************************************************************************)
(* The ring buffer queue_t of thread.c: an array, the index of the oldest  *)
(* entry, the index one past the youngest, and a count of the entries.     *)
(* `start' and `end' coincide both when the queue is empty and when it is  *)
(* full; only `current_size' tells the two apart.                          *)
(***************************************************************************)
EXTENDS Integers, Sequences

CONSTANTS
  Capacity,    (* THREAD_MAX_THREADS * 30                                  *)
  Values,      (* the thread identifiers that are stored                   *)
  ERR_EMPTY    (* -2                                                       *)

ASSUME RingAssumption ==
  /\ Capacity \in Nat \ {0}
  /\ Values \subseteq Nat
  /\ ERR_EMPTY = -2

VARIABLES current_size, start, end, threads, ret

ringVars == <<current_size, start, end, threads, ret>>

Slots == 0 .. Capacity - 1

(* wait_queue_create resets the three counters only: the array that malloc *)
(* returned holds anything.                                                *)
Init ==
  /\ current_size = 0
  /\ start = 0
  /\ end = 0
  /\ threads \in [Slots -> Values]
  /\ ret = 0

------------------------------------------------------------------------------
(* Variants of the definitions below, each with a plausible slip; no       *)
(* specification uses them.                                                *)
nextLateWrap(index) == IF index < Capacity THEN index + 1 ELSE 0
prevNoWrap(index) == IF index > 1 THEN index - 1 ELSE 0
------------------------------------------------------------------------------

next(index) ==
  LET offset == index + 1 IN
  CASE offset < Capacity -> offset
    [] offset > Capacity -> -1
    [] offset = Capacity -> 0

prev(index) ==
  LET offset == index - 1 IN
  CASE offset >= 0 -> offset
    [] offset < -1 -> -1
    [] offset = -1 -> Capacity - 1

queue_push(value) ==
  \/ /\ current_size = Capacity
     /\ ret' = 0
     /\ UNCHANGED <<current_size, start, end, threads>>
  \/ /\ current_size # Capacity
     /\ threads' = [threads EXCEPT ![end] = value]
     /\ end' = next(end)
     /\ current_size' = current_size + 1
     /\ ret' = 1
     /\ UNCHANGED start

(* Both pops return ERR_EMPTY, and change nothing, on an empty queue. *)
queue_empty ==
  /\ current_size = 0
  /\ ret' = ERR_EMPTY
  /\ UNCHANGED <<current_size, start, end, threads>>

queue_pop ==
  /\ current_size # 0
  /\ ret' = threads[start]
  /\ start' = next(start)
  /\ current_size' = current_size - 1
  /\ UNCHANGED <<end, threads>>

queue_pop_last ==
  /\ current_size # 0
  /\ end' = prev(end)
  /\ current_size' = current_size - 1
  /\ ret' = threads[end']
  /\ UNCHANGED <<start, threads>>

Next ==
  \/ \E value \in Values : queue_push(value)
  \/ queue_empty
  \/ queue_pop
  \/ queue_pop_last

Spec == Init /\ [][Next]_ringVars

------------------------------------------------------------------------------
(* The indices stay inside the array and the count between 0 and its size. *)
TypeOK ==
  /\ current_size \in 0 .. Capacity
  /\ start \in Slots
  /\ end \in Slots
  /\ threads \in [Slots -> Values]
  /\ ret \in Values \cup {ERR_EMPTY, 0, 1}

(* The slot of the i-th oldest entry. *)
Slot(i) == IF start + i - 1 < Capacity THEN start + i - 1 ELSE start + i - 1 - Capacity

(* `end' is where the entry after the youngest one goes: the two indices   *)
(* and the count never disagree, whatever mix of pushes and of pops at     *)
(* both ends came before.  Without it a push overwrites a queued thread.   *)
EndAgrees == end = IF start + current_size < Capacity
                   THEN start + current_size
                   ELSE start + current_size - Capacity

(* The ring buffer is a bounded double-ended sequence: a value pushed is   *)
(* returned once, in order, and a push on a full queue changes nothing.    *)
D == INSTANCE Deque WITH seq <- [i \in 1 .. current_size |-> threads[Slot(i)]]
Implements == D!Spec
==============================================================================
