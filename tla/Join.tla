-------------------------------- MODULE Join --------------------------------
(***************************************************************************)
(* What thread_wait promises (thread.h:142-171 and the tests): at most one *)
(* thread waits for a live thread, it goes on only after that thread has   *)
(* ended, and it then reads the code with which that very thread ended.    *)
(* A thread that exits while nobody waits for it is kept until one thread, *)
(* and no second one, has waited for it, and only then may another thread  *)
(* have its identifier (test_basic.c:13-15, test_lock.c:113-116,           *)
(* wakeup_tests.c:139-141, test_wait_parent.c:8-12).  A killed thread is   *)
(* not kept; one that waited for it reads -9 (test_wait_kill.c:51-67).     *)
(***************************************************************************)
EXTENDS Integers

CONSTANT Tids

VARIABLES
  alive,    (* the threads that have been created and have not ended       *)
  kept,     (* those that have exited and that nobody has waited for       *)
  code,     (* what the last owner of an identifier ended with             *)
  target    (* whom a thread waits for, or -1                              *)

joinVars == <<alive, kept, code, target>>
KILLED == -9
Unset == 0

Init ==
  /\ alive = {0}
  /\ kept = {}
  /\ code = [t \in Tids |-> IF t = 0 THEN Unset ELSE KILLED]
  /\ target = [t \in Tids |-> -1]

Awaited(t) == \E w \in Tids : target[w] = t

Begin(t) ==
  /\ alive' = alive \cup {t}
  /\ kept' = kept \ {t}
  /\ code' = [code EXCEPT ![t] = Unset]
  /\ UNCHANGED target
Start(t) == t \notin alive \cup kept /\ ~ Awaited(t) /\ Begin(t)

End(t) ==
  /\ t \in alive /\ target[t] = -1
  /\ alive' = alive \ {t}
  /\ code' \in [Tids -> Int] /\ \A u \in Tids \ {t} : code'[u] = code[u]
  /\ UNCHANGED target
Exit(t) == End(t) /\ kept' = (IF Awaited(t) THEN kept ELSE kept \cup {t})
Kill(t) == End(t) /\ (t # 0 => code'[t] = KILLED) /\ UNCHANGED kept

Await(w, t) ==
  /\ w \in alive /\ w # t /\ target[w] = -1
  /\ target' = [target EXCEPT ![w] = t]
  /\ kept' = kept \ {t}
  /\ UNCHANGED <<alive, code>>
Wait(w, t) == (t \in kept \/ (t \in alive /\ ~ Awaited(t))) /\ Await(w, t)

(* The waiter reads code[target[w]]. *)
Return(w) ==
  /\ target[w] # -1 /\ target[w] \notin alive
  /\ target' = [target EXCEPT ![w] = -1]
  /\ UNCHANGED <<alive, kept, code>>

Next ==
  \E t \in Tids :
    Start(t) \/ Exit(t) \/ Kill(t) \/ Return(t) \/ \E u \in Tids : Wait(t, u)

Spec == Init /\ [][Next]_joinVars

(* What the tests exclude and thread.c does: the identifier of a thread    *)
(* that nobody has waited for is used again, and a thread that has exited  *)
(* is waited for again.                                                    *)
Reuse(t) == t \in kept /\ ~ Awaited(t) /\ Begin(t)
WaitAgain(w, t) == t \notin alive \cup kept /\ code[t] # KILLED /\ Await(w, t)
Departs == \E t \in Tids : Reuse(t) \/ \E u \in Tids : WaitAgain(t, u)
=============================================================================
