--------------------------- MODULE SchedulerKept ---------------------------
(***************************************************************************)
(* Scheduler with the history that Join speaks of: which threads have      *)
(* exited and not been waited for.  thread.c does not record it.           *)
(***************************************************************************)
EXTENDS Scheduler

VARIABLE kept

keptVars == <<schedVars, kept>>

(* handle_death is called by thread_exit, or by a thread_kill. *)
ExitsNow(t) == Alive(t) /\ ~ Alive(t)' /\ back[current_thread] # "killed"
StartsNow(t) == ~ Alive(t) /\ Alive(t)'
AwaitedNow(t) == \E w \in Tids : InWait(w) /\ tid[w] = t
WaitsNow(t) == \E w \in Tids : ~ InWait(w) /\ InWait(w)' /\ tid'[w] = t

Keep ==
  kept' = (kept \cup {t \in Tids : ExitsNow(t) /\ ~ AwaitedNow(t)})
            \ {t \in Tids : StartsNow(t) \/ WaitsNow(t)}

KeptInit == Init /\ kept = {}
KeptNext == Next /\ Keep
KeptSpec == KeptInit /\ [][KeptNext]_keptVars

(* thread_wait keeps its promise, Join, but for two named departures: the  *)
(* identifier of a thread that exited unwaited-for is used again, and an   *)
(* exited thread can be waited for again.  It does so as long as the ready *)
(* queue has never been full.                                              *)
J == INSTANCE Join WITH
       alive <- {t \in Tids : Alive(t)},
       code <- [t \in Tids |-> IF Alive(t) THEN 0 ELSE exit_code[t]],
       target <- [w \in Tids |-> IF InWait(w) THEN tid[w] ELSE -1]
JoinImplements == J!Init /\ [][J!Next \/ J!Departs \/ overflowed']_(J!joinVars)
==============================================================================
