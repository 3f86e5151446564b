------------------------------ MODULE Monitor ------------------------------
(***************************************************************************)
(* What the locks and condition variables of thread.h promise together: a  *)
(* monitor.  cv_wait gives up the lock and joins the queue in one step; a  *)
(* signal takes the thread that has waited longest, a broadcast all; the   *)
(* release of a lock leaves no thread blocked on it.  A thread gives up    *)
(* waiting of its own accord only when no other thread could run.  Threads *)
(* may also sleep for a reason of their own, and come back at any time.    *)
(***************************************************************************)
EXTENDS Integers, Sequences

CONSTANTS Tids, Locks, Cvs

VARIABLES
  threads,   (* the threads that exist                                     *)
  holder,    (* of each lock, or -1                                        *)
  blocked,   (* the threads that wait for each lock                        *)
  waiting,   (* those that wait on each condition variable, oldest first   *)
  away       (* those asleep on neither                                    *)

monitorVars == <<threads, holder, blocked, waiting, away>>

Init ==
  /\ threads = {0}
  /\ holder = [l \in Locks |-> -1]
  /\ blocked = [l \in Locks |-> {}]
  /\ waiting = [c \in Cvs |-> <<>>]
  /\ away = {}

Waits(t, c) == \E i \in 1 .. Len(waiting[c]) : waiting[c][i] = t
Stopped(t) ==
  \/ \E l \in Locks : t \in blocked[l]
  \/ \E c \in Cvs : Waits(t, c)
  \/ t \in away
Runs(t) == t \in threads /\ ~ Stopped(t)

Start(t) ==
  /\ t \notin threads
  /\ threads' = threads \cup {t}
  /\ UNCHANGED <<holder, blocked, waiting, away>>

Acquire(t, l) ==
  /\ Runs(t)
  /\ holder[l] = -1
  /\ holder' = [holder EXCEPT ![l] = t]
  /\ UNCHANGED <<threads, blocked, waiting, away>>

Block(t, l) ==
  /\ Runs(t)
  /\ holder[l] \notin {-1, t}
  /\ blocked' = [blocked EXCEPT ![l] = @ \cup {t}]
  /\ UNCHANGED <<threads, holder, waiting, away>>

Released(t, l) ==
  /\ holder[l] = t /\ Runs(t)
  /\ holder' = [holder EXCEPT ![l] = -1]
  /\ blocked' = [blocked EXCEPT ![l] = {}]

Release(t, l) == Released(t, l) /\ UNCHANGED <<threads, waiting, away>>

Wait(t, c, l) ==
  /\ Released(t, l)
  /\ waiting' = [waiting EXCEPT ![c] = Append(@, t)]
  /\ UNCHANGED <<threads, away>>

(* The caller holds a lock. *)
Wake(c, l) ==
  /\ Runs(holder[l]) /\ waiting[c] # <<>>
  /\ \/ waiting' = [waiting EXCEPT ![c] = Tail(@)]
     \/ waiting' = [waiting EXCEPT ![c] = <<>>]
  /\ UNCHANGED <<threads, holder, blocked, away>>

Leave(t) ==
  /\ Runs(t)
  /\ away' = away \cup {t}
  /\ UNCHANGED <<threads, holder, blocked, waiting>>

ComeBack(t) ==
  /\ t \in away
  /\ away' = away \ {t}
  /\ UNCHANGED <<threads, holder, blocked, waiting>>

Deadlock == \A u \in threads : Stopped(u)

GiveUpLock(t, l) ==
  /\ Deadlock
  /\ t \in blocked[l]
  /\ blocked' = [blocked EXCEPT ![l] = @ \ {t}]
  /\ UNCHANGED <<threads, holder, waiting, away>>

GiveUpWait(t, c) ==
  /\ Deadlock
  /\ waiting[c] # <<>> /\ waiting[c][Len(waiting[c])] = t
  /\ waiting' = [waiting EXCEPT ![c] = SubSeq(@, 1, Len(@) - 1)]
  /\ UNCHANGED <<threads, holder, blocked, away>>

Next ==
  \E t \in Tids :
    \/ Start(t) \/ Leave(t) \/ ComeBack(t)
    \/ \E l \in Locks :
         Acquire(t, l) \/ Block(t, l) \/ Release(t, l) \/ GiveUpLock(t, l)
    \/ \E l \in Locks, c \in Cvs : Wait(t, c, l) \/ Wake(c, l)
    \/ \E c \in Cvs : GiveUpWait(t, c)

Spec == Init /\ [][Next]_monitorVars
=============================================================================
