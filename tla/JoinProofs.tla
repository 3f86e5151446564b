----------------------------- MODULE JoinProofs -----------------------------
(***************************************************************************)
(* Proofs about thread_wait, for any number of threads and any program     *)
(* that is tidy (TidyProgram): it waits without cycles, kills no thread    *)
(* that may wait, yields to none by name, and leaves the signal alone.     *)
(*                                                                         *)
(* JoinInv, on top of what SchedulerProofs shows, is inductive.  The hard  *)
(* step is the thread_yield that finds nobody to run: it would return into *)
(* a thread_wait whose target lives.  It does not happen, because then all *)
(* live threads sleep in thread_wait, and the one of the highest rank has  *)
(* no thread to wait for.                                                  *)
(***************************************************************************)
EXTENDS SchedulerProofs, SchedulerKept, WellFoundedInduction

JoinInv == WaitOK /\ WaiterStillWaits

LEMMA OnceOverflowed ==
  ASSUME [Next]_schedVars, overflowed, overflowed \in BOOLEAN PROVE overflowed'
<1> USE DEF history
<1>1. ASSUME NEW t, NEW q, SwitchTo(t, q) PROVE overflowed'
  BY <1>1 DEF SwitchTo, Overflows
<1>2. CASE Yielding
  BY <1>1, <1>2 DEF Yielding, yield_self, yield_any, yield_none, yield_to, yield_invalid, YieldReturns
<1>3. CASE thread_create
  BY <1>3 DEF thread_create, create_no_more, create_thread, Overflows
<1>4. CASE thread_wait
  BY <1>4 DEF thread_wait, wait_invalid, wait_exited, wait_sleep
<1>5. CASE Return \/ sigreturn \/ thread_stub \/ resumed \/ admin_mode \/ admin_next \/ admin_none
  BY <1>5 DEF Return, sigreturn, thread_stub, resumed, admin_mode, admin_next, admin_none, Stop
<1>6. CASE thread_kill \/ kill_invalid \/ killed \/ handle_death \/ assert_waiter \/ exit_next \/ exit_none \/ waited
  BY <1>6 DEF thread_kill, kill_invalid, killed, handle_death, assert_waiter, exit_next, exit_none, waited, Stop
<1>7. CASE Mask \/ create_no_memory \/ assert_interrupts \/ yield_call \/ kill_call \/ thread_exit \/ exit_main
  BY <1>7 DEF Mask, create_no_memory, assert_interrupts, yield_call, kill_call, thread_exit, exit_main, Stop
<1>8. CASE interrupt_handler \/ Ended \/ UNCHANGED schedVars
  BY <1>8 DEF interrupt_handler, Ended, schedVars
<1> QED
  BY <1>2, <1>3, <1>4, <1>5, <1>6, <1>7, <1>8 DEF Next, Library, User

(* No tidy program's call names a waiter to be killed or yielded to.       *)
LEMMA TidyCalls ==
  ASSUME TidyProgram, TypeOK
  PROVE  /\ Call("mask") = {}
         /\ \A t \in Call("kill") \cup Call("yield") : t \notin Waiters
         /\ \A t \in Call("wait") : <<current_thread, "wait", t>> \in Calls
<1>1. Calls \subseteq Tids \X Operations \X Int
  BY SchedulerAssumption
<1>2. Call("mask") = {}
  BY DEF Call, TidyProgram
<1>3. ASSUME NEW t \in Call("kill") \cup Call("yield") PROVE t \notin Waiters
  BY <1>3 DEF Call, TidyProgram
<1>4. ASSUME NEW t \in Call("wait") PROVE <<current_thread, "wait", t>> \in Calls
  <2>1. PICK c \in Calls : c[1] = current_thread /\ c[2] = "wait" /\ c[3] = t
    BY <1>4 DEF Call
  <2>2. c = <<c[1], c[2], c[3]>>
    BY <1>1, <2>1
  <2> QED BY <2>1, <2>2
<1> QED BY <1>2, <1>3, <1>4

(* A thread that waits is one that may.                                    *)
LEMMA WaitersWait ==
  ASSUME NEW w, NEW t, <<w, "wait", t>> \in Calls PROVE w \in Waiters
<1> DEFINE c == <<w, "wait", t>>
<1>1. c[1] = w /\ c[2] = "wait"
  OBVIOUS
<1> QED BY <1>1 DEF Waiters

(* A step of the running thread that is no part of a wait.                 *)
OwnStep ==
  /\ UNCHANGED <<state, waiter, current_thread, refused, overflowed>>
  /\ \A t \in Tids \ {current_thread} : UNCHANGED <<tid[t], pc[t], back[t]>>
  /\ ~ InWait(current_thread) /\ ~ InWait(current_thread)'

LEMMA QuietStep ==
  ASSUME TypeOK, DispatchOK, JoinInv, ~ overflowed, OwnStep,
         \A w \in Tids \ {current_thread} : YieldingTo(w) => ~ InWait(w),
         LeavesWaits'
  PROVE  JoinInv'
<1> DEFINE c == current_thread
<1> USE DEF OwnStep
<1>1. \A w \in Tids : InWait(w)' <=> InWait(w)
  BY DEF InWait, Alive
<1>2. ASSUME NEW w \in Tids, InWait(w)' PROVE WaitsOn(w, tid[w])'
  <2>1. InWait(w) /\ w # c /\ tid'[w] = tid[w] /\ c' = c
    BY <1>1, <1>2
  <2>2. WaitsOn(w, tid[w])
    BY <2>1 DEF JoinInv, WaitOK
  <2> QED BY <2>1, <2>2 DEF WaitsOn, Alive
<1>3. ASSUME NEW w \in Tids, state'[w] = "Sleep" PROVE InWait(w)' /\ Alive(tid[w])'
  <2>1. InWait(w) /\ Alive(tid[w])
    BY <1>3 DEF JoinInv, WaitOK
  <2>2. w # c
    BY <2>1
  <2> QED BY <1>1, <2>1, <2>2 DEF Alive
<1>4. WaitOK'
  BY <1>2, <1>3 DEF WaitOK, JoinInv
<1>5. WaiterStillWaits'
  <2> SUFFICES ASSUME NEW t \in Tids, Alive(t)', waiter'[t] # -1
               PROVE  InWait(waiter[t])' /\ tid'[waiter'[t]] = t
    BY DEF WaiterStillWaits
  <2>1. Alive(t) /\ waiter[t] # -1
    BY DEF Alive
  <2>2. InWait(waiter[t]) /\ tid[waiter[t]] = t /\ waiter[t] \in Tids
    BY <2>1 DEF JoinInv, WaiterStillWaits, TypeOK
  <2> QED BY <1>1, <2>2
<1> QED BY <1>4, <1>5 DEF JoinInv

(* A set of threads in which each has one of a higher rank is empty.       *)
LEMMA NoAscent ==
  ASSUME NEW rank \in [Tids -> Tids], NEW S \in SUBSET Tids,
         \A t \in S : \E u \in S : rank[t] < rank[u]
  PROVE  S = {}
<1> SUFFICES ASSUME S # {} PROVE FALSE
  OBVIOUS
<1> DEFINE Less == OpToRel(<, Nat)
           T == {N - rank[t] : t \in S}
<1>0. \A t \in S : rank[t] \in Int /\ N - rank[t] \in Nat
  <2>1. \A n \in Tids : n \in Int /\ N - n \in Nat
    BY SchedulerAssumption DEF Tids
  <2> QED BY <2>1
<1>1. T \subseteq Nat /\ T # {}
  BY <1>0
<1>2. \A m, n \in Nat : m < n => <<m, n>> \in Less
  BY DEF OpToRel
<1>3. PICK x \in T : \A y \in T : ~ (<<y, x>> \in Less)
  <2> HIDE DEF Less, T
  <2>1. IsWellFoundedOn(Less, Nat)
    BY NatLessThanWellFounded DEF Less
  <2> QED BY <1>1, <2>1, WFMin
<1>4. PICK t \in S : x = N - rank[t]
  BY <1>3
<1>5. PICK u \in S : rank[t] < rank[u]
  BY <1>4
<1>6. N - rank[u] \in T /\ N - rank[u] < x
  BY <1>0, <1>4, <1>5, SchedulerAssumption
<1> QED BY <1>1, <1>2, <1>3, <1>6

(* thread_yield always finds a thread to run when it is called by a thread *)
(* in thread_wait: otherwise all live threads would wait for each other.   *)
LEMMA SomebodyRuns ==
  ASSUME TidyProgram, TypeOK, NoLostThread, JoinInv, ~ overflowed,
         InWait(current_thread), pc[current_thread] = "yield",
         want[current_thread] = THREAD_ANY
  PROVE  \E i \in 1 .. Len(thread_queue) : Runnable(thread_queue[i])
<1> DEFINE c == current_thread
<1> SUFFICES ASSUME \A i \in 1 .. Len(thread_queue) : ~ Runnable(thread_queue[i])
             PROVE  FALSE
  OBVIOUS
<1>1. c \in Tids /\ \A t \in Tids : state[t] \in {"Destroyed", "Running", "Sleep"}
  BY DEF TypeOK
<1>2. state[c] = "Sleep"
  <2>1. WaitsOn(c, tid[c])
    BY <1>1 DEF JoinInv, WaitOK
  <2> QED BY <2>1 DEF WaitsOn
<1>3. ASSUME NEW t \in Tids, state[t] = "Running" PROVE FALSE
  <2>1. t # c /\ ~ Queued(t)
    BY <1>2, <1>3 DEF Queued, Runnable
  <2>2. t \notin refused /\ ~ YieldingTo(t)
    BY DEF JoinInv, WaitOK, YieldingTo, THREAD_ANY, Tids
  <2> QED BY <1>3, <2>1, <2>2 DEF NoLostThread
<1> DEFINE S == {t \in Tids : Alive(t)}
<1>4. PICK rank \in [Tids -> Tids] :
        \A d \in Calls : d[2] = "wait" /\ d[3] \in Tids => rank[d[1]] < rank[d[3]]
  BY DEF TidyProgram
<1>5. ASSUME NEW t \in S PROVE \E u \in S : rank[t] < rank[u]
  <2>1. InWait(t) /\ Alive(tid[t])
    BY <1>1, <1>3 DEF JoinInv, WaitOK, Alive
  <2>2. tid[t] \in Tids /\ <<t, "wait", tid[t]>> \in Calls
    BY <2>1 DEF JoinInv, WaitOK, WaitsOn
  <2>3. rank[t] < rank[tid[t]]
    BY <1>4, <2>2
  <2> QED BY <2>1, <2>2, <2>3
<1>6. S = {}
  <2> HIDE DEF S
  <2>1. S \in SUBSET Tids
    BY DEF S
  <2> QED BY <1>5, <2>1, NoAscent
<1> QED BY <1>1, <1>2, <1>6 DEF Alive

(* A context switch to a thread that does not sleep; one in thread_wait is *)
(* switched to by the thread that has made it runnable.                    *)
LEMMA SwitchWaits ==
  ASSUME TypeOK, ControlOK, JoinInv, ~ overflowed, ~ overflowed',
         pc[current_thread] = "yield",
         NEW t \in Tids \ {current_thread}, NEW q, SwitchTo(t, q),
         Alive(t), state[t] # "Sleep",
         \A w \in Tids \ {current_thread} : YieldingTo(w) => w = t
  PROVE  JoinInv'
<1> DEFINE c == current_thread
<1>1. /\ c \in Tids /\ c # t
      /\ pc' = [pc EXCEPT ![c] = "resumed"] /\ want' = [want EXCEPT ![c] = t]
      /\ current_thread' = t
      /\ UNCHANGED <<state, waiter, tid, back, administrative_mode>>
      /\ pc \in [Tids -> Labels]
  BY DEF SwitchTo, TypeOK, table, admin
<1>2. pc[t] \in {"stub", "resumed"}
  BY DEF ControlOK, DispatchOK, SuspendedOK
<1>3. ~ administrative_mode
  BY DEF ControlOK, AdminOK
<1>4. \A w \in Tids : InWait(w)' <=> InWait(w)
  BY <1>1 DEF InWait, Alive
<1>5. refused' = {}
  BY DEF SwitchTo, Refused, Overflows, JoinInv, WaitOK
<1>6. ASSUME NEW w \in Tids, InWait(w)' PROVE WaitsOn(w, tid[w])'
  <2>1. InWait(w) /\ WaitsOn(w, tid[w])
    BY <1>4, <1>6 DEF JoinInv, WaitOK
  <2>2. CASE Alive(tid[w])
    <3>1. w # t
      BY <2>1, <2>2 DEF WaitsOn
    <3> QED BY <1>1, <2>1, <2>2, <3>1 DEF WaitsOn, Alive
  <2>3. CASE ~ Alive(tid[w])
    <3>1. w # c /\ YieldingTo(w)
      BY <2>1, <2>3 DEF WaitsOn
    <3>2. w = t /\ pc[w] = "resumed"
      BY <1>2, <2>1, <3>1 DEF InWait
    <3>3. pc'[w] = "resumed"
      BY <1>1, <3>2
    <3> QED BY <1>1, <2>1, <2>3, <3>2, <3>3 DEF WaitsOn, Alive
  <2> QED BY <2>2, <2>3
<1>7. \A w \in Tids : state'[w] = "Sleep" => InWait(w)' /\ Alive(tid[w])'
  BY <1>1, <1>4 DEF JoinInv, WaitOK, Alive
<1>8. LeavesWaits'
  BY <1>1, <1>2, <1>3 DEF LeavesWaits
<1>9. WaiterStillWaits'
  BY <1>1, <1>4 DEF JoinInv, WaiterStillWaits, Alive, TypeOK
<1> QED BY <1>5, <1>6, <1>7, <1>8, <1>9 DEF JoinInv, WaitOK

(* thread_create takes an identifier for which nobody waits.               *)
LEMMA CreateWaits ==
  ASSUME TypeOK, ControlOK, JoinInv, ~ overflowed, ~ overflowed',
         At("user"), NEW t \in Tids, create_thread(t)
  PROVE  JoinInv'
<1> DEFINE c == current_thread
<1> USE DEF At
<1>1. /\ c \in Tids /\ ~ Alive(t) /\ Alive(c) /\ c # t
      /\ pc' = [pc EXCEPT ![t] = "stub", ![c] = "return"]
      /\ tid' = [tid EXCEPT ![t] = -1] /\ back' = [back EXCEPT ![t] = "return"]
      /\ want' = [want EXCEPT ![t] = THREAD_ANY]
      /\ state' = [state EXCEPT ![t] = "Running"] /\ waiter' = [waiter EXCEPT ![t] = -1]
      /\ UNCHANGED <<current_thread, administrative_mode>>
  BY DEF create_thread, NewEntry, TypeOK, Alive, ControlOK, PathOK, OnOwnStack, admin
<1>2. TypeOK /\ pc[c] = "user" /\ ~ administrative_mode
  BY DEF ControlOK, AdminOK
<1>3. refused' = {}
  BY DEF create_thread, Refused, Overflows, JoinInv, WaitOK
<1>4. ~ InWait(c) /\ ~ InWait(t)
  BY <1>1, <1>2 DEF InWait
<1>5. ~ InWait(c)' /\ ~ InWait(t)'
  BY <1>1, <1>2 DEF InWait, TypeOK
<1>6. \A w \in Tids : InWait(w)' <=> InWait(w)
  <2>1. ASSUME NEW w \in Tids \ {c, t} PROVE InWait(w)' <=> InWait(w)
    BY <1>1, <1>2 DEF InWait, TypeOK, Alive
  <2> QED BY <1>1, <1>4, <1>5, <2>1
<1>7. ASSUME NEW w \in Tids, InWait(w)
      PROVE  w # c /\ w # t /\ WaitsOn(w, tid[w]) /\ Alive(tid[w]) /\ tid[w] # t /\ tid[w] \in Tids
  <2>1. w # c /\ w # t /\ WaitsOn(w, tid[w])
    BY <1>4, <1>7 DEF JoinInv, WaitOK
  <2>2. ~ YieldingTo(w)
    BY <1>2 DEF YieldingTo
  <2> QED BY <1>1, <2>1, <2>2 DEF WaitsOn
<1>8. ASSUME NEW w \in Tids, InWait(w)' PROVE WaitsOn(w, tid[w])'
  <2>1. w # c /\ w # t /\ WaitsOn(w, tid[w]) /\ Alive(tid[w]) /\ tid[w] # t /\ tid[w] \in Tids
    BY <1>6, <1>7, <1>8
  <2>2. tid'[w] = tid[w] /\ state'[w] = state[w] /\ state'[tid[w]] = state[tid[w]] /\ waiter'[tid[w]] = waiter[tid[w]]
    BY <1>1, <1>2, <2>1 DEF TypeOK
  <2> QED BY <1>1, <2>1, <2>2 DEF WaitsOn, Alive
<1>9. ASSUME NEW w \in Tids, state'[w] = "Sleep" PROVE InWait(w)' /\ Alive(tid[w])'
  <2>1. w # t /\ state[w] = "Sleep"
    BY <1>1, <1>2, <1>9 DEF TypeOK
  <2>2. InWait(w)
    BY <2>1 DEF JoinInv, WaitOK
  <2>3. Alive(tid[w]) /\ tid[w] # t /\ tid[w] \in Tids /\ w # c
    BY <1>7, <2>2
  <2>4. tid'[w] = tid[w] /\ state'[tid[w]] = state[tid[w]]
    BY <1>1, <1>2, <2>1, <2>3 DEF TypeOK
  <2> QED BY <1>6, <2>2, <2>3, <2>4 DEF Alive
<1>10. LeavesWaits'
  <2>1. pc'[c] = "return"
    BY <1>1, <1>2 DEF TypeOK
  <2> QED BY <1>1, <1>2, <2>1 DEF LeavesWaits
<1>11. WaiterStillWaits'
  <2> SUFFICES ASSUME NEW u \in Tids, Alive(u)', waiter'[u] # -1
               PROVE  InWait(waiter[u])' /\ tid'[waiter'[u]] = u
    BY DEF WaiterStillWaits
  <2>1. u # t /\ Alive(u) /\ waiter'[u] = waiter[u]
    BY <1>1, <1>2 DEF TypeOK, Alive
  <2>2. InWait(waiter[u]) /\ tid[waiter[u]] = u /\ waiter[u] \in Tids
    BY <2>1 DEF JoinInv, WaiterStillWaits, TypeOK
  <2>3. waiter[u] # t
    BY <1>4, <2>2
  <2> QED BY <1>1, <1>2, <1>6, <2>1, <2>2, <2>3 DEF TypeOK
<1> QED BY <1>3, <1>8, <1>9, <1>10, <1>11 DEF JoinInv, WaitOK

(* A thread that is in user code begins to wait for a live thread, or goes *)
(* on to read the code of a dead one.                                      *)
LEMMA BeginWait ==
  ASSUME TidyProgram, TypeOK, ControlOK, JoinInv, ~ overflowed,
         NEW t, t \in Call("wait"), wait_sleep(t) \/ wait_exited(t)
  PROVE  JoinInv'
<1> DEFINE c == current_thread
<1> USE DEF wait_call, At
<1>1. /\ c \in Tids /\ pc[c] = "user" /\ Alive(c) /\ t \in Tids /\ c # t
      /\ ~ administrative_mode /\ ~ InWait(c)
      /\ tid' = [tid EXCEPT ![c] = t] /\ tid \in [Tids -> Int]
      /\ UNCHANGED <<current_thread, administrative_mode, refused, overflowed>>
  BY DEF wait_sleep, wait_exited, WaitRefused, TypeOK, ControlOK, PathOK, OnOwnStack, AdminOK, InWait, admin, history
<1>2. <<c, "wait", t>> \in Calls
  BY TidyCalls
<1>3. ASSUME NEW w \in Tids, InWait(w)
      PROVE  w # c /\ WaitsOn(w, tid[w]) /\ Alive(tid[w]) /\ tid[w] \in Tids
  <2>1. w # c /\ WaitsOn(w, tid[w])
    BY <1>1, <1>3 DEF JoinInv, WaitOK
  <2>2. ~ YieldingTo(w)
    BY <1>1 DEF YieldingTo
  <2> QED BY <1>1, <2>1, <2>2 DEF WaitsOn
<1>4. ASSUME NEW u \in Tids, Alive(u), waiter[u] # -1
      PROVE  InWait(waiter[u]) /\ tid[waiter[u]] = u /\ waiter[u] \in Tids \ {c}
  BY <1>1, <1>4 DEF JoinInv, WaiterStillWaits, TypeOK
<1>5. CASE wait_exited(t)
  <2>1. /\ ~ Alive(t) /\ pc' = [pc EXCEPT ![c] = "waited"] /\ pc \in [Tids -> Labels]
        /\ UNCHANGED <<state, waiter, back, want>>
    BY <1>5 DEF wait_exited, Enter, Goto, TypeOK, Alive, table
  <2>2. \A w \in Tids : InWait(w)' <=> InWait(w) \/ w = c
    BY <1>1, <2>1 DEF InWait, Alive
  <2>3. WaitsOn(c, t)'
    <3>1. state[c] = "Running"
      BY <1>1 DEF JoinInv, WaitOK, TypeOK, Alive
    <3> QED BY <1>1, <1>2, <2>1, <3>1 DEF WaitsOn, Alive
  <2>4. ASSUME NEW w \in Tids \ {c}, InWait(w) PROVE WaitsOn(w, tid[w])'
    BY <1>1, <1>3, <2>1, <2>4 DEF WaitsOn, Alive
  <2>5. ASSUME NEW w \in Tids, InWait(w)' PROVE WaitsOn(w, tid[w])'
    BY <1>1, <2>2, <2>3, <2>4, <2>5
  <2>6. ASSUME NEW w \in Tids, state'[w] = "Sleep" PROVE InWait(w)' /\ Alive(tid[w])'
    <3>1. InWait(w) /\ Alive(tid[w])
      BY <2>1, <2>6 DEF JoinInv, WaitOK
    <3> QED BY <1>1, <2>1, <2>2, <3>1 DEF Alive
  <2>7. LeavesWaits'
    BY <1>1, <2>1 DEF LeavesWaits
  <2>8. WaiterStillWaits'
    BY <1>1, <1>4, <2>1, <2>2 DEF WaiterStillWaits, Alive
  <2> QED BY <1>1, <2>5, <2>6, <2>7, <2>8 DEF JoinInv, WaitOK
<1>6. CASE wait_sleep(t)
  <2>1. /\ Alive(t) /\ waiter[t] = -1 /\ pc' = [pc EXCEPT ![c] = "yield"] /\ pc \in [Tids -> Labels]
        /\ state' = [state EXCEPT ![c] = "Sleep"] /\ waiter' = [waiter EXCEPT ![t] = c]
        /\ back' = [back EXCEPT ![c] = "waited"] /\ want' = [want EXCEPT ![c] = THREAD_ANY]
        /\ state \in [Tids -> {"Destroyed", "Running", "Sleep"}]
        /\ waiter \in [Tids -> Tids \cup {-1}]
        /\ want \in [Tids -> Int] /\ back \in [Tids -> ReturnLabels]
    BY <1>6 DEF wait_sleep, WaitRefused, Enter, Goto, TypeOK, Alive
  <2>2. \A w \in Tids : InWait(w)' <=> InWait(w) \/ w = c
    <3>1. InWait(c)'
      BY <1>1, <2>1 DEF InWait, Alive
    <3>2. ASSUME NEW w \in Tids \ {c} PROVE InWait(w)' <=> InWait(w)
      BY <1>1, <2>1 DEF InWait, Alive
    <3> QED BY <1>1, <3>1, <3>2
  <2>3. \A u \in Tids : Alive(u)' <=> Alive(u)
    BY <1>1, <2>1 DEF Alive
  <2>4. WaitsOn(c, t)'
    BY <1>1, <1>2, <2>1, <2>3 DEF WaitsOn
  <2>5. ASSUME NEW w \in Tids \ {c}, InWait(w) PROVE WaitsOn(w, tid[w])'
    <3>1. WaitsOn(w, tid[w]) /\ Alive(tid[w]) /\ tid[w] \in Tids
      BY <1>3, <2>5
    <3>2. tid[w] # t
      BY <2>1, <3>1 DEF WaitsOn, Tids
    <3> QED BY <1>1, <2>1, <2>3, <3>1, <3>2 DEF WaitsOn
  <2>6. ASSUME NEW w \in Tids, InWait(w)' PROVE WaitsOn(w, tid[w])'
    <3>1. CASE w = c
      <4>1. tid'[c] = t
        BY <1>1
      <4> QED BY <1>1, <2>4, <3>1, <4>1
    <3>2. CASE w # c
      BY <2>2, <2>5, <2>6, <3>2
    <3> QED BY <3>1, <3>2
  <2>7. ASSUME NEW w \in Tids, state'[w] = "Sleep" PROVE InWait(w)' /\ Alive(tid[w])'
    <3>1. CASE w = c
      BY <1>1, <2>1, <2>2, <2>3, <3>1
    <3>2. CASE w # c
      <4>1. InWait(w) /\ Alive(tid[w])
        BY <2>1, <2>7, <3>2 DEF JoinInv, WaitOK
      <4>2. tid[w] \in Tids
        BY <1>3, <4>1
      <4> QED BY <1>1, <2>2, <2>3, <3>2, <4>1, <4>2
    <3> QED BY <3>1, <3>2
  <2>8. LeavesWaits'
    <3>1. pc'[c] = "yield" /\ want'[c] \notin Tids
      BY <1>1, <2>1 DEF THREAD_ANY, Tids
    <3> QED BY <1>1, <3>1 DEF LeavesWaits
  <2>9. WaiterStillWaits'
    <3> SUFFICES ASSUME NEW u \in Tids, Alive(u)', waiter'[u] # -1
                 PROVE  InWait(waiter[u])' /\ tid'[waiter'[u]] = u
      BY DEF WaiterStillWaits
    <3>1. CASE u = t
      BY <1>1, <2>1, <2>2, <3>1
    <3>2. CASE u # t
      <4>1. waiter'[u] = waiter[u] /\ Alive(u)
        BY <2>1, <2>3, <3>2
      <4>2. InWait(waiter[u]) /\ tid[waiter[u]] = u /\ waiter[u] \in Tids \ {c}
        BY <1>4, <4>1
      <4> QED BY <1>1, <2>2, <4>1, <4>2
    <3> QED BY <3>1, <3>2
  <2> QED BY <1>1, <2>6, <2>7, <2>8, <2>9 DEF JoinInv, WaitOK
<1> QED BY <1>5, <1>6

(* A thread dies: if another waits for it, that one is yielded to at once. *)
(* The dying thread itself waits for nobody: it is not a waiter, or on its *)
(* way out.                                                                *)
LEMMA DyingAwaits ==
  ASSUME TypeOK, ControlOK, JoinInv, ~ overflowed, At("death")
  PROVE  /\ tid[current_thread] \in Tids /\ Alive(tid[current_thread])
         /\ ~ InWait(current_thread) /\ ~ InWait(tid[current_thread])
         /\ \A w \in Tids : InWait(w) => Alive(tid[w])
         /\ \A w \in Tids : InWait(w) /\ tid[w] = tid[current_thread]
                              <=> w = waiter[tid[current_thread]]
<1> DEFINE c == current_thread
           d == tid[c]
<1> USE DEF At
<1>1. c \in Tids /\ d \in Tids /\ Alive(d) /\ pc[c] = "death" /\ ~ InWait(c)
  BY DEF ControlOK, DispatchOK, PathOK, TypeOK, InWait
<1>2. ~ InWait(d)
  <2>1. CASE d = c
    BY <1>1, <2>1
  <2>2. CASE d # c
    <3>1. back[c] = "killed"
      BY <1>1, <2>2 DEF ControlOK, PathOK
    <3>2. d \notin Waiters
      BY <1>1, <3>1 DEF JoinInv, WaitOK, LeavesWaits
    <3> QED BY <1>1, <3>2, WaitersWait DEF JoinInv, WaitOK, WaitsOn
  <2> QED BY <2>1, <2>2
<1>3. ASSUME NEW w \in Tids, InWait(w) PROVE WaitsOn(w, tid[w]) /\ Alive(tid[w])
  <2>1. w # c /\ WaitsOn(w, tid[w])
    BY <1>1, <1>3 DEF JoinInv, WaitOK
  <2>2. ~ YieldingTo(w)
    BY <1>1 DEF YieldingTo
  <2> QED BY <2>1, <2>2 DEF WaitsOn
<1>4. ASSUME NEW w \in Tids, InWait(w), tid[w] = d PROVE w = waiter[d]
  BY <1>1, <1>3, <1>4 DEF WaitsOn
<1>5. ASSUME NEW w \in Tids, w = waiter[d] PROVE InWait(w) /\ tid[w] = d
  BY <1>1, <1>5 DEF JoinInv, WaiterStillWaits, Tids
<1> QED BY <1>1, <1>2, <1>3, <1>4, <1>5

LEMMA DeathWaits ==
  ASSUME TypeOK, ControlOK, JoinInv, ~ overflowed, handle_death
  PROVE  JoinInv'
<1> DEFINE c == current_thread
           d == tid[c]
           w0 == waiter[d]
<1>1. /\ c \in Tids /\ d \in Tids /\ Alive(d) /\ ~ InWait(c) /\ ~ InWait(d)
      /\ \A w \in Tids : InWait(w) => Alive(tid[w])
      /\ \A w \in Tids : InWait(w) /\ tid[w] = d <=> w = w0
  BY DyingAwaits DEF handle_death, TypeOK
<1>2. /\ pc[c] = "death" /\ back[c] \in {"killed", "admin", "exit"} /\ Alive(c) /\ ~ administrative_mode
      /\ UNCHANGED <<waiter, current_thread, administrative_mode, refused, overflowed, tid, back>>
      /\ pc \in [Tids -> Labels] /\ want \in [Tids -> Int]
      /\ state \in [Tids -> {"Destroyed", "Running", "Sleep"}] /\ waiter \in [Tids -> Tids \cup {-1}]
  BY DEF handle_death, At, ControlOK, PathOK, AdminOK, TypeOK, admin, history
<1>3. ASSUME NEW w \in Tids, InWait(w)
      PROVE  w # c /\ w # d /\ WaitsOn(w, tid[w]) /\ state[w] = "Sleep" /\ tid[w] \in Tids
  <2>1. w # c /\ w # d /\ WaitsOn(w, tid[w]) /\ Alive(tid[w])
    BY <1>1, <1>3 DEF JoinInv, WaitOK
  <2> QED BY <2>1 DEF WaitsOn
<1>4. \/ /\ w0 \in Tids /\ state[w0] = "Sleep" /\ w0 # c /\ w0 # d
         /\ state' = [state EXCEPT ![d] = "Destroyed", ![w0] = "Running"]
         /\ want' = [want EXCEPT ![c] = w0] /\ pc' = [pc EXCEPT ![c] = "yield"]
      \/ /\ w0 = -1 /\ state' = [state EXCEPT ![d] = "Destroyed"]
         /\ want' = want /\ pc' = [pc EXCEPT ![c] = back[c]]
  <2>1. CASE w0 \in Tids
    <3>1. InWait(w0) /\ tid[w0] = d
      BY <1>1, <2>1
    <3>2. w0 # c /\ w0 # d /\ state[w0] = "Sleep"
      BY <1>3, <2>1, <3>1
    <3> QED BY <2>1, <3>2 DEF handle_death, Wakes, Goto, Tids
  <2>2. CASE w0 = -1
    BY <2>2 DEF handle_death, Wakes, Goto
  <2> QED BY <1>1, <1>2, <2>1, <2>2
<1>5. \A w \in Tids \ {c} : pc'[w] = pc[w]
  BY <1>2, <1>4
<1>6. \A w \in Tids : Alive(w)' <=> Alive(w) /\ w # d
  BY <1>1, <1>2, <1>4 DEF Alive
<1>7. \A w \in Tids : InWait(w)' <=> InWait(w)
  <2>1. ~ InWait(c)'
    <3>1. pc'[c] \in {"yield", "killed", "admin", "exit"} /\ back'[c] \in {"killed", "admin", "exit"}
      BY <1>1, <1>2, <1>4
    <3> QED BY <1>2, <3>1 DEF InWait
  <2>2. ASSUME NEW w \in Tids \ {c} PROVE InWait(w)' <=> InWait(w)
    BY <1>1, <1>2, <1>5, <1>6 DEF InWait
  <2> QED BY <1>1, <1>2, <2>1, <2>2
<1>8. ASSUME NEW w \in Tids, InWait(w)' PROVE WaitsOn(w, tid[w])'
  <2>1. InWait(w) /\ w # c /\ w # d /\ WaitsOn(w, tid[w]) /\ state[w] = "Sleep"
        /\ tid[w] \in Tids /\ Alive(tid[w])
    BY <1>1, <1>3, <1>7, <1>8
  <2>2. CASE tid[w] = d
    <3>1. w = w0
      BY <1>1, <2>1, <2>2
    <3>2. w0 # -1
      BY <3>1 DEF Tids
    <3>3. state'[w] = "Running" /\ pc'[c] = "yield" /\ want'[c] = w
      BY <1>1, <1>2, <1>4, <3>1, <3>2
    <3>4. ~ Alive(tid[w])'
      BY <1>2, <1>6, <2>1, <2>2
    <3> QED BY <1>2, <2>1, <3>3, <3>4 DEF WaitsOn, YieldingTo
  <2>3. CASE tid[w] # d
    <3>1. w # w0
      BY <1>1, <2>3
    <3>2. state'[w] = "Sleep" /\ Alive(tid[w])'
      BY <1>2, <1>4, <1>6, <2>1, <2>3, <3>1
    <3> QED BY <1>2, <2>1, <3>2 DEF WaitsOn
  <2> QED BY <2>2, <2>3
<1>9. ASSUME NEW w \in Tids, state'[w] = "Sleep" PROVE InWait(w)' /\ Alive(tid[w])'
  <2>1. state[w] = "Sleep" /\ w # w0
    <3>1. w # -1
      BY DEF Tids
    <3>2. CASE w0 = -1
      BY <1>2, <1>4, <1>9, <3>1, <3>2
    <3>3. CASE w0 # -1
      BY <1>2, <1>4, <1>9, <3>3
    <3> QED BY <3>2, <3>3
  <2>2. InWait(w) /\ Alive(tid[w])
    BY <2>1 DEF JoinInv, WaitOK
  <2>3. tid[w] # d /\ tid[w] \in Tids
    BY <1>1, <1>3, <2>1, <2>2
  <2> QED BY <1>2, <1>6, <1>7, <2>2, <2>3
<1>10. LeavesWaits'
  <2>1. ~ administrative_mode' /\ current_thread' = c
    BY <1>2
  <2>2. pc'[c] = "yield" => state'[want'[c]] # "Sleep"
    BY <1>1, <1>2, <1>4
  <2>3. pc'[c] \in {"yield", "killed", "admin", "exit"}
    BY <1>1, <1>2, <1>4
  <2> QED BY <2>1, <2>2, <2>3 DEF LeavesWaits
<1>11. WaiterStillWaits'
  BY <1>2, <1>6, <1>7 DEF WaiterStillWaits, JoinInv
<1> QED BY <1>2, <1>8, <1>9, <1>10, <1>11 DEF JoinInv, WaitOK

(* The end of a wait: it is switched back to, and then reads the code.     *)
LEMMA EndWait ==
  ASSUME TypeOK, ControlOK, JoinInv, ~ overflowed, InWait(current_thread),
         resumed \/ waited
  PROVE  JoinInv' /\ ~ Alive(tid[current_thread])
<1> DEFINE c == current_thread
<1> USE DEF At
<1>1. /\ c \in Tids /\ WaitsOn(c, tid[c]) /\ pc[c] \in {"resumed", "waited"} /\ ~ administrative_mode
      /\ pc \in [Tids -> Labels] /\ Alive(c)
      /\ UNCHANGED <<state, waiter, current_thread, administrative_mode, refused, overflowed, tid, back, want>>
  BY DEF resumed, waited, JoinInv, WaitOK, TypeOK, InWait, ControlOK, AdminOK, table, admin, history
<1>2. ~ Alive(tid[c]) /\ tid[c] \in Tids
  BY <1>1 DEF WaitsOn
<1>3. pc[c] = "resumed" => back[c] = "waited"
  BY DEF InWait
<1>4. pc' = [pc EXCEPT ![c] = IF pc[c] = "resumed" THEN "waited" ELSE "return"]
  BY <1>3 DEF resumed, waited, Goto
<1>5. \A w \in Tids \ {c} : InWait(w)' <=> InWait(w)
  BY <1>1, <1>4 DEF InWait, Alive
<1>6. InWait(c)' <=> pc[c] = "resumed"
  BY <1>1, <1>4 DEF InWait, Alive
<1>7. ASSUME NEW w \in Tids, InWait(w)' PROVE WaitsOn(w, tid[w])'
  <2>1. CASE w = c
    <3>1. pc'[c] = "waited"
      BY <1>1, <1>4, <1>6, <1>7, <2>1
    <3> QED BY <1>1, <1>2, <2>1, <3>1 DEF WaitsOn, Alive
  <2>2. CASE w # c
    <3>1. InWait(w) /\ WaitsOn(w, tid[w]) /\ ~ YieldingTo(w)
      BY <1>1, <1>5, <1>7, <2>2 DEF JoinInv, WaitOK, YieldingTo
    <3> QED BY <1>1, <2>2, <3>1 DEF WaitsOn, Alive
  <2> QED BY <2>1, <2>2
<1>8. ASSUME NEW w \in Tids, state'[w] = "Sleep" PROVE InWait(w)' /\ Alive(tid[w])'
  <2>1. InWait(w) /\ Alive(tid[w])
    BY <1>1, <1>8 DEF JoinInv, WaitOK
  <2>2. w # c
    BY <1>2, <2>1
  <2> QED BY <1>1, <1>5, <2>1, <2>2 DEF Alive
<1>9. LeavesWaits'
  BY <1>1, <1>4 DEF LeavesWaits
<1>10. WaiterStillWaits'
  <2> SUFFICES ASSUME NEW u \in Tids, Alive(u)', waiter'[u] # -1
               PROVE  InWait(waiter[u])' /\ tid'[waiter'[u]] = u
    BY DEF WaiterStillWaits
  <2>1. Alive(u) /\ InWait(waiter[u]) /\ tid[waiter[u]] = u /\ waiter[u] \in Tids
    BY <1>1 DEF JoinInv, WaiterStillWaits, Alive, TypeOK
  <2>2. waiter[u] # c
    BY <1>2, <2>1
  <2> QED BY <1>1, <1>5, <2>1, <2>2
<1> QED BY <1>1, <1>2, <1>7, <1>8, <1>9, <1>10 DEF JoinInv, WaitOK

(* thread_yield returns at once: not to a thread_wait, which always finds  *)
(* a thread to switch to.                                                  *)
LEMMA YieldKeepsWaits ==
  ASSUME TidyProgram, TypeOK, ControlOK, NoLostThread, JoinInv, ~ overflowed,
         yield_self \/ yield_none \/ yield_invalid
  PROVE  JoinInv' /\ OwnStep
<1> DEFINE c == current_thread
<1> USE LabelsApart DEF At
<1>1. /\ c \in Tids /\ pc[c] = "yield" /\ ~ administrative_mode /\ back[c] \in ReturnLabels
      /\ pc' = [pc EXCEPT ![c] = back[c]] /\ pc \in [Tids -> Labels]
      /\ UNCHANGED <<state, waiter, current_thread, administrative_mode, refused, overflowed, tid, back, want>>
  BY DEF yield_self, yield_none, yield_invalid, YieldReturns, Goto, ControlOK, AdminOK, TypeOK, table, admin, history
<1>2. ~ InWait(c)
  <2> SUFFICES ASSUME InWait(c) PROVE FALSE
    OBVIOUS
  <2>1. WaitsOn(c, tid[c])
    BY <1>1 DEF JoinInv, WaitOK
  <2>2. want[c] = THREAD_ANY
    BY <1>1, <2>1 DEF WaitsOn
  <2>3. \E i \in 1 .. Len(thread_queue) : Runnable(thread_queue[i])
    BY <1>1, <2>2, SomebodyRuns
  <2> QED BY <1>1, <2>2, <2>3 DEF yield_self, yield_none, yield_invalid, THREAD_ANY, THREAD_SELF, Tids
<1>3. ~ InWait(c)'
  <2>1. Alive(c)' => Alive(c)
    BY <1>1 DEF Alive
  <2> QED BY <1>1, <1>2, <2>1 DEF InWait, Alive
<1>4. ASSUME NEW w \in Tids \ {c}, YieldingTo(w) PROVE ~ InWait(w)
  BY <1>4 DEF YieldingTo, InWait, Alive, Available, yield_self, yield_none, yield_invalid,
              THREAD_ANY, THREAD_SELF, Tids
<1>5. LeavesWaits'
  BY <1>1, <1>3 DEF LeavesWaits, ReturnLabels, OwnReturns, OwnLabels
<1>6. \A t \in Tids \ {c} : UNCHANGED <<tid[t], pc[t], back[t]>>
  BY <1>1
<1> QED BY <1>1, <1>2, <1>3, <1>4, <1>5, <1>6, QuietStep DEF ControlOK, OwnStep

(* The calls that the program makes from user code, other than             *)
(* thread_create and a thread_wait that waits.                             *)
LEMMA CallKeepsWaits ==
  ASSUME TidyProgram, TypeOK, ControlOK, JoinInv, ~ overflowed,
         \/ Mask \/ yield_call \/ kill_call \/ thread_exit \/ exit_main \/ interrupt_handler
         \/ At("user") /\ create_no_more
         \/ \E t \in Call("wait") : wait_invalid(t)
  PROVE  JoinInv' /\ OwnStep
<1> DEFINE c == current_thread
<1> USE DEF At
<1>1. /\ c \in Tids /\ pc[c] = "user" /\ ~ administrative_mode /\ back[c] = "return" /\ pc \in [Tids -> Labels]
      /\ back \in [Tids -> ReturnLabels] /\ tid \in [Tids -> Int] /\ want \in [Tids -> Int]
      /\ UNCHANGED <<state, waiter, current_thread, refused, overflowed>>
  BY DEF Mask, yield_call, kill_call, thread_exit, exit_main, interrupt_handler, create_no_more,
         wait_invalid, wait_call, ControlOK, AdminOK, PathOK, TypeOK, table, history
<1>2. ~ InWait(c)
  BY <1>1 DEF InWait
<1>3. \A t \in Tids \ {c} : UNCHANGED <<tid[t], pc[t], back[t]>>
  BY <1>1 DEF Mask, yield_call, kill_call, thread_exit, exit_main, interrupt_handler, create_no_more,
              wait_invalid, Enter, Goto, locals
<1>4. /\ Call("mask") = {}
      /\ \A t \in Call("kill") \cup Call("yield") : t \notin Waiters
  BY TidyCalls
<1>5. ~ InWait(c)' /\ LeavesWaits'
  <2>1. CASE yield_call
    <3>1. PICK t \in Call("yield") : want' = [want EXCEPT ![c] = t] /\ back' = [back EXCEPT ![c] = "return"]
      BY <2>1 DEF yield_call
    <3>2. pc'[c] = "yield" /\ back'[c] = "return" /\ want'[c] = t /\ ~ administrative_mode'
      BY <1>1, <2>1, <3>1 DEF yield_call, Enter, Goto, admin
    <3>3. t \in Tids => state[t] # "Sleep"
      <4>1. ASSUME t \in Tids, state[t] = "Sleep" PROVE t \in Waiters
        BY <4>1, WaitersWait DEF JoinInv, WaitOK, WaitsOn
      <4> QED BY <1>4, <4>1
    <3> QED BY <1>1, <3>2, <3>3 DEF InWait, LeavesWaits
  <2>2. CASE kill_call
    <3>1. PICK t \in Call("kill") : tid' = [tid EXCEPT ![c] = t]
      BY <2>2 DEF kill_call
    <3>2. pc'[c] = "kill" /\ tid'[c] \notin Waiters /\ ~ administrative_mode'
      BY <1>1, <1>4, <2>2, <3>1 DEF kill_call, Enter, Goto, admin
    <3> QED BY <1>1, <3>2 DEF InWait, LeavesWaits
  <2>3. CASE thread_exit
    <3>1. pc'[c] = "resumed" /\ back'[c] = "return"
      <4>1. 0 \in Tids \ {c}
        BY <2>3, SchedulerAssumption DEF thread_exit, Tids
      <4>2. pc[0] = "resumed"
        BY <4>1 DEF ControlOK, DispatchOK
      <4> QED BY <1>1, <2>3, <4>2 DEF thread_exit, Enter, Goto
    <3> QED BY <1>1, <3>1 DEF InWait, LeavesWaits
  <2>4. CASE exit_main
    <3>1. pc'[c] = "death" /\ back'[c] = "exit" /\ ~ administrative_mode'
      BY <1>1, <2>4 DEF exit_main, Enter, Goto, admin
    <3> QED BY <1>1, <3>1 DEF InWait, LeavesWaits
  <2>5. CASE interrupt_handler
    <3>1. pc'[c] = "yield" /\ back'[c] = "handler" /\ want'[c] \notin Tids /\ ~ administrative_mode'
      BY <1>1, <2>5 DEF interrupt_handler, Goto, admin, THREAD_ANY, Tids
    <3> QED BY <1>1, <3>1 DEF InWait, LeavesWaits
  <2>6. CASE Mask
    BY <1>4, <2>6 DEF Mask
  <2>7. CASE create_no_more \/ \E t \in Call("wait") : wait_invalid(t)
    <3>1. pc'[c] = "return" /\ ~ administrative_mode'
      BY <1>1, <2>7 DEF create_no_more, wait_invalid, Enter, Goto, admin
    <3> QED BY <1>1, <3>1 DEF InWait, LeavesWaits
  <2> QED BY <2>1, <2>2, <2>3, <2>4, <2>5, <2>6, <2>7
<1>6. \A w \in Tids : ~ YieldingTo(w)
  BY <1>1 DEF YieldingTo
<1> QED BY <1>1, <1>2, <1>3, <1>5, <1>6, QuietStep DEF ControlOK, OwnStep

(* The steps inside the library that are no part of a wait.                *)
LEMMA LibraryKeepsWaits ==
  ASSUME TypeOK, ControlOK, JoinInv, ~ overflowed,
         \/ Return \/ sigreturn \/ thread_stub \/ admin_mode \/ admin_next
         \/ thread_kill \/ kill_invalid \/ killed \/ exit_next
         \/ resumed /\ ~ InWait(current_thread)
  PROVE  JoinInv' /\ OwnStep
<1> DEFINE c == current_thread
<1> USE LabelsApart DEF At, Goto, LeaveLocals
<1>1. /\ c \in Tids /\ pc \in [Tids -> Labels] /\ pc[c] \notin {"yield", "waited", "user"}
      /\ back \in [Tids -> ReturnLabels] /\ tid \in [Tids -> Int] /\ want \in [Tids -> Int]
      /\ UNCHANGED <<state, waiter, current_thread, refused, overflowed>>
  BY DEF Return, sigreturn, thread_stub, admin_mode, admin_next, thread_kill, kill_invalid,
         killed, exit_next, resumed, TypeOK, table, history
<1>2. ~ InWait(c)
  <2>1. CASE pc[c] = "resumed" /\ administrative_mode
    BY <2>1 DEF JoinInv, WaitOK, LeavesWaits
  <2>2. CASE resumed
    BY <2>2 DEF resumed, InWait, Return, sigreturn, thread_stub, admin_mode, admin_next, thread_kill,
         kill_invalid, killed, exit_next
  <2> QED
    BY <1>1, <2>1, <2>2 DEF InWait, Return, sigreturn, thread_stub, admin_mode, admin_next, thread_kill,
         kill_invalid, killed, exit_next
<1>3. \A t \in Tids \ {c} : UNCHANGED <<tid[t], pc[t], back[t]>>
  BY <1>1 DEF Return, sigreturn, thread_stub, admin_mode, admin_next, thread_kill, kill_invalid,
              killed, exit_next, resumed, locals
<1>4. ~ InWait(c)' /\ LeavesWaits'
  <2>1. CASE Return \/ sigreturn \/ thread_stub \/ killed
    <3>1. pc'[c] \in {"user", "return"} /\ ~ administrative_mode'
      BY <1>1, <2>1 DEF Return, sigreturn, thread_stub, killed, admin, ControlOK, AdminOK
    <3> QED BY <1>1, <3>1 DEF InWait, LeavesWaits
  <2>2. CASE admin_mode
    <3>1. pc'[c] = "kill" /\ back'[c] = "admin"
      BY <1>1, <2>2 DEF admin_mode
    <3> QED BY <1>1, <3>1 DEF InWait, LeavesWaits
  <2>3. CASE admin_next \/ exit_next
    <3>1. pc'[c] = "yield" /\ back'[c] \in {"admin_none", "exit_none"} /\ want'[c] \notin Tids
      <4>1. THREAD_ANY \notin Tids
        BY DEF THREAD_ANY, Tids
      <4> QED BY <1>1, <2>3, <4>1 DEF admin_next, exit_next
    <3> QED BY <1>1, <3>1 DEF InWait, LeavesWaits
  <2>4. CASE thread_kill
    <3>1. pc'[c] = "death" /\ ~ administrative_mode'
      BY <1>1, <2>4 DEF thread_kill
    <3>2. back[c] = "killed" => tid[c] \notin Waiters
      BY <2>4 DEF thread_kill, JoinInv, WaitOK, LeavesWaits
    <3>3. UNCHANGED <<back, tid>>
      BY <2>4 DEF thread_kill, locals
    <3> QED BY <1>1, <3>1, <3>2, <3>3 DEF InWait, LeavesWaits
  <2>5. CASE kill_invalid
    <3>1. pc'[c] \in {"admin", "return"}
      BY <1>1, <2>5 DEF kill_invalid
    <3> QED BY <1>1, <3>1 DEF InWait, LeavesWaits
  <2>6. CASE resumed
    <3>1. pc'[c] = back[c] /\ back[c] # "waited" /\ UNCHANGED <<back, administrative_mode>> /\ ~ administrative_mode
      BY <1>1, <1>2, <2>6 DEF resumed, admin, InWait, ControlOK, PathOK, OnOwnStack
    <3>2. back[c] \notin {"yield", "kill", "death", "resumed"}
      BY <1>1 DEF ReturnLabels, OwnReturns, OwnLabels
    <3> QED BY <1>1, <3>1, <3>2 DEF InWait, LeavesWaits
  <2> QED BY <2>1, <2>2, <2>3, <2>4, <2>5, <2>6
<1>5. \A w \in Tids : ~ YieldingTo(w)
  BY <1>1 DEF YieldingTo
<1> QED BY <1>1, <1>2, <1>3, <1>4, <1>5, QuietStep DEF ControlOK, OwnStep

(* The process ends: nothing changes but its status.                       *)
LEMMA StopKeepsWaits ==
  ASSUME JoinInv, UNCHANGED <<table, current_thread, admin, pc, locals, history>>
  PROVE  JoinInv'
  BY DEF table, admin, locals, history, JoinInv, WaitOK, WaiterStillWaits, WaitsOn, LeavesWaits,
         InWait, Alive, YieldingTo

LEMMA SwitchKeepsWaits ==
  ASSUME TypeOK, ControlOK, JoinInv, ~ overflowed, ~ overflowed', yield_any \/ yield_to
  PROVE  JoinInv'
<1> USE DEF At
<1>1. CASE yield_any
  <2>1. PICK i \in 1 .. Len(thread_queue) :
          /\ Picks(i)
          /\ SwitchTo(thread_queue[i], SubSeq(thread_queue, i + 1, Len(thread_queue)))
    BY <1>1 DEF yield_any
  <2>2. thread_queue[i] \in Tids \ {current_thread} /\ state[thread_queue[i]] = "Running"
    <3>1. thread_queue[i] \in Tids
      BY DEF TypeOK
    <3> QED BY <2>1, <3>1 DEF Picks, Runnable
  <2>3. \A w \in Tids : ~ YieldingTo(w)
    BY <1>1 DEF yield_any, YieldingTo, THREAD_ANY, Tids
  <2> QED BY <1>1, <2>1, <2>2, <2>3, SwitchWaits DEF yield_any, Alive
<1>2. CASE yield_to
  <2> DEFINE t == want[current_thread]
  <2>1. /\ pc[current_thread] = "yield" /\ t \in Tids \ {current_thread} /\ Alive(t)
        /\ SwitchTo(t, thread_queue)
    BY <1>2 DEF yield_to, Available, Alive
  <2>2. state[t] # "Sleep"
    BY <2>1 DEF JoinInv, WaitOK, LeavesWaits
  <2>3. \A w \in Tids \ {current_thread} : YieldingTo(w) => w = t
    BY DEF YieldingTo
  <2> QED BY <2>1, <2>2, <2>3, SwitchWaits
<1> QED BY <1>1, <1>2

LEMMA StepJoin ==
  ASSUME TidyProgram, TypeOK, ControlOK, NoLostThread, JoinInv, [Next]_schedVars
  PROVE  JoinInv'
<1>1. CASE overflowed'
  BY <1>1 DEF JoinInv, WaitOK, WaiterStillWaits
<1>2. CASE ~ overflowed'
  <2>1. ~ overflowed
    BY <1>2, OnceOverflowed DEF TypeOK
  <2>2. CASE thread_create
    BY <1>2, <2>1, <2>2, CreateWaits, CallKeepsWaits DEF thread_create
  <2>3. CASE thread_wait
    BY <2>1, <2>3, BeginWait, CallKeepsWaits DEF thread_wait
  <2>4. CASE Yielding
    BY <1>2, <2>1, <2>4, SwitchKeepsWaits, YieldKeepsWaits DEF Yielding
  <2>5. CASE resumed \/ waited
    <3>1. CASE InWait(current_thread)
      BY <2>1, <2>5, <3>1, EndWait
    <3>2. CASE ~ InWait(current_thread)
      <4>1. ~ waited
        BY <3>2 DEF waited, At, InWait, ControlOK, PathOK, OnOwnStack, LiveReturns
      <4> QED BY <2>1, <2>5, <3>2, <4>1, LibraryKeepsWaits
    <3> QED BY <3>1, <3>2
  <2>6. CASE handle_death
    BY <2>1, <2>6, DeathWaits
  <2>7. CASE \/ Return \/ sigreturn \/ thread_stub \/ admin_mode \/ admin_next
             \/ thread_kill \/ kill_invalid \/ killed \/ exit_next
    BY <2>1, <2>7, LibraryKeepsWaits
  <2>8. CASE Mask \/ yield_call \/ kill_call \/ thread_exit \/ exit_main \/ interrupt_handler
    BY <2>1, <2>8, CallKeepsWaits
  <2>9. CASE admin_none \/ assert_waiter \/ exit_none \/ create_no_memory \/ assert_interrupts
    BY <2>9, StopKeepsWaits DEF admin_none, assert_waiter, exit_none, create_no_memory, assert_interrupts, Stop
  <2>10. CASE Ended \/ UNCHANGED schedVars
    BY <2>10, StopKeepsWaits DEF Ended, schedVars, table, admin, locals, history
  <2> QED
    BY <2>2, <2>3, <2>4, <2>5, <2>6, <2>7, <2>8, <2>9, <2>10 DEF Next, Library, User
<1> QED BY <1>1, <1>2

LEMMA InitJoin == Init => JoinInv
<1> SUFFICES ASSUME Init PROVE JoinInv
  OBVIOUS
<1>1. \A w \in Tids : ~ InWait(w)
  BY DEF Init, InWait
<1>2. current_thread \in Tids /\ pc[current_thread] = "user" /\ ~ administrative_mode
  BY SchedulerAssumption DEF Init, Tids
<1>3. \A w \in Tids : state[w] # "Sleep" /\ waiter[w] = -1
  BY DEF Init
<1>4. refused = {}
  BY DEF Init
<1> QED BY <1>1, <1>2, <1>3, <1>4 DEF JoinInv, WaitOK, WaiterStillWaits, LeavesWaits

(* At every moment of a tidy program, as long as the ready queue has never *)
(* been full, a thread in thread_wait sleeps until its target dies and is  *)
(* then the next to run (thread_wait, handle_death and thread_yield).      *)
THEOREM WaitsAreKept == ASSUME TidyProgram PROVE Spec => []WaitOK
<1>1. TypeOK /\ ControlOK /\ NoLostThread /\ JoinInv /\ [Next]_schedVars => JoinInv'
  BY StepJoin
<1>2. JoinInv => WaitOK
  BY DEF JoinInv
<1> QED BY <1>1, <1>2, InitJoin, TypeCorrect, ControlPassesSafely, NobodyIsLost, PTL DEF Spec

(* The waiter field of a live thread never names a thread that has stopped *)
(* waiting, although thread_wait and handle_death leave it set.            *)
THEOREM WaitersAreCurrent == ASSUME TidyProgram PROVE Spec => []WaiterStillWaits
<1>1. TypeOK /\ ControlOK /\ NoLostThread /\ JoinInv /\ [Next]_schedVars => JoinInv'
  BY StepJoin
<1>2. JoinInv => WaiterStillWaits
  BY DEF JoinInv
<1> QED BY <1>1, <1>2, InitJoin, TypeCorrect, ControlPassesSafely, NobodyIsLost, PTL DEF Spec

LEMMA DeathIsSeen == TypeOK /\ ControlOK /\ WaitOK => WaitSeesDeath
<1> SUFFICES ASSUME TypeOK, ControlOK, WaitOK, At("waited"), ~ overflowed
             PROVE  ~ Alive(tid[current_thread])
  BY DEF WaitSeesDeath, Alive
<1>1. current_thread \in Tids /\ InWait(current_thread)
  BY DEF TypeOK, At, ControlOK, PathOK, OnOwnStack, LiveReturns, InWait
<1>2. WaitsOn(current_thread, tid[current_thread])
  BY <1>1 DEF WaitOK
<1> QED BY <1>2 DEF WaitsOn, At

(* thread_wait goes on to read the exit code only after its target has     *)
(* died: no thread_yield brings it back earlier.                           *)
THEOREM WaitEndsWithDeath == ASSUME TidyProgram PROVE Spec => []WaitSeesDeath
  BY WaitsAreKept, DeathIsSeen, TypeCorrect, ControlPassesSafely, PTL

------------------------------------------------------------------------------
(* The assertions.                                                         *)
NothingFails == masked = {} /\ NoAbort

LEMMA KeepsStatus ==
  ASSUME NothingFails, UNCHANGED <<status, masked>>, overflowed => overflowed' PROVE NothingFails'
  BY DEF NothingFails, NoAbort

LEMMA StepFails ==
  ASSUME TidyProgram, TypeOK, ControlOK, MaskOK, JoinInv, NothingFails, [Next]_schedVars
  PROVE  NothingFails'
<1> USE DEF history
<1>1. overflowed => overflowed'
  BY OnceOverflowed DEF TypeOK
<1>2. ASSUME NEW t, NEW q, SwitchTo(t, q) PROVE NothingFails'
  BY <1>1, <1>2, KeepsStatus DEF SwitchTo
<1>3. CASE Yielding
  BY <1>1, <1>2, <1>3, KeepsStatus
     DEF Yielding, yield_self, yield_any, yield_none, yield_to, yield_invalid, YieldReturns
<1>4. CASE thread_create
  <2>1. status' = status /\ masked' = {}
    BY <1>4 DEF thread_create, create_no_more, create_thread, NothingFails
  <2> QED BY <1>1, <2>1, KeepsStatus DEF NothingFails
<1>5. CASE thread_wait
  BY <1>1, <1>5, KeepsStatus DEF thread_wait, wait_invalid, wait_exited, wait_sleep
<1>6. CASE Return \/ sigreturn \/ thread_stub \/ resumed \/ admin_mode \/ admin_next
  BY <1>1, <1>6, KeepsStatus DEF Return, sigreturn, thread_stub, resumed, admin_mode, admin_next
<1>7. CASE thread_kill \/ kill_invalid \/ killed \/ handle_death \/ exit_next \/ waited
  BY <1>1, <1>7, KeepsStatus DEF thread_kill, kill_invalid, killed, handle_death, exit_next, waited
<1>8. CASE yield_call \/ kill_call \/ thread_exit \/ exit_main \/ interrupt_handler
  BY <1>1, <1>8, KeepsStatus DEF yield_call, kill_call, thread_exit, exit_main, interrupt_handler
<1>9. ASSUME NEW how, Stop(how), how # "aborted" PROVE NothingFails'
  BY <1>9 DEF Stop, NothingFails, NoAbort
<1>10. CASE exit_none \/ create_no_memory
  BY <1>9, <1>10 DEF exit_none, create_no_memory
<1>11. CASE admin_none
  <2>1. ret[current_thread] = THREAD_NONE
    BY <1>11 DEF admin_none, At, ControlOK, PathOK
  <2> QED BY <1>9, <1>11, <2>1 DEF admin_none
<1>12. CASE Mask
  BY <1>12, TidyCalls DEF Mask
<1>13. CASE assert_interrupts
  <2>1. intr
    BY <1>13 DEF assert_interrupts, At, MaskOK, MaskOfProcessor, NothingFails
  <2> QED BY <1>13, <2>1 DEF assert_interrupts
<1>14. CASE assert_waiter
  <2>1. CASE overflowed
    BY <1>14, <2>1 DEF assert_waiter, Stop, NothingFails, NoAbort
  <2>2. CASE ~ overflowed
    <3> DEFINE d == tid[current_thread]
               w == waiter[d]
    <3>1. At("death") /\ w # -1 /\ state[w] = "Running"
      BY <1>14 DEF assert_waiter
    <3>2. d \in Tids /\ w \in Tids
      BY <3>1 DEF At, ControlOK, DispatchOK, TypeOK
    <3>3. InWait(w) /\ Alive(tid[w])
      BY <2>2, <3>1, <3>2, DyingAwaits
    <3>4. WaitsOn(w, tid[w])
      BY <2>2, <3>2, <3>3 DEF JoinInv, WaitOK
    <3> QED BY <3>1, <3>3, <3>4 DEF WaitsOn
  <2> QED BY <2>1, <2>2
<1>15. CASE Ended \/ UNCHANGED schedVars
  BY <1>1, <1>15, KeepsStatus DEF Ended, schedVars
<1> QED
  BY <1>3, <1>4, <1>5, <1>6, <1>7, <1>8, <1>10, <1>11, <1>12, <1>13, <1>14, <1>15 DEF Next, Library, User

(* No assertion of thread.c fails in a tidy program: the waiter of a dying *)
(* thread is still asleep (372), calls are made with the signal unblocked  *)
(* (225, 385, 514), and an exit that finds nobody sees THREAD_NONE (294).  *)
THEOREM NoAssertionFails == ASSUME TidyProgram PROVE Spec => []NoAbort
<1>1. Init => NothingFails
  BY DEF Init, NothingFails, NoAbort
<1>2. TypeOK /\ ControlOK /\ NoLostThread /\ JoinInv /\ [Next]_schedVars => JoinInv'
  BY StepJoin
<1>3. TypeOK /\ ControlOK /\ MaskOK /\ JoinInv /\ NothingFails /\ [Next]_schedVars => NothingFails'
  BY StepFails
<1>4. NothingFails => NoAbort
  BY DEF NothingFails
<1> QED
  BY <1>1, <1>2, <1>3, <1>4, InitJoin, InitMask, StepMask, TypeCorrect, ControlPassesSafely,
     NobodyIsLost, PTL DEF Spec

------------------------------------------------------------------------------
(* A thread that is not exiting has the code -9 of one that is killed.     *)
Exiting(t) ==
  t = current_thread /\ (administrative_mode \/ (pc[t] = "death" /\ back[t] = "admin"))
LiveCodes == \A t \in Tids \ {0} : Alive(t) /\ ~ Exiting(t) => exit_code[t] = KILLED

(* A step that begins no life and ends no exit but with the death.         *)
LEMMA CodesKept ==
  ASSUME LiveCodes,
         \A t \in Tids : /\ Alive(t)' => Alive(t) /\ exit_code'[t] = exit_code[t]
                         /\ Exiting(t) => Exiting(t)' \/ ~ Alive(t)'
  PROVE  LiveCodes'
  BY DEF LiveCodes

(* Other than an exit and its last steps.                                  *)
LEMMA NobodyExits ==
  ASSUME TypeOK, ControlOK, LiveCodes, ~ administrative_mode, pc[current_thread] # "death",
         UNCHANGED <<state, exit_code>>
  PROVE  LiveCodes'
<1>1. \A t \in Tids : ~ Exiting(t)
  BY DEF Exiting
<1>2. \A t \in Tids : (Alive(t)' <=> Alive(t)) /\ exit_code'[t] = exit_code[t]
  BY DEF Alive
<1> QED BY <1>1, <1>2, CodesKept

LEMMA StepCodes ==
  ASSUME TypeOK, ControlOK, LiveCodes, [Next]_schedVars PROVE LiveCodes'
<1> DEFINE c == current_thread
<1> USE DEF At, Goto
<1>1. c \in Tids /\ pc \in [Tids -> Labels] /\ exit_code \in [Tids -> Int]
  BY DEF TypeOK
<1>2. administrative_mode =>
        /\ pc[c] = "resumed" \/ (pc[c] = "kill" /\ tid[c] = c /\ back[c] = "admin")
        /\ Alive(c) /\ c # 0
  BY DEF ControlOK, AdminOK
<1>3. CASE Yielding \/ exit_next \/ admin_next
  <2>1. ASSUME NEW t, NEW q, SwitchTo(t, q) PROVE UNCHANGED <<state, exit_code>>
    BY <2>1 DEF SwitchTo, table
  <2>2. UNCHANGED <<state, exit_code>>
    BY <1>3, <2>1 DEF Yielding, yield_self, yield_any, yield_none, yield_to, yield_invalid,
                      YieldReturns, exit_next, admin_next, table
  <2>3. pc[c] \in {"yield", "exit", "admin"}
    BY <1>3 DEF Yielding, yield_self, yield_any, yield_none, yield_to, yield_invalid, exit_next, admin_next
  <2> QED BY <1>2, <2>2, <2>3, NobodyExits
<1>4. CASE \/ Return \/ sigreturn \/ thread_stub \/ resumed \/ killed \/ waited
           \/ Mask \/ yield_call \/ kill_call \/ interrupt_handler \/ thread_wait
           \/ At("user") /\ create_no_more
  <2>1. \/ UNCHANGED <<state, exit_code>>
        \/ /\ UNCHANGED exit_code /\ At("user") /\ state' = [state EXCEPT ![c] = "Sleep"]
    BY <1>4 DEF Return, sigreturn, thread_stub, resumed, killed, waited, Mask, yield_call, kill_call,
                interrupt_handler, thread_wait, wait_invalid, wait_exited, wait_sleep, wait_call,
                create_no_more, table
  <2>2. pc[c] # "kill" /\ pc[c] # "death" /\ ~ administrative_mode
    <3>1. pc[c] \in {"return", "handler", "stub", "resumed", "killed", "waited", "user"}
      BY <1>4 DEF Return, sigreturn, thread_stub, resumed, killed, waited, Mask, yield_call, kill_call,
                  interrupt_handler, thread_wait, wait_invalid, wait_exited, wait_sleep, wait_call
    <3>2. pc[c] = "resumed" => ~ administrative_mode
      BY <1>4 DEF Return, sigreturn, thread_stub, resumed, killed, waited, Mask, yield_call, kill_call,
                  interrupt_handler, thread_wait, wait_invalid, wait_exited, wait_sleep, wait_call
    <3> QED BY <1>2, <3>1, <3>2
  <2>3. CASE At("user") /\ state' = [state EXCEPT ![c] = "Sleep"] /\ UNCHANGED exit_code
    <3>1. Alive(c) /\ state \in [Tids -> {"Destroyed", "Running", "Sleep"}]
      BY <2>3 DEF ControlOK, PathOK, OnOwnStack, TypeOK
    <3>2. \A t \in Tids : Alive(t)' => Alive(t)
      BY <1>1, <2>3, <3>1 DEF Alive
    <3>3. \A t \in Tids : ~ Exiting(t)
      BY <2>2 DEF Exiting
    <3> QED BY <2>3, <3>2, <3>3, CodesKept
  <2> QED BY <2>1, <2>2, <2>3, NobodyExits
<1>5. CASE thread_create /\ ~ create_no_more
  <2>1. PICK t \in Tids : create_thread(t) /\ t # 0
    BY <1>5 DEF thread_create, create_thread
  <2>2. pc[c] = "user" /\ ~ administrative_mode
    BY <1>2, <1>5 DEF thread_create
  <2>3. exit_code'[t] = KILLED /\ \A u \in Tids \ {t} : exit_code'[u] = exit_code[u] /\ (Alive(u)' <=> Alive(u))
    BY <1>1, <2>1 DEF create_thread, NewEntry, TypeOK, Alive
  <2>4. \A u \in Tids : ~ Exiting(u)
    BY <2>2 DEF Exiting
  <2> QED BY <2>3, <2>4 DEF LiveCodes
<1>6. CASE thread_exit
  <2>1. /\ \A u \in Tids : Exiting(u)' <=> u = c
        /\ \A u \in Tids \ {c} : ~ Exiting(u)
    BY <1>6 DEF thread_exit, Exiting
  <2>2. \A u \in Tids \ {c} : exit_code'[u] = exit_code[u] /\ (Alive(u)' <=> Alive(u))
    BY <1>1, <1>6 DEF thread_exit, Alive
  <2> QED BY <2>1, <2>2 DEF LiveCodes
<1>7. CASE exit_main
  <2>1. \A u \in Tids \ {0} : ~ Exiting(u)
    BY <1>7 DEF exit_main, Exiting
  <2>2. \A u \in Tids \ {0} : exit_code'[u] = exit_code[u] /\ (Alive(u)' <=> Alive(u))
    BY <1>1, <1>7 DEF exit_main, Alive
  <2> QED BY <2>1, <2>2 DEF LiveCodes
<1>8. CASE admin_mode \/ thread_kill
  <2>1. UNCHANGED <<state, exit_code, current_thread>>
    BY <1>8 DEF admin_mode, thread_kill, table
  <2>2. \A t \in Tids : Exiting(t) => t = c /\ administrative_mode
    BY <1>8 DEF Exiting, admin_mode, thread_kill
  <2>3. administrative_mode => Exiting(c)'
    <3>1. CASE admin_mode
      BY <3>1 DEF admin_mode, Exiting, admin
    <3>2. CASE thread_kill
      <4>1. pc'[c] = "death" /\ back' = back
        BY <1>1, <3>2 DEF thread_kill, locals
      <4>2. administrative_mode => back[c] = "admin"
        BY <1>2, <3>2 DEF thread_kill
      <4> QED BY <2>1, <4>1, <4>2 DEF Exiting
    <3> QED BY <1>8, <3>1, <3>2
  <2> QED BY <2>1, <2>2, <2>3, CodesKept DEF Alive
<1>9. CASE kill_invalid
  <2>1. ~ administrative_mode
    BY <1>1, <1>2, <1>9 DEF kill_invalid, MayDie, Available, Alive
  <2> QED BY <1>9, <2>1, NobodyExits DEF kill_invalid, table
<1>10. CASE handle_death
  <2>1. tid[c] \in Tids /\ UNCHANGED exit_code /\ state \in [Tids -> {"Destroyed", "Running", "Sleep"}]
    BY <1>10 DEF handle_death, ControlOK, DispatchOK, TypeOK
  <2>2. \A t \in Tids : Exiting(t) => t = c /\ tid[c] = c
    BY <1>2, <1>10 DEF handle_death, Exiting, ControlOK, PathOK
  <2>3. \/ state' = [state EXCEPT ![tid[c]] = "Destroyed"]
        \/ /\ Alive(waiter[tid[c]]) /\ waiter[tid[c]] # tid[c]
           /\ state' = [state EXCEPT ![tid[c]] = "Destroyed", ![waiter[tid[c]]] = "Running"]
    BY <1>10, <2>1 DEF handle_death, Wakes, Alive, ControlOK, WaiterOK
  <2>4. \A t \in Tids : Alive(t)' => Alive(t) /\ t # tid[c]
    BY <2>1, <2>3 DEF Alive
  <2> QED BY <2>1, <2>2, <2>4, CodesKept
<1>11. ASSUME UNCHANGED schedVars PROVE LiveCodes'
  BY <1>11, CodesKept DEF schedVars, Exiting, Alive
<1>12. CASE \/ admin_none \/ assert_waiter \/ exit_none \/ create_no_memory \/ assert_interrupts
  <2>1. UNCHANGED <<state, exit_code, current_thread, administrative_mode, pc, back>>
    BY <1>12 DEF admin_none, assert_waiter, exit_none, create_no_memory, assert_interrupts, Stop,
                 table, admin, locals
  <2> QED BY <2>1, CodesKept DEF Exiting, Alive
<1> QED
  BY <1>3, <1>4, <1>5, <1>6, <1>7, <1>8, <1>9, <1>10, <1>11, <1>12
     DEF Next, Library, User, Ended, thread_create

LEMMA CodesOfTheLiving == Spec => []LiveCodes
<1>1. Init => LiveCodes
  BY DEF Init, LiveCodes, Alive
<1> QED
  BY <1>1, StepCodes, TypeCorrect, ControlPassesSafely, PTL DEF Spec

------------------------------------------------------------------------------
(* The refinement of Join: its state, and what the actions of Join come to *)
(* under the mapping.                                                      *)
alive == {t \in Tids : Alive(t)}
code == [t \in Tids |-> IF Alive(t) THEN 0 ELSE exit_code[t]]
target == [w \in Tids |-> IF InWait(w) THEN tid[w] ELSE -1]

LEMMA JoinStutter ==
  ASSUME alive' = alive, kept' = kept, code' = code, target' = target
  PROVE  UNCHANGED J!joinVars
  BY DEF J!joinVars, alive, code, target

LEMMA JoinStart ==
  ASSUME NEW t \in Tids, t \notin alive, \A w \in Tids : target[w] # t,
         alive' = alive \cup {t}, kept' = kept \ {t},
         code' = [code EXCEPT ![t] = 0], target' = target
  PROVE  J!Next \/ J!Departs
<1>1. J!Start(t) \/ J!Reuse(t)
  BY DEF J!Start, J!Reuse, J!Begin, J!Awaited, J!Unset, alive, code, target
<1> QED BY <1>1 DEF J!Next, J!Departs

LEMMA JoinExit ==
  ASSUME NEW t \in Tids, t \in alive, target[t] = -1,
         alive' = alive \ {t}, code' \in [Tids -> Int],
         \A u \in Tids \ {t} : code'[u] = code[u], target' = target,
         kept' = IF \E w \in Tids : target[w] = t THEN kept ELSE kept \cup {t}
  PROVE  J!Next
<1>1. J!Exit(t)
  BY DEF J!Exit, J!End, J!Awaited, alive, code, target
<1> QED BY <1>1 DEF J!Next

LEMMA JoinKill ==
  ASSUME NEW t \in Tids, t \in alive, target[t] = -1,
         alive' = alive \ {t}, code' \in [Tids -> Int],
         \A u \in Tids \ {t} : code'[u] = code[u], target' = target,
         t # 0 => code'[t] = KILLED, kept' = kept
  PROVE  J!Next
<1>1. J!Kill(t)
  BY DEF J!Kill, J!End, J!KILLED, KILLED, alive, code, target
<1> QED BY <1>1 DEF J!Next

LEMMA JoinWait ==
  ASSUME NEW w \in Tids, NEW t \in Tids, w \in alive, w # t, target[w] = -1,
         t \in alive => \A u \in Tids : target[u] # t,
         t \notin alive => code[t] # KILLED,
         alive' = alive, kept' = kept \ {t}, code' = code,
         target' = [target EXCEPT ![w] = t]
  PROVE  J!Next \/ J!Departs
<1>1. J!Await(w, t)
  BY DEF J!Await, alive, code, target
<1>2. J!Wait(w, t) \/ J!WaitAgain(w, t)
  BY <1>1 DEF J!Wait, J!WaitAgain, J!Awaited, J!KILLED, KILLED, alive, code, target
<1> QED BY <1>2 DEF J!Next, J!Departs

LEMMA JoinReturn ==
  ASSUME NEW w \in Tids, target[w] # -1, target[w] \notin alive,
         alive' = alive, kept' = kept, code' = code, target' = [target EXCEPT ![w] = -1]
  PROVE  J!Next
<1>1. J!Return(w)
  BY DEF J!Return, alive, code, target
<1> QED BY <1>1 DEF J!Next

LEMMA InitImplements == KeptInit => J!Init
<1> SUFFICES ASSUME KeptInit PROVE J!Init
  OBVIOUS
<1>1. alive = {0}
  BY SchedulerAssumption DEF KeptInit, Init, alive, Alive, Tids
<1>2. code = [t \in Tids |-> IF t = 0 THEN 0 ELSE KILLED]
  BY DEF KeptInit, Init, code, Alive
<1>3. target = [w \in Tids |-> -1]
  BY DEF KeptInit, Init, target, InWait
<1>4. kept = {}
  BY DEF KeptInit
<1> QED
  BY <1>1, <1>2, <1>3, <1>4 DEF J!Init, J!Unset, J!KILLED, KILLED, alive, code, target

(* Where nobody starts, exits or begins to wait, the same are kept.        *)
LEMMA SameKept ==
  ASSUME Keep, \A t \in Tids : Alive(t)' <=> Alive(t), \A w \in Tids : InWait(w)' => InWait(w)
  PROVE  kept' = kept
<1>1. \A t \in Tids : ~ ExitsNow(t) /\ ~ StartsNow(t) /\ ~ WaitsNow(t)
  BY DEF ExitsNow, StartsNow, WaitsNow
<1> QED BY <1>1 DEF Keep

(* A step that leaves the table and the waits alone stutters.              *)
LEMMA QuietStutters ==
  ASSUME Keep, UNCHANGED state,
         \A t \in Tids : ~ Alive(t) => exit_code'[t] = exit_code[t],
         \A w \in Tids : InWait(w)' <=> InWait(w),
         \A w \in Tids : InWait(w) => tid'[w] = tid[w]
  PROVE  UNCHANGED J!joinVars
<1>1. alive' = alive
  BY DEF alive, Alive
<1>2. code' = code
  BY DEF code, Alive
<1>3. target' = target
  BY DEF target
<1>4. \A t \in Tids : Alive(t)' <=> Alive(t)
  BY DEF Alive
<1>5. kept' = kept
  BY <1>4, SameKept
<1> QED BY <1>1, <1>2, <1>3, <1>5, JoinStutter

LEMMA OwnStepStutters ==
  ASSUME Keep, OwnStep, \A t \in Tids : ~ Alive(t) => exit_code'[t] = exit_code[t]
  PROVE  UNCHANGED J!joinVars
<1>1. \A w \in Tids : InWait(w)' <=> InWait(w)
  BY DEF OwnStep, InWait, Alive
<1>2. \A w \in Tids : InWait(w) => tid'[w] = tid[w]
  BY DEF OwnStep
<1>3. UNCHANGED state
  BY DEF OwnStep
<1> QED BY <1>1, <1>2, <1>3, QuietStutters

(* A thread is created under an identifier that nobody waits for.          *)
LEMMA CreateImplements ==
  ASSUME TypeOK, ControlOK, JoinInv, ~ overflowed, At("user"), NEW t \in Tids, create_thread(t), Keep
  PROVE  J!Next \/ J!Departs
<1> DEFINE c == current_thread
<1> USE DEF At
<1>1. /\ c \in Tids /\ ~ Alive(t) /\ Alive(c) /\ c # t /\ pc[c] = "user"
      /\ pc' = [pc EXCEPT ![t] = "stub", ![c] = "return"]
      /\ tid' = [tid EXCEPT ![t] = -1] /\ back' = [back EXCEPT ![t] = "return"]
      /\ state' = [state EXCEPT ![t] = "Running"] /\ UNCHANGED current_thread
  BY DEF create_thread, NewEntry, TypeOK, Alive, ControlOK, PathOK, OnOwnStack
<1>2. TypeOK
  OBVIOUS
<1>3. \A w \in Tids : Alive(w)' <=> Alive(w) \/ w = t
  BY <1>1 DEF Alive, TypeOK
<1>4. \A w \in Tids : InWait(w)' <=> InWait(w)
  <2>1. ~ InWait(c) /\ ~ InWait(t)
    BY <1>1 DEF InWait
  <2>2. pc'[c] = "return" /\ pc'[t] = "stub"
    BY <1>1 DEF TypeOK
  <2>3. ~ InWait(c)' /\ ~ InWait(t)'
    BY <1>1, <2>2 DEF InWait
  <2>4. ASSUME NEW w \in Tids \ {c, t} PROVE InWait(w)' <=> InWait(w)
    BY <1>1, <1>3 DEF InWait, TypeOK
  <2> QED BY <1>1, <2>1, <2>3, <2>4
<1>5. ASSUME NEW w \in Tids, InWait(w) PROVE Alive(tid[w]) /\ tid'[w] = tid[w]
  <2>1. WaitsOn(w, tid[w]) /\ w # t /\ ~ YieldingTo(w) /\ w # c
    BY <1>1, <1>5 DEF JoinInv, WaitOK, InWait, YieldingTo
  <2> QED BY <1>1, <2>1 DEF WaitsOn, TypeOK
<1>6. t \notin alive /\ alive' = alive \cup {t}
  BY <1>1, <1>3 DEF alive
<1>7. \A w \in Tids : target[w] # t
  BY <1>1, <1>5 DEF target, Tids
<1>8. code' = [code EXCEPT ![t] = 0]
  <2>1. \A u \in Tids \ {t} : exit_code'[u] = exit_code[u]
    BY DEF create_thread, NewEntry, TypeOK
  <2> QED BY <1>3, <2>1 DEF code
<1>9. target' = target
  BY <1>4, <1>5 DEF target
<1>10. kept' = kept \ {t}
  <2>1. \A u \in Tids : ~ ExitsNow(u) /\ ~ WaitsNow(u) /\ (StartsNow(u) <=> u = t)
    BY <1>1, <1>3, <1>4 DEF ExitsNow, WaitsNow, StartsNow
  <2> QED BY <2>1 DEF Keep
<1> QED BY <1>6, <1>7, <1>8, <1>9, <1>10, JoinStart

(* A thread dies that is not waiting itself.                               *)
LEMMA DeathImplements ==
  ASSUME TypeOK, ControlOK, JoinInv, LiveCodes, ~ overflowed, handle_death, Keep
  PROVE  J!Next
<1> DEFINE c == current_thread
           d == tid[c]
<1>1. c \in Tids /\ d \in Tids /\ Alive(d) /\ ~ InWait(c) /\ ~ InWait(d)
  BY DyingAwaits DEF handle_death, TypeOK
<1>2. /\ pc[c] = "death" /\ back[c] \in {"killed", "admin", "exit"}
      /\ UNCHANGED <<current_thread, tid, back, exit_code, waiter>>
      /\ pc \in [Tids -> Labels] /\ exit_code \in [Tids -> Int]
      /\ pc' = [pc EXCEPT ![c] = "yield"] \/ pc' = [pc EXCEPT ![c] = back[c]]
  BY DEF handle_death, At, ControlOK, PathOK, TypeOK, Goto
<1>3. \A u \in Tids : Alive(u)' <=> Alive(u) /\ u # d
  <2>1. state \in [Tids -> {"Destroyed", "Running", "Sleep"}]
    BY DEF TypeOK
  <2>2. \/ state' = [state EXCEPT ![d] = "Destroyed"]
        \/ /\ waiter[d] # d /\ Alive(waiter[d])
           /\ state' = [state EXCEPT ![d] = "Destroyed", ![waiter[d]] = "Running"]
    BY <1>1 DEF handle_death, Wakes, ControlOK, WaiterOK, Alive
  <2> QED BY <1>1, <2>1, <2>2 DEF Alive
<1>4. \A w \in Tids : InWait(w)' <=> InWait(w)
  <2>1. ~ InWait(c)'
    <3>1. pc'[c] \in {"yield", "killed", "admin", "exit"} /\ back'[c] \in {"killed", "admin", "exit"}
      BY <1>1, <1>2
    <3> QED BY <1>2, <3>1 DEF InWait
  <2>2. ASSUME NEW w \in Tids \ {c} PROVE InWait(w)' <=> InWait(w)
    BY <1>1, <1>2, <1>3 DEF InWait
  <2> QED BY <1>1, <1>2, <2>1, <2>2
<1>5. d \in alive /\ alive' = alive \ {d}
  BY <1>1, <1>3 DEF alive
<1>6. code' \in [Tids -> Int] /\ \A u \in Tids \ {d} : code'[u] = code[u]
  BY <1>2, <1>3 DEF code
<1>7. target[d] = -1 /\ target' = target
  BY <1>1, <1>2, <1>4 DEF target
<1>8. kept' = kept \cup {u \in {d} : ExitsNow(d) /\ ~ AwaitedNow(d)}
  <2>1. \A u \in Tids : /\ ~ WaitsNow(u) /\ ~ StartsNow(u)
                        /\ ExitsNow(u) => u = d
    BY <1>3, <1>4 DEF ExitsNow, WaitsNow, StartsNow
  <2> QED BY <1>1, <2>1 DEF Keep
<1>9. CASE back[c] = "killed"
  <2>1. kept' = kept
    BY <1>8, <1>9 DEF ExitsNow
  <2>2. d # c
    BY <1>2, <1>9 DEF ControlOK, PathOK
  <2>3. d # 0 => exit_code[d] = KILLED
    BY <1>1, <2>2 DEF LiveCodes, Exiting
  <2>4. d # 0 => code'[d] = KILLED
    BY <1>1, <1>2, <1>3, <2>3 DEF code
  <2> QED BY <1>1, <1>5, <1>6, <1>7, <2>1, <2>4, JoinKill
<1>10. CASE back[c] # "killed"
  <2>1. ExitsNow(d)
    BY <1>1, <1>2, <1>3, <1>10 DEF ExitsNow
  <2>2. AwaitedNow(d) <=> \E w \in Tids : target[w] = d
    BY <1>1 DEF AwaitedNow, target, Tids
  <2>3. kept' = IF \E w \in Tids : target[w] = d THEN kept ELSE kept \cup {d}
    BY <1>8, <2>1, <2>2
  <2> QED BY <1>1, <1>5, <1>6, <1>7, <2>3, JoinExit
<1> QED BY <1>9, <1>10

(* A thread begins to wait.                                                *)
LEMMA WaitImplements ==
  ASSUME TypeOK, ControlOK, JoinInv, ~ overflowed, NEW t, wait_sleep(t) \/ wait_exited(t), Keep
  PROVE  J!Next \/ J!Departs
<1> DEFINE c == current_thread
<1> USE DEF wait_call, At
<1>1. /\ c \in Tids /\ pc[c] = "user" /\ Alive(c) /\ t \in Tids /\ c # t /\ ~ InWait(c)
      /\ tid' = [tid EXCEPT ![c] = t] /\ tid \in [Tids -> Int]
      /\ UNCHANGED <<current_thread, exit_code>>
      /\ pc \in [Tids -> Labels] /\ back \in [Tids -> ReturnLabels]
  BY DEF wait_sleep, wait_exited, WaitRefused, TypeOK, ControlOK, PathOK, OnOwnStack, InWait, table
<1>2. /\ \A u \in Tids : Alive(u)' <=> Alive(u)
      /\ InWait(c)' /\ \A w \in Tids \ {c} : pc'[w] = pc[w] /\ back'[w] = back[w]
  <2>1. CASE wait_exited(t)
    BY <1>1, <2>1 DEF wait_exited, Enter, Goto, table, InWait, Alive
  <2>2. CASE wait_sleep(t)
    <3>1. /\ state' = [state EXCEPT ![c] = "Sleep"] /\ state \in [Tids -> {"Destroyed", "Running", "Sleep"}]
          /\ pc' = [pc EXCEPT ![c] = "yield"] /\ back' = [back EXCEPT ![c] = "waited"]
      BY <2>2 DEF wait_sleep, Enter, Goto, TypeOK
    <3> QED BY <1>1, <3>1 DEF InWait, Alive
  <2> QED BY <2>1, <2>2
<1>3. \A w \in Tids : InWait(w)' <=> InWait(w) \/ w = c
  <2>1. ASSUME NEW w \in Tids \ {c} PROVE InWait(w)' <=> InWait(w)
    BY <1>2 DEF InWait
  <2> QED BY <1>1, <1>2, <2>1
<1>4. c \in alive /\ target[c] = -1 /\ alive' = alive /\ code' = code
  BY <1>1, <1>2 DEF alive, code, target
<1>5. target' = [target EXCEPT ![c] = t]
  BY <1>1, <1>3 DEF target
<1>6. t \in alive => \A w \in Tids : target[w] # t
  <2> SUFFICES ASSUME Alive(t), NEW w \in Tids, InWait(w), tid[w] = t PROVE FALSE
    BY <1>1 DEF alive, target, Tids
  <2>1. waiter[t] = w
    BY DEF JoinInv, WaitOK, WaitsOn
  <2>2. waiter[t] = -1
    BY DEF wait_sleep, wait_exited, WaitRefused, Alive
  <2> QED BY <2>1, <2>2 DEF Tids
<1>7. t \notin alive => code[t] # KILLED
  <2>1. ~ Alive(t) => exit_code[t] # KILLED
    BY DEF wait_sleep, wait_exited, WaitRefused, Alive
  <2> QED BY <1>1, <2>1 DEF alive, code
<1>8. kept' = kept \ {t}
  <2>1. \A u \in Tids : ~ ExitsNow(u) /\ ~ StartsNow(u)
    BY <1>2 DEF ExitsNow, StartsNow
  <2>2. tid'[c] = t
    BY <1>1
  <2>3. \A u \in Tids : WaitsNow(u) <=> u = t
    BY <1>1, <1>3, <2>2 DEF WaitsNow
  <2> QED BY <1>1, <2>1, <2>3 DEF Keep
<1> QED BY <1>1, <1>4, <1>5, <1>6, <1>7, <1>8, JoinWait

(* A wait goes on, or ends with the code of a dead thread.                 *)
LEMMA EndImplements ==
  ASSUME TypeOK, ControlOK, JoinInv, ~ overflowed, InWait(current_thread), resumed \/ waited, Keep
  PROVE  J!Next \/ UNCHANGED J!joinVars
<1> DEFINE c == current_thread
<1> USE DEF At
<1>1. /\ c \in Tids /\ Alive(c) /\ pc \in [Tids -> Labels]
      /\ UNCHANGED <<state, exit_code, current_thread, tid, back>>
  BY DEF resumed, waited, TypeOK, InWait, table
<1>2. ~ Alive(tid[c]) /\ tid[c] \in Tids
  BY <1>1, EndWait DEF JoinInv, WaitOK, WaitsOn
<1>3. \A w \in Tids \ {c} : InWait(w)' <=> InWait(w)
  BY <1>1 DEF resumed, waited, Goto, InWait, Alive
<1>4. CASE resumed
  <2>1. pc'[c] = "waited"
    BY <1>1, <1>4 DEF resumed, Goto, InWait
  <2>2. InWait(c)'
    BY <1>1, <2>1 DEF InWait, Alive
  <2> QED BY <1>1, <1>3, <2>2, QuietStutters
<1>5. CASE waited
  <2>1. pc'[c] = "return"
    BY <1>1, <1>5 DEF waited, Goto
  <2>2. ~ InWait(c)'
    BY <1>1, <2>1 DEF InWait
  <2>3. target' = [target EXCEPT ![c] = -1]
    BY <1>1, <1>3, <2>2 DEF target
  <2>4. alive' = alive /\ code' = code
    BY <1>1 DEF alive, code, Alive
  <2>5. target[c] # -1 /\ target[c] \notin alive
    BY <1>1, <1>2 DEF target, alive, Tids
  <2>6. kept' = kept
    BY <1>1, <1>3, <2>2, SameKept DEF Alive
  <2> QED BY <1>1, <2>3, <2>4, <2>5, <2>6, JoinReturn
<1> QED BY <1>4, <1>5

(* Only an exit writes an exit code without creating the thread.           *)
LEMMA DeadKeepTheirCode ==
  ASSUME TypeOK, ControlOK, [Next]_schedVars, ~ thread_create, NEW t \in Tids, ~ Alive(t)
  PROVE  exit_code'[t] = exit_code[t]
<1> USE DEF table
<1>1. CASE Yielding
  <2>1. ASSUME NEW u, NEW q, SwitchTo(u, q) PROVE UNCHANGED exit_code
    BY <2>1 DEF SwitchTo
  <2> QED
    BY <1>1, <2>1 DEF Yielding, yield_self, yield_any, yield_none, yield_to, yield_invalid, YieldReturns
<1>2. CASE thread_exit \/ exit_main
  <2>1. Alive(current_thread) /\ exit_code \in [Tids -> Int]
    BY <1>2 DEF thread_exit, exit_main, At, ControlOK, PathOK, OnOwnStack, TypeOK
  <2>2. \E v : exit_code' = [exit_code EXCEPT ![current_thread] = v]
    BY <1>2 DEF thread_exit, exit_main
  <2> QED BY <2>1, <2>2
<1>3. CASE thread_wait
  BY <1>3 DEF thread_wait, wait_invalid, wait_exited, wait_sleep
<1>4. CASE Return \/ sigreturn \/ thread_stub \/ resumed \/ admin_mode \/ admin_next \/ admin_none
  BY <1>4 DEF Return, sigreturn, thread_stub, resumed, admin_mode, admin_next, admin_none, Stop
<1>5. CASE thread_kill \/ kill_invalid \/ killed \/ handle_death \/ assert_waiter \/ exit_next \/ exit_none \/ waited
  BY <1>5 DEF thread_kill, kill_invalid, killed, handle_death, assert_waiter, exit_next, exit_none, waited, Stop
<1>6. CASE Mask \/ create_no_memory \/ assert_interrupts \/ yield_call \/ kill_call
  BY <1>6 DEF Mask, create_no_memory, assert_interrupts, yield_call, kill_call, Stop
<1>7. CASE interrupt_handler \/ Ended \/ UNCHANGED schedVars
  BY <1>7 DEF interrupt_handler, Ended, schedVars
<1> QED
  BY <1>1, <1>2, <1>3, <1>4, <1>5, <1>6, <1>7 DEF Next, Library, User

LEMMA SwitchStutters ==
  ASSUME TypeOK, ControlOK, NEW t \in Tids, NEW q, pc[current_thread] = "yield", SwitchTo(t, q), Keep
  PROVE  UNCHANGED J!joinVars
<1>1. /\ UNCHANGED <<state, exit_code, tid, back>>
      /\ pc' = [pc EXCEPT ![current_thread] = "resumed"] /\ pc \in [Tids -> Labels]
      /\ current_thread \in Tids
  BY DEF SwitchTo, TypeOK, table
<1>2. \A w \in Tids : InWait(w)' <=> InWait(w)
  BY <1>1 DEF InWait, Alive
<1> QED BY <1>1, <1>2, QuietStutters

LEMMA StepImplements ==
  ASSUME TidyProgram, TypeOK, ControlOK, NoLostThread, JoinInv, LiveCodes, [Next]_schedVars, Keep
  PROVE  [J!Next \/ J!Departs \/ overflowed']_(J!joinVars)
<1> SUFFICES ASSUME ~ overflowed' PROVE J!Next \/ J!Departs \/ UNCHANGED J!joinVars
  OBVIOUS
<1>1. ~ overflowed
  BY OnceOverflowed DEF TypeOK
<1>2. ASSUME OwnStep, ~ thread_create PROVE UNCHANGED J!joinVars
  BY <1>2, DeadKeepTheirCode, OwnStepStutters
<1>3. CASE thread_create
  <2>1. CASE create_no_more
    <3>1. OwnStep
      BY <1>1, <1>3, <2>1, CallKeepsWaits DEF thread_create
    <3> QED BY <2>1, <3>1, OwnStepStutters DEF create_no_more, table
  <2>2. CASE \E t \in Tids : create_thread(t)
    BY <1>1, <1>3, <2>2, CreateImplements DEF thread_create
  <2> QED BY <1>3, <2>1, <2>2 DEF thread_create
<1> SUFFICES ASSUME ~ thread_create PROVE J!Next \/ J!Departs \/ UNCHANGED J!joinVars
  BY <1>3
<1>4. CASE thread_wait
  <2>1. PICK t \in Call("wait") : wait_invalid(t) \/ wait_exited(t) \/ wait_sleep(t)
    BY <1>4 DEF thread_wait
  <2> QED BY <1>1, <1>2, <2>1, CallKeepsWaits, WaitImplements
<1>5. CASE Yielding
  <2>1. CASE yield_any
    <3>1. PICK i \in 1 .. Len(thread_queue) :
            SwitchTo(thread_queue[i], SubSeq(thread_queue, i + 1, Len(thread_queue)))
      BY <2>1 DEF yield_any
    <3>2. thread_queue[i] \in Tids
      BY DEF TypeOK
    <3> QED BY <2>1, <3>1, <3>2, SwitchStutters DEF yield_any, At
  <2>2. CASE yield_to
    BY <2>2, SwitchStutters DEF yield_to, Available, At
  <2>3. CASE yield_self \/ yield_none \/ yield_invalid
    BY <1>1, <1>2, <2>3, YieldKeepsWaits
  <2> QED BY <1>5, <2>1, <2>2, <2>3 DEF Yielding
<1>6. CASE resumed \/ waited
  <2>1. CASE InWait(current_thread)
    BY <1>1, <1>6, <2>1, EndImplements
  <2>2. CASE ~ InWait(current_thread)
    <3>1. ~ waited
      BY <2>2 DEF waited, At, InWait, ControlOK, PathOK, OnOwnStack, LiveReturns
    <3> QED BY <1>1, <1>2, <1>6, <2>2, <3>1, LibraryKeepsWaits
  <2> QED BY <2>1, <2>2
<1>7. CASE handle_death
  BY <1>1, <1>7, DeathImplements
<1>8. CASE \/ Return \/ sigreturn \/ thread_stub \/ admin_mode \/ admin_next
           \/ thread_kill \/ kill_invalid \/ killed \/ exit_next
  BY <1>1, <1>2, <1>8, LibraryKeepsWaits
<1>9. CASE Mask \/ yield_call \/ kill_call \/ thread_exit \/ exit_main \/ interrupt_handler
  BY <1>1, <1>2, <1>9, CallKeepsWaits
<1>10. ASSUME UNCHANGED <<table, pc, locals>> PROVE UNCHANGED J!joinVars
  BY <1>10, QuietStutters DEF table, locals, InWait, Alive
<1>11. CASE admin_none \/ assert_waiter \/ exit_none \/ create_no_memory \/ assert_interrupts
  BY <1>10, <1>11 DEF admin_none, assert_waiter, exit_none, create_no_memory, assert_interrupts, Stop
<1>12. CASE Ended \/ UNCHANGED schedVars
  BY <1>10, <1>12 DEF Ended, schedVars, table, locals
<1> QED
  BY <1>4, <1>5, <1>6, <1>7, <1>8, <1>9, <1>11, <1>12 DEF Next, Library, User

(* thread_wait keeps the promise of thread.h:142-171 and of the tests,      *)
(* stated as Join: every step of a tidy program is one of Join, one of its  *)
(* two named departures, or changes nothing that Join sees, until the ready *)
(* queue has turned a thread away.                                          *)
THEOREM JoinIsImplemented == ASSUME TidyProgram PROVE KeptSpec => JoinImplements
<1>1. TypeOK /\ ControlOK /\ NoLostThread /\ JoinInv /\ [Next]_schedVars => JoinInv'
  BY StepJoin
<1>2. TypeOK /\ ControlOK /\ NoLostThread /\ JoinInv /\ LiveCodes /\ [KeptNext]_keptVars
        => [J!Next \/ J!Departs \/ overflowed']_(J!joinVars)
  <2>1. KeptNext => [Next]_schedVars /\ Keep
    BY DEF KeptNext
  <2>2. UNCHANGED keptVars => UNCHANGED J!joinVars
    BY JoinStutter DEF keptVars, schedVars, alive, code, target, Alive, InWait
  <2> QED BY <2>1, <2>2, StepImplements
<1>3. KeptInit => Init
  BY DEF KeptInit
<1>4. [KeptNext]_keptVars => [Next]_schedVars
  BY DEF KeptNext, keptVars
<1> QED
  BY <1>1, <1>2, <1>3, <1>4, InitImplements, InitJoin, CodesOfTheLiving, TypeCorrect,
     ControlPassesSafely, NobodyIsLost, PTL DEF Spec, KeptSpec, JoinImplements
=============================================================================
