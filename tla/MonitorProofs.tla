---------------------------- MODULE MonitorProofs ----------------------------
(***************************************************************************)
(* Proofs about Sync for programs that are orderly (OrderlyProgram): no    *)
(* assertion fails, the holder of a lock can give it up, and, as long as   *)
(* nobody ends, locks and condition variables implement Monitor.           *)
(*                                                                         *)
(* SleepOK, on top of the invariants of SyncProofs, is inductive: a wait   *)
(* queue holds exactly threads that sleep in it, each once, and a          *)
(* thread_sleep that finds nobody to switch to comes back before anybody   *)
(* else has touched its queue.                                             *)
(*                                                                         *)
(* The refinement needs CallsOK as well: the locals of a call agree with   *)
(* what it waits for, only the running thread is between the two halves of *)
(* cv_wait, and a thread_sleep returns THREAD_NONE only where all sleep.   *)
(***************************************************************************)
EXTENDS SyncProofs

LEMMA OrderlyCalls ==
  ASSUME OrderlyProgram
  PROVE  /\ Call("kill") = {} /\ Call("wait") = {} /\ Call("mask") = {}
         /\ \A t \in Call("yield") : t \notin Tids
         /\ \A c \in SyncCall("destroy") : c.object \notin Locks
<1>1. Call("kill") = {} /\ Call("wait") = {} /\ Call("mask") = {}
  BY DEF Call, OrderlyProgram
<1>2. \A t \in Call("yield") : t \notin Tids
  BY DEF Call, OrderlyProgram
<1>3. \A c \in SyncCall("destroy") : c.object \notin Locks
  BY DEF SyncCall, OrderlyProgram
<1> QED BY <1>1, <1>2, <1>3

(* What the labels of the running thread say; SleepOK in parts.            *)
Entries == \A o \in Objects : \A i, j \in 1 .. Len(wq[o]) :
             EntryOf(wq[o][i], o) /\ (wq[o][i] = wq[o][j] => i = j)
Sleepers == \A t \in Tids : /\ waiter[t] = -1
                            /\ state[t] = "Sleep" => back[t] = "slept"
                            /\ back[t] = "slept" /\ pc[t] = "resumed" => want[t] # THREAD_NONE
Comeback ==
  LET c == current_thread IN
  /\ state[c] = "Sleep" => pc[c] \in {"yield", "slept"}
  /\ pc[c] = "yield" => want[c] \notin Tids /\ (back[c] = "slept" => JustQueued(c))
  /\ pc[c] = "yield" /\ back[c] = "slept" => want[c] = THREAD_ANY
  /\ pc[c] = "slept" =>
       /\ back[c] = "slept"
       /\ IF ret[c] = THREAD_NONE THEN JustQueued(c) ELSE state[c] # "Sleep"
  /\ pc[c] \in {"kill", "death"} => back[c] # "killed"

LEMMA SleepParts == SleepOK <=> (~ overflowed => Entries /\ Sleepers /\ Comeback)
  BY DEF SleepOK, Entries, Sleepers, Comeback

LEMMA SleepPartsNext == Entries' /\ Sleepers' /\ Comeback' => SleepOK'
  BY DEF SleepOK, Entries, Sleepers, Comeback

(* A step of a thread that does not sleep, and that neither puts it to     *)
(* sleep nor wakes another.                                                *)
LEMMA KeepsSleep ==
  ASSUME SyncTypeOK, Entries, Sleepers,
         UNCHANGED <<state, waiter, wq, current_thread>>, state[current_thread] # "Sleep",
         \A t \in Tids \ {current_thread} :
           UNCHANGED <<pc[t], back[t], want[t], frame[t]>>,
         back'[current_thread] = "slept" /\ pc'[current_thread] = "resumed" =>
           want'[current_thread] # THREAD_NONE,
         pc'[current_thread] = "yield" =>
           want'[current_thread] \notin Tids /\ back'[current_thread] # "slept",
         pc'[current_thread] = "slept" =>
           back'[current_thread] = "slept" /\ ret'[current_thread] # THREAD_NONE,
         pc'[current_thread] \in {"kill", "death"} => back'[current_thread] # "killed"
  PROVE  SleepOK'
<1> DEFINE c == current_thread
<1>1. Entries'
  <2> SUFFICES ASSUME NEW o \in Objects, NEW i \in 1 .. Len(wq[o]), NEW j \in 1 .. Len(wq[o])
               PROVE  EntryOf(wq[o][i], o)' /\ (wq[o][i] = wq[o][j] => i = j)
    BY DEF Entries
  <2>1. wq[o][i] \in Tids
    BY DEF SyncTypeOK, ObjectsOK
  <2>2. EntryOf(wq[o][i], o) /\ (wq[o][i] = wq[o][j] => i = j)
    BY DEF Entries
  <2>3. wq[o][i] # c
    BY <2>2 DEF EntryOf
  <2> QED BY <2>1, <2>2, <2>3 DEF EntryOf
<1>2. Sleepers'
  BY DEF Sleepers
<1>3. Comeback'
  BY DEF Comeback
<1> QED BY <1>1, <1>2, <1>3, SleepPartsNext

(* The steps of Scheduler that the program's own calls begin.              *)
LEMMA CallKeepsSleep ==
  ASSUME OrderlyProgram, SyncTypeOK, ControlOK, SleepOK, ~ overflowed, UNCHANGED <<wq, frame>>,
         \/ Mask \/ yield_call \/ kill_call \/ thread_exit \/ exit_main \/ thread_wait
         \/ interrupt_handler \/ (At("user") /\ create_no_more)
  PROVE  SleepOK'
<1> DEFINE c == current_thread
<1> USE DEF At
<1>1. /\ c \in Tids /\ pc[c] = "user" /\ back[c] = "return" /\ pc \in [Tids -> Labels]
      /\ back \in [Tids -> OwnReturns \cup {"slept"}] /\ want \in [Tids -> Int]
  BY DEF Mask, yield_call, kill_call, thread_exit, exit_main, interrupt_handler, create_no_more,
         thread_wait, wait_call, wait_invalid, wait_exited, wait_sleep, ControlOK, PathOK, SyncTypeOK, TypeOK
<1>2. state[c] # "Sleep" /\ Entries /\ Sleepers
  BY <1>1, SleepParts DEF Comeback
<1>3. ~ Mask /\ ~ kill_call /\ ~ thread_wait
  BY OrderlyCalls DEF Mask, kill_call, thread_wait
<1>4. UNCHANGED <<state, waiter, current_thread>>
  BY <1>3 DEF yield_call, thread_exit, exit_main, interrupt_handler, create_no_more, table
<1>5. \A t \in Tids \ {c} : UNCHANGED <<pc[t], back[t], want[t], frame[t]>>
  BY <1>1, <1>3 DEF yield_call, thread_exit, exit_main, interrupt_handler, create_no_more, Enter, Goto
<1>6. \/ pc'[c] = "yield" /\ back'[c] \in {"return", "handler"} /\ want'[c] \notin Tids
      \/ pc'[c] = "death" /\ back'[c] = "exit"
      \/ pc'[c] \in {"return", "resumed"} /\ back'[c] = "return"
  <2>1. CASE yield_call
    <3>1. PICK t \in Call("yield") : want' = [want EXCEPT ![c] = t] /\ back' = [back EXCEPT ![c] = "return"]
      BY <2>1 DEF yield_call
    <3> QED BY <1>1, <2>1, <3>1, OrderlyCalls DEF yield_call, Enter, Goto
  <2>2. CASE thread_exit
    <3>1. pc[0] = "resumed"
      BY <2>2, SchedulerAssumption DEF thread_exit, ControlOK, DispatchOK, Tids
    <3> QED BY <1>1, <2>2, <3>1 DEF thread_exit, Enter, Goto
  <2>3. CASE interrupt_handler
    BY <1>1, <2>3 DEF interrupt_handler, Goto, THREAD_ANY, Tids
  <2>4. CASE exit_main \/ create_no_more
    BY <1>1, <2>4 DEF exit_main, create_no_more, Enter, Goto
  <2> QED BY <1>3, <2>1, <2>2, <2>3, <2>4
<1> QED BY <1>2, <1>4, <1>5, <1>6, KeepsSleep

(* The steps inside Scheduler that switch to no other thread.              *)
LEMMA LibraryKeepsSleep ==
  ASSUME SyncTypeOK, ControlOK, SleepOK, ~ overflowed, UNCHANGED <<wq, frame>>,
         \/ Return \/ sigreturn \/ thread_stub \/ admin_mode \/ admin_next
         \/ thread_kill \/ kill_invalid \/ killed \/ exit_next \/ resumed \/ waited
  PROVE  SleepOK'
<1> DEFINE c == current_thread
<1> USE DEF At, Goto, LeaveLocals, table
<1>1. /\ c \in Tids /\ pc \in [Tids -> Labels] /\ ret \in [Tids -> Int]
      /\ back \in [Tids -> OwnReturns \cup {"slept"}] /\ want \in [Tids -> Int]
      /\ pc[c] \notin {"yield", "slept"}
  BY DEF Return, sigreturn, thread_stub, admin_mode, admin_next, thread_kill, kill_invalid,
         killed, exit_next, resumed, waited, SyncTypeOK, TypeOK
<1>2. state[c] # "Sleep" /\ Entries /\ Sleepers
  BY <1>1, SleepParts DEF Comeback
<1>3. UNCHANGED <<state, waiter, current_thread>>
  BY DEF Return, sigreturn, thread_stub, admin_mode, admin_next, thread_kill, kill_invalid,
         killed, exit_next, resumed, waited
<1>4. \A t \in Tids \ {c} : UNCHANGED <<pc[t], back[t], want[t], frame[t]>>
  BY <1>1 DEF Return, sigreturn, thread_stub, admin_mode, admin_next, thread_kill, kill_invalid,
         killed, exit_next, resumed, waited, locals
<1>5. \/ pc'[c] = "yield" /\ back'[c] \in {"admin_none", "exit_none"} /\ want'[c] \notin Tids
      \/ pc'[c] = "kill" /\ back'[c] = "admin"
      \/ pc'[c] = "death" /\ back'[c] # "killed"
      \/ pc'[c] = "slept" /\ back'[c] = "slept" /\ ret'[c] # THREAD_NONE
      \/ pc'[c] \in OwnReturns \cup {"user"}
  <2>1. CASE Return \/ sigreturn \/ thread_stub \/ killed \/ waited \/ kill_invalid
    BY <1>1, <2>1 DEF Return, sigreturn, thread_stub, killed, waited, kill_invalid, OwnReturns
  <2>2. CASE admin_mode
    BY <1>1, <2>2 DEF admin_mode
  <2>3. CASE admin_next \/ exit_next
    <3>1. THREAD_ANY \notin Tids
      BY DEF THREAD_ANY, Tids
    <3> QED BY <1>1, <2>3, <3>1 DEF admin_next, exit_next
  <2>4. CASE thread_kill
    <3>1. back[c] # "killed" /\ UNCHANGED back /\ pc'[c] = "death"
      BY <1>1, <2>4, SleepParts DEF thread_kill, Comeback, locals
    <3> QED BY <3>1
  <2>5. CASE resumed
    <3>1. back[c] = "slept" => want[c] # THREAD_NONE
      BY <1>1, <1>2, <2>5 DEF Sleepers, resumed
    <3> QED BY <1>1, <2>5, <3>1 DEF resumed, Answer
  <2> QED BY <2>1, <2>2, <2>3, <2>4, <2>5
<1>6. pc'[c] \in OwnReturns \cup {"user"} => pc'[c] \notin {"yield", "slept", "resumed", "kill", "death"}
  BY DEF OwnReturns
<1> QED BY <1>2, <1>3, <1>4, <1>5, <1>6, KeepsSleep

(* thread_yield returns at once. If it is to a thread_sleep, the entry of  *)
(* the thread is still the last of its queue.                              *)
LEMMA YieldKeepsSleep ==
  ASSUME SyncTypeOK, ControlOK, SleepOK, ~ overflowed, UNCHANGED <<wq, frame>>,
         yield_self \/ yield_none \/ yield_invalid
  PROVE  SleepOK'
<1> DEFINE c == current_thread
<1> USE DEF At
<1>1. /\ c \in Tids /\ pc[c] = "yield" /\ back[c] \in OwnReturns \cup {"slept"}
      /\ pc \in [Tids -> Labels] /\ ret \in [Tids -> Int]
      /\ pc' = [pc EXCEPT ![c] = back[c]]
      /\ UNCHANGED <<state, waiter, current_thread, back, want>>
  BY DEF yield_self, yield_none, yield_invalid, YieldReturns, Goto, SyncTypeOK, TypeOK, table
<1>2. Entries /\ Sleepers /\ Comeback
  BY SleepParts
<1>3. pc'[c] \in OwnReturns \cup {"slept"} /\ pc'[c] \notin {"yield", "resumed", "kill", "death"}
  BY <1>1 DEF OwnReturns
<1>4. CASE back[c] # "slept"
  <2>1. state[c] # "Sleep"
    BY <1>1, <1>2, <1>4 DEF Sleepers
  <2>2. pc'[c] # "slept"
    BY <1>1, <1>4 DEF OwnReturns
  <2> QED BY <1>1, <1>2, <1>3, <2>1, <2>2, KeepsSleep
<1>5. CASE back[c] = "slept"
  <2>1. JustQueued(c) /\ want[c] = THREAD_ANY
    BY <1>1, <1>2, <1>5 DEF Comeback
  <2>2. ret' = [ret EXCEPT ![c] = THREAD_NONE]
    BY <1>1, <2>1 DEF yield_self, yield_none, yield_invalid, YieldReturns, Answer, THREAD_ANY, THREAD_SELF, Tids
  <2>3. Entries'
    BY <1>1, <1>2 DEF Entries, EntryOf
  <2>4. Sleepers'
    BY <1>1, <1>2, <1>3 DEF Sleepers
  <2>5. pc'[c] = "slept" /\ ret'[c] = THREAD_NONE /\ JustQueued(c)'
    BY <1>1, <1>5, <2>1, <2>2 DEF JustQueued, MyQueue, MyFrame
  <2>6. Comeback'
    BY <1>1, <1>3, <1>5, <2>5 DEF Comeback
  <2> QED BY <2>3, <2>4, <2>6, SleepPartsNext
<1> QED BY <1>4, <1>5

LEMMA SwitchKeepsSleep ==
  ASSUME SyncTypeOK, ControlOK, SleepOK, ~ overflowed, UNCHANGED <<wq, frame>>, yield_any \/ yield_to
  PROVE  SleepOK'
<1> DEFINE c == current_thread
<1> USE DEF At
<1>1. Entries /\ Sleepers /\ Comeback
  BY SleepParts
<1>2. pc[c] = "yield" /\ ~ yield_to
  BY <1>1 DEF yield_any, yield_to, Available, Comeback
<1>3. PICK i \in 1 .. Len(thread_queue) :
        /\ Runnable(thread_queue[i])
        /\ SwitchTo(thread_queue[i], SubSeq(thread_queue, i + 1, Len(thread_queue)))
  BY <1>2 DEF yield_any, Picks
<1> DEFINE t == thread_queue[i]
<1>4. /\ t \in Tids \ {c} /\ state[t] = "Running"
      /\ pc' = [pc EXCEPT ![c] = "resumed"] /\ want' = [want EXCEPT ![c] = t] /\ current_thread' = t
      /\ UNCHANGED <<state, waiter, back>>
      /\ pc \in [Tids -> Labels] /\ want \in [Tids -> Int] /\ c \in Tids
  <2>1. t \in Tids /\ c \in Tids
    BY DEF SyncTypeOK, TypeOK
  <2> QED BY <1>3, <2>1 DEF SwitchTo, Runnable, SyncTypeOK, TypeOK, table
<1>5. pc'[t] \in {"stub", "resumed"}
  BY <1>4 DEF ControlOK, DispatchOK, SuspendedOK, Alive
<1>6. Entries'
  <2>1. UNCHANGED <<state, back>>
    BY <1>4
  <2> QED BY <1>1, <2>1 DEF Entries, EntryOf
<1>7. Sleepers'
  <2>1. t # THREAD_NONE
    BY <1>4 DEF THREAD_NONE, Tids
  <2> HIDE DEF t
  <2> QED BY <1>1, <1>4, <2>1 DEF Sleepers
<1>8. Comeback'
  BY <1>4, <1>5 DEF Comeback
<1> QED BY <1>6, <1>7, <1>8, SleepPartsNext

(* A thread is created, or dies: it is in no wait queue.                   *)
LEMMA CreateKeepsSleep ==
  ASSUME SyncTypeOK, ControlOK, SleepOK, ~ overflowed, UNCHANGED <<wq, frame>>,
         At("user"), NEW t \in Tids, create_thread(t)
  PROVE  SleepOK'
<1> DEFINE c == current_thread
<1> USE DEF At
<1>1. /\ c \in Tids /\ ~ Alive(t) /\ c # t /\ pc[c] = "user" /\ state[t] = "Destroyed"
      /\ pc' = [pc EXCEPT ![t] = "stub", ![c] = "return"] /\ pc \in [Tids -> Labels]
      /\ back' = [back EXCEPT ![t] = "return"] /\ back \in [Tids -> OwnReturns \cup {"slept"}]
      /\ want' = [want EXCEPT ![t] = THREAD_ANY] /\ want \in [Tids -> Int]
      /\ state' = [state EXCEPT ![t] = "Running"] /\ state \in [Tids -> {"Destroyed", "Running", "Sleep"}]
      /\ waiter' = [waiter EXCEPT ![t] = -1] /\ UNCHANGED current_thread
  BY DEF create_thread, NewEntry, SyncTypeOK, TypeOK, Alive, ControlOK, PathOK, OnOwnStack
<1>2. Entries /\ Sleepers /\ Comeback
  BY SleepParts
<1>3. Entries'
  <2> SUFFICES ASSUME NEW o \in Objects, NEW i \in 1 .. Len(wq[o]), NEW j \in 1 .. Len(wq[o])
               PROVE  EntryOf(wq[o][i], o)' /\ (wq[o][i] = wq[o][j] => i = j)
    BY DEF Entries
  <2>1. wq[o][i] \in Tids
    BY DEF SyncTypeOK, ObjectsOK
  <2>2. EntryOf(wq[o][i], o) /\ (wq[o][i] = wq[o][j] => i = j)
    BY <1>2 DEF Entries
  <2>3. wq[o][i] # t
    BY <1>1, <2>2 DEF EntryOf
  <2> QED BY <1>1, <2>1, <2>2, <2>3 DEF EntryOf
<1>4. Sleepers'
  <2>1. ASSUME NEW u \in Tids
        PROVE  /\ waiter'[u] = -1
               /\ state'[u] = "Sleep" => back'[u] = "slept"
               /\ back'[u] = "slept" /\ pc'[u] = "resumed" => want'[u] # THREAD_NONE
    <3>1. CASE u = t
      BY <1>1, <3>1 DEF SyncTypeOK, TypeOK
    <3>2. CASE u # t
      BY <1>1, <1>2, <3>2 DEF Sleepers, SyncTypeOK, TypeOK
    <3> QED BY <3>1, <3>2
  <2> QED BY <2>1 DEF Sleepers
<1>5. Comeback'
  <2>1. pc'[c] = "return" /\ state'[c] # "Sleep"
    BY <1>1, <1>2 DEF Comeback
  <2> QED BY <1>1, <2>1 DEF Comeback
<1> QED BY <1>3, <1>4, <1>5, SleepPartsNext

LEMMA DeathKeepsSleep ==
  ASSUME SyncTypeOK, ControlOK, SleepOK, ~ overflowed, UNCHANGED <<wq, frame>>, handle_death
  PROVE  SleepOK'
<1> DEFINE c == current_thread
<1> USE DEF At
<1>1. Entries /\ Sleepers /\ Comeback
  BY SleepParts
<1>2. c \in Tids /\ pc[c] = "death" /\ back[c] \in {"admin", "exit"} /\ tid[c] = c /\ state[c] # "Sleep"
  BY <1>1 DEF handle_death, SyncTypeOK, TypeOK, ControlOK, PathOK, Comeback
<1>3. waiter[c] = -1
  BY <1>1, <1>2 DEF Sleepers
<1>4. /\ state' = [state EXCEPT ![c] = "Destroyed"] /\ pc' = [pc EXCEPT ![c] = back[c]]
      /\ UNCHANGED <<waiter, current_thread, want, back>>
      /\ state \in [Tids -> {"Destroyed", "Running", "Sleep"}] /\ pc \in [Tids -> Labels]
  BY <1>2, <1>3 DEF handle_death, Wakes, Goto, SyncTypeOK, TypeOK
<1>5. Entries'
  <2> SUFFICES ASSUME NEW o \in Objects, NEW i \in 1 .. Len(wq[o]), NEW j \in 1 .. Len(wq[o])
               PROVE  EntryOf(wq[o][i], o)' /\ (wq[o][i] = wq[o][j] => i = j)
    BY DEF Entries
  <2>1. wq[o][i] \in Tids
    BY DEF SyncTypeOK, ObjectsOK
  <2>2. EntryOf(wq[o][i], o) /\ (wq[o][i] = wq[o][j] => i = j)
    BY <1>1 DEF Entries
  <2>3. wq[o][i] # c
    BY <1>2, <2>2 DEF EntryOf
  <2> QED BY <1>4, <2>1, <2>2, <2>3 DEF EntryOf
<1>6. Sleepers'
  BY <1>1, <1>2, <1>4 DEF Sleepers
<1>7. Comeback'
  BY <1>2, <1>4 DEF Comeback
<1> QED BY <1>5, <1>6, <1>7, SleepPartsNext

LEMMA AloneKeepsSleep ==
  ASSUME OrderlyProgram, SyncTypeOK, ControlOK, SleepOK, ~ overflowed, Alone
  PROVE  SleepOK'
<1>1. Next /\ UNCHANGED <<wq, frame>>
  BY DEF Alone
<1>2. CASE thread_create
  BY <1>1, <1>2, CreateKeepsSleep, CallKeepsSleep DEF thread_create
<1>3. CASE Yielding
  BY <1>1, <1>3, YieldKeepsSleep, SwitchKeepsSleep DEF Yielding
<1>4. CASE \/ Return \/ sigreturn \/ thread_stub \/ admin_mode \/ admin_next
           \/ thread_kill \/ kill_invalid \/ killed \/ exit_next \/ resumed \/ waited
  BY <1>1, <1>4, LibraryKeepsSleep
<1>5. CASE \/ Mask \/ yield_call \/ kill_call \/ thread_exit \/ exit_main \/ thread_wait
           \/ interrupt_handler
  <2> HIDE DEF SleepOK, Mask
  <2>1. CASE Mask \/ kill_call \/ thread_wait
    BY <1>1, <2>1, CallKeepsSleep
  <2>2. CASE yield_call \/ interrupt_handler
    BY <1>1, <2>2, CallKeepsSleep
  <2>3. CASE thread_exit \/ exit_main
    BY <1>1, <2>3, CallKeepsSleep
  <2> QED BY <1>5, <2>1, <2>2, <2>3
<1>6. CASE handle_death
  BY <1>1, <1>6, DeathKeepsSleep
<1>7. ASSUME UNCHANGED <<state, waiter, current_thread, pc, back, want, ret, overflowed>> PROVE SleepOK'
  BY <1>1, <1>7 DEF SleepOK, EntryOf, JustQueued, MyQueue, MyFrame
<1>8. CASE admin_none \/ assert_waiter \/ exit_none \/ create_no_memory \/ assert_interrupts
  BY <1>7, <1>8 DEF admin_none, assert_waiter, exit_none, create_no_memory, assert_interrupts, Stop,
     table, locals, history
<1>9. CASE Ended
  BY <1>7, <1>9 DEF Ended, schedVars
<1> QED
  BY <1>1, <1>2, <1>3, <1>4, <1>5, <1>6, <1>8, <1>9 DEF Next, Library, User

------------------------------------------------------------------------------
(* The synchronisation calls. Most of their steps put nobody to sleep and  *)
(* touch no queue.                                                         *)
LEMMA GoOnKeepsSleep ==
  ASSUME SyncInv, SleepOK, ~ overflowed, OuterStep, UNCHANGED <<state, wq, want, back>>,
         \A t \in Tids \ {current_thread} : frame'[t] = frame[t],
         pc[current_thread] = "slept" => ret[current_thread] # THREAD_NONE,
         pc'[current_thread] \notin {"yield", "slept"}
  PROVE  SleepOK'
<1> DEFINE c == current_thread
<1>1. /\ c \in Tids /\ pc \in [Tids -> Labels] /\ SyncTypeOK
      /\ UNCHANGED <<waiter, current_thread>>
      /\ pc[c] \in SyncLabels \cup {"user"} /\ pc'[c] \in SyncLabels \cup {"user", "return", "yield"}
      /\ pc' = [pc EXCEPT ![c] = pc'[c]]
  BY DEF SyncInv, SyncTypeOK, TypeOK, OuterStep
<1>2. Entries /\ Sleepers /\ Comeback
  BY SleepParts
<1>3. state[c] # "Sleep"
  BY <1>1, <1>2 DEF Comeback, SyncLabels
<1>4. \A t \in Tids \ {c} : UNCHANGED <<pc[t], back[t], want[t], frame[t]>>
  BY <1>1
<1>5. pc'[c] \notin {"resumed", "yield", "slept", "kill", "death"}
  BY <1>1 DEF SyncLabels
<1> QED BY <1>1, <1>2, <1>3, <1>4, <1>5, KeepsSleep

LEMMA StopKeepsSleep ==
  ASSUME SleepOK, NEW how, Stop(how), UNCHANGED syncVars PROVE SleepOK'
  BY DEF Stop, table, locals, history, syncVars, SleepOK, EntryOf, JustQueued, MyQueue, MyFrame

LEMMA UserKeepsSleep ==
  ASSUME SyncInv, SleepOK, ~ overflowed, SyncUser PROVE SleepOK'
<1> DEFINE c == current_thread
<1>1. OuterStep /\ c \in Tids /\ pc \in [Tids -> Labels] /\ frame \in [Tids -> Frames]
  BY CallStep DEF SyncInv, StepOK, SyncTypeOK, TypeOK, ObjectsOK
<1>2. CASE destroy_held \/ make_no_memory \/ free_again \/ assert_holder
  BY <1>2, StopKeepsSleep DEF destroy_held, make_no_memory, free_again, assert_holder, Abort
<1>3. ASSUME At("user"), UNCHANGED <<state, wq, want, back>>, pc'[c] \notin {"yield", "slept"},
             \A t \in Tids \ {c} : frame'[t] = frame[t]
      PROVE  SleepOK'
  BY <1>1, <1>3, GoOnKeepsSleep DEF At
<1>4. CASE make \/ destroy \/ lock_destroy \/ free_lock
  BY <1>1, <1>3, <1>4 DEF make, destroy, lock_destroy, free_lock, schedVars, At
<1>5. CASE sleep_invalid
  BY <1>1, <1>3, <1>5 DEF sleep_invalid, syncVars, Enter, Goto
<1>6. CASE sleep_call
  BY <1>1, <1>3, <1>6 DEF sleep_call, Enter, Goto, SetFrame, objects
<1>7. CASE acquire_call
  BY <1>1, <1>3, <1>7 DEF acquire_call, Enter, Goto, SetFrame, objects
<1>8. ASSUME At("user"), NEW o, NEW all, NEW f, WakeCall(o, all, f) PROVE SleepOK'
  BY <1>1, <1>3, <1>8 DEF WakeCall, Enter, Goto, SetFrame
<1>9. CASE wakeup_call \/ cv_signal \/ cv_broadcast
  BY <1>8, <1>9 DEF wakeup_call, cv_signal, cv_broadcast
<1>10. CASE lock_release \/ cv_wait
  BY <1>8, <1>10 DEF lock_release, cv_wait, Release
<1> QED BY <1>2, <1>4, <1>5, <1>6, <1>7, <1>9, <1>10 DEF SyncUser

(* The caller of thread_sleep joins a queue that it is not in, as the last.*)
LEMMA SleepKeepsSleep ==
  ASSUME SyncInv, SleepOK, ~ overflowed, thread_sleep PROVE SleepOK'
<1> SUFFICES ASSUME ~ overflowed' PROVE SleepOK'
  BY DEF SleepOK
<1> DEFINE c == current_thread
           q == frame[c].queue
<1>1. /\ c \in Tids /\ pc \in [Tids -> Labels] /\ pc[c] = "sleep" /\ q \in Objects
      /\ wq \in [Objects -> Seq(Tids)] /\ want \in [Tids -> Int]
      /\ state \in [Tids -> {"Destroyed", "Running", "Sleep"}]
      /\ back \in [Tids -> OwnReturns \cup {"slept"}]
  BY DEF SyncInv, SyncTypeOK, TypeOK, ObjectsOK, FramesOK, thread_sleep, At, MyFrame
<1>2. Entries /\ Sleepers /\ Comeback
  BY SleepParts
<1>3. state[c] # "Sleep"
  BY <1>1, <1>2 DEF Comeback
<1>4. /\ wq' = [wq EXCEPT ![q] = Append(wq[q], c)]
      /\ state' = [state EXCEPT ![c] = "Sleep"] /\ want' = [want EXCEPT ![c] = THREAD_ANY]
      /\ back' = [back EXCEPT ![c] = "slept"] /\ pc' = [pc EXCEPT ![c] = "yield"]
      /\ UNCHANGED <<waiter, current_thread, frame>>
  BY <1>1 DEF thread_sleep, Pushed, Overflows, MyQueue, MyFrame, Goto, others
<1>5. /\ wq[q] \in Seq(Tids) /\ wq'[q] = Append(wq[q], c)
      /\ \A o \in Objects \ {q} : wq'[o] = wq[o]
  BY <1>1, <1>4
<1>6. /\ Len(wq'[q]) = Len(wq[q]) + 1 /\ Len(wq[q]) \in Nat
      /\ wq'[q][Len(wq[q]) + 1] = c
      /\ \A i \in 1 .. Len(wq[q]) : wq'[q][i] = wq[q][i]
  BY <1>1, <1>5
<1>7. \A o \in Objects : \A i \in 1 .. Len(wq[o]) : wq[o][i] \in Tids \ {c}
  BY <1>1, <1>2, <1>3 DEF Entries, EntryOf
<1>8. Entries'
  <2> SUFFICES ASSUME NEW o \in Objects, NEW i \in 1 .. Len(wq'[o]), NEW j \in 1 .. Len(wq'[o])
               PROVE  /\ EntryOf(wq[o][i], o)'
                      /\ wq'[o][i] = wq'[o][j] => i = j
    BY DEF Entries
  <2>1. \A x \in Objects : \A k \in 1 .. Len(wq[x]) : EntryOf(wq[x][k], x) /\ wq[x][k] \in Tids \ {c}
    BY <1>2, <1>7 DEF Entries
  <2>2. \A t \in Tids \ {c} : EntryOf(t, o) => state'[t] = "Sleep" /\ back'[t] = "slept" /\ frame'[t].queue = o
    BY <1>1, <1>4 DEF EntryOf
  <2>3. CASE o # q
    BY <1>2, <1>5, <2>1, <2>2, <2>3 DEF Entries, EntryOf
  <2>4. CASE o = q
    <3>1. state'[c] = "Sleep" /\ back'[c] = "slept" /\ frame'[c].queue = q
      BY <1>1, <1>4
    <3>2. i \in 1 .. Len(wq[q]) \/ i = Len(wq[q]) + 1
      BY <1>6, <2>4
    <3>3. j \in 1 .. Len(wq[q]) \/ j = Len(wq[q]) + 1
      BY <1>6, <2>4
    <3>4. \/ wq'[o][i] = c
          \/ wq'[o][i] \in Tids \ {c} /\ EntryOf(wq'[o][i], o)
      BY <1>6, <2>1, <2>4, <3>2
    <3>5. EntryOf(wq[o][i], o)'
      <4>1. CASE wq'[o][i] = c
        BY <2>4, <3>1, <4>1 DEF EntryOf
      <4>2. CASE wq'[o][i] \in Tids \ {c} /\ EntryOf(wq'[o][i], o)
        BY <2>2, <4>2 DEF EntryOf
      <4> QED BY <3>4, <4>1, <4>2
    <3>6. \A m, n \in 1 .. Len(wq[q]) : wq[q][m] = wq[q][n] => m = n
      BY <1>1, <1>2 DEF Entries
    <3>7. wq'[o][i] = wq'[o][j] => i = j
      <4>1. \A m \in 1 .. Len(wq[q]) : wq'[q][m] = wq[q][m] /\ wq'[q][m] # c
        BY <1>1, <1>6, <1>7
      <4> QED BY <1>6, <2>4, <3>2, <3>3, <3>6, <4>1
    <3> QED BY <3>5, <3>7
  <2> QED BY <2>3, <2>4
<1>9. Sleepers'
  BY <1>1, <1>2, <1>4 DEF Sleepers
<1>10. Comeback'
  <2>1. wq'[q] # <<>> /\ wq'[q][Len(wq'[q])] = c
    BY <1>6
  <2>2. state'[c] = "Sleep" /\ current_thread' = c /\ frame' = frame
    BY <1>1, <1>4
  <2> HIDE DEF c
  <2>3. JustQueued(c)'
    BY <2>1, <2>2 DEF JustQueued, MyQueue, MyFrame, c
  <2>4. pc'[c] = "yield" /\ want'[c] = THREAD_ANY /\ want'[c] \notin Tids
    BY <1>1, <1>4 DEF THREAD_ANY, Tids, c
  <2> QED BY <2>2, <2>3, <2>4 DEF Comeback, c
<1> QED BY <1>8, <1>9, <1>10, SleepPartsNext

(* A thread leaves a queue, at either end, and does not sleep any more: it *)
(* has no other entry.                                                     *)
LEMMA LeavingKeepsEntries ==
  ASSUME SyncTypeOK, Entries, NEW q \in Objects, NEW t \in Tids,
         NEW s \in Seq(Tids), wq' = [wq EXCEPT ![q] = s],
         Len(wq[q]) = Len(s) + 1,
         \/ wq[q][Len(wq[q])] = t /\ \A i \in 1 .. Len(s) : s[i] = wq[q][i]
         \/ wq[q][1] = t /\ \A i \in 1 .. Len(s) : s[i] = wq[q][i + 1],
         state' = [state EXCEPT ![t] = "Running"], UNCHANGED back,
         \A u \in Tids \ {t} : state[u] = "Sleep" => frame'[u] = frame[u]
  PROVE  Entries'
<1>1. wq \in [Objects -> Seq(Tids)] /\ state \in [Tids -> {"Destroyed", "Running", "Sleep"}]
  BY DEF SyncTypeOK, TypeOK, ObjectsOK
<1>0. Len(s) \in Nat
  OBVIOUS
<1>d. PICK d \in {0, 1} : /\ wq[q][IF d = 0 THEN Len(wq[q]) ELSE 1] = t
                          /\ \A i \in 1 .. Len(s) : s[i] = wq[q][i + d]
  <2>1. CASE wq[q][Len(wq[q])] = t /\ \A i \in 1 .. Len(s) : s[i] = wq[q][i]
    <3>1. \A i \in 1 .. Len(s) : s[i] = wq[q][i + 0]
      BY <1>0, <2>1
    <3> QED BY <2>1, <3>1
  <2>2. CASE wq[q][1] = t /\ \A i \in 1 .. Len(s) : s[i] = wq[q][i + 1]
    BY <2>2
  <2> QED BY <2>1, <2>2
<1>2. \A i \in 1 .. Len(s) : /\ i + d \in 1 .. Len(wq[q])
                             /\ i + d # (IF d = 0 THEN Len(wq[q]) ELSE 1)
  BY <1>0
<1>3. (IF d = 0 THEN Len(wq[q]) ELSE 1) \in 1 .. Len(wq[q])
  BY <1>0
<1>4. \A o \in Objects : \A i \in 1 .. Len(wq[o]) : wq[o][i] \in Tids /\ EntryOf(wq[o][i], o)
  BY <1>1 DEF Entries
<1>5. EntryOf(t, q)
  BY <1>d, <1>3, <1>4
<1> SUFFICES ASSUME NEW o \in Objects, NEW i \in 1 .. Len(wq'[o]), NEW j \in 1 .. Len(wq'[o])
             PROVE  EntryOf(wq[o][i], o)' /\ (wq'[o][i] = wq'[o][j] => i = j)
  BY DEF Entries
<1>6. ASSUME NEW u \in Tids, EntryOf(u, o), u # t
      PROVE  state'[u] = "Sleep" /\ back'[u] = "slept" /\ frame'[u].queue = o
  BY <1>1, <1>6 DEF EntryOf
<1>7. CASE o # q
  <2>1. wq'[o] = wq[o]
    BY <1>1, <1>7
  <2>2. wq[o][i] \in Tids /\ EntryOf(wq[o][i], o) /\ (wq[o][i] = wq[o][j] => i = j)
    BY <1>4, <2>1 DEF Entries
  <2>3. wq[o][i] # t
    BY <1>5, <1>7, <2>2 DEF EntryOf
  <2>4. EntryOf(wq[o][i], o)'
    BY <1>6, <2>1, <2>2, <2>3 DEF EntryOf
  <2> QED BY <2>1, <2>2, <2>4
<1>8. CASE o = q
  <2>1. wq'[o] = s
    BY <1>1, <1>8
  <2>2. s[i] = wq[q][i + d] /\ s[j] = wq[q][j + d]
    BY <1>d, <1>8, <2>1
  <2>3. i + d \in 1 .. Len(wq[q]) /\ j + d \in 1 .. Len(wq[q])
    BY <1>2, <1>8, <2>1
  <2>4. wq[q][i + d] # t
    BY <1>d, <1>2, <1>3, <1>8, <2>1, <2>3 DEF Entries
  <2>5. wq'[o][i] \in Tids /\ EntryOf(wq'[o][i], o) /\ wq'[o][i] # t
    BY <1>4, <1>8, <2>1, <2>2, <2>3, <2>4
  <2>6. EntryOf(wq[o][i], o)'
    BY <1>6, <2>5 DEF EntryOf
  <2>7. \A m, n \in 1 .. Len(wq[q]) : wq[q][m] = wq[q][n] => m = n
    BY DEF Entries
  <2>8. s[i] = s[j] => i + d = j + d
    BY <2>2, <2>3, <2>7
  <2> QED BY <1>0, <1>8, <2>1, <2>6, <2>8
<1> QED BY <1>7, <1>8

(* Nobody else could run: the caller takes its own entry out again.        *)
LEMMA AloneAgainKeepsSleep ==
  ASSUME SyncInv, SleepOK, ~ overflowed, slept_alone PROVE SleepOK'
<1> DEFINE c == current_thread
           q == frame[c].queue
           n == Len(wq[q]) - 1
<1>1. /\ OuterStep /\ SyncTypeOK /\ c \in Tids /\ pc \in [Tids -> Labels] /\ pc[c] = "slept"
      /\ q \in Objects /\ wq \in [Objects -> Seq(Tids)] /\ frame \in [Tids -> Frames]
      /\ state \in [Tids -> {"Destroyed", "Running", "Sleep"}]
  BY CallStep DEF SyncLibrary, StepOK, SyncInv, SyncTypeOK, TypeOK, ObjectsOK, FramesOK, slept_alone, At, MyFrame
<1>2. Entries /\ Sleepers /\ Comeback
  BY SleepParts
<1>3. /\ wq[q] # <<>> /\ wq[q][Len(wq[q])] = c
      /\ wq' = [wq EXCEPT ![q] = SubSeq(wq[q], 1, n)]
      /\ state' = [state EXCEPT ![c] = "Running"] /\ UNCHANGED <<back, want, ret>>
      /\ frame[c].after \in {"return", "acquire", "cv_sleep", "cv_woken"}
      /\ pc' = [pc EXCEPT ![c] = frame[c].after]
      /\ \A t \in Tids \ {c} : frame'[t] = frame[t]
  BY <1>1 DEF slept_alone, MyQueue, MyFrame, CallReturns, Goto, SetFrame, Frames
<1>4. UNCHANGED <<waiter, current_thread>>
  BY <1>1 DEF OuterStep
<1>5. Entries'
  <2>1. wq[q] \in Seq(Tids)
    BY <1>1
  <2>2. Len(wq[q]) \in Nat /\ Len(wq[q]) > 0
    BY <1>3, <2>1
  <2>3. n \in Nat /\ n <= Len(wq[q])
    BY <2>2
  <2> HIDE DEF n, q
  <2>4. /\ SubSeq(wq[q], 1, n) \in Seq(Tids) /\ Len(SubSeq(wq[q], 1, n)) = n
        /\ \A i \in 1 .. n : SubSeq(wq[q], 1, n)[i] = wq[q][i]
    BY <2>1, <2>3, PrefixEntries
  <2> DEFINE s == SubSeq(wq[q], 1, n)
  <2>5. s \in Seq(Tids) /\ Len(wq[q]) = Len(s) + 1 /\ \A i \in 1 .. Len(s) : s[i] = wq[q][i]
    BY <2>2, <2>4 DEF n
  <2> HIDE DEF s
  <2>6. wq' = [wq EXCEPT ![q] = s]
    BY <1>3 DEF s
  <2>7. \A u \in Tids \ {c} : state[u] = "Sleep" => frame'[u] = frame[u]
    BY <1>3
  <2>8. wq[q][Len(wq[q])] = c /\ state' = [state EXCEPT ![c] = "Running"] /\ UNCHANGED back
    BY <1>3
  <2> HIDE DEF c
  <2> QED BY <1>1, <1>2, <2>5, <2>6, <2>7, <2>8, LeavingKeepsEntries
<1>6. Sleepers'
  <2>1. pc'[c] # "resumed"
    BY <1>1, <1>3
  <2> QED BY <1>1, <1>2, <1>3, <1>4, <2>1 DEF Sleepers
<1>7. Comeback'
  BY <1>1, <1>3, <1>4 DEF Comeback
<1> QED BY <1>5, <1>6, <1>7, SleepPartsNext

(* thread_wakeup takes the oldest entry and makes its thread runnable.     *)
LEMMA WakeKeepsSleep ==
  ASSUME SyncInv, SleepOK, ~ overflowed, wake PROVE SleepOK'
<1> DEFINE c == current_thread
           q == frame[c].queue
           id == Head(wq[q])
<1>1. /\ OuterStep /\ SyncTypeOK /\ c \in Tids /\ pc \in [Tids -> Labels] /\ pc[c] = "wakeup"
      /\ q \in Objects /\ wq \in [Objects -> Seq(Tids)] /\ frame \in [Tids -> Frames]
      /\ state \in [Tids -> {"Destroyed", "Running", "Sleep"}] /\ \A o \in Objects : Len(wq[o]) <= QCap
  BY CallStep DEF SyncLibrary, StepOK, SyncInv, SyncTypeOK, TypeOK, ObjectsOK, FramesOK, wake, At, MyFrame
<1>2. Entries /\ Sleepers /\ Comeback
  BY SleepParts
<1>3. wq[q] # <<>> /\ wq[q] \in Seq(Tids) /\ Len(wq[q]) <= QCap
  BY <1>1 DEF wake, MyQueue, MyFrame
<1>4. /\ wq' = [wq EXCEPT ![q] = Tail(wq[q])] /\ state[id] = "Sleep"
      /\ state' = [state EXCEPT ![id] = "Running"] /\ UNCHANGED <<back, want>>
  BY <1>1 DEF wake, MyQueue, MyFrame
<1>5. /\ pc'[c] \in {"wakeup", "return", "acquire", "cv_sleep", "cv_woken"}
      /\ \A t \in Tids \ {c} : pc'[t] = pc[t] /\ frame'[t] = frame[t]
  <2>1. frame[c].after \in {"return", "acquire", "cv_sleep", "cv_woken"}
    BY <1>1 DEF Frames
  <2>2. CASE MyFrame.all
    BY <1>1, <2>2 DEF wake
  <2>3. CASE ~ MyFrame.all
    BY <1>1, <2>1, <2>3 DEF wake, CallReturns, Goto, SetFrame, MyFrame
  <2> QED BY <2>2, <2>3
<1>6. UNCHANGED <<waiter, current_thread>>
  BY <1>1 DEF OuterStep
<1>7. id \in Tids /\ id # c
  BY <1>1, <1>2, <1>3, <1>4, TailEntries DEF Comeback
<1>8. Entries'
  <2> DEFINE s == Tail(wq[q])
  <2>1. /\ s \in Seq(Tids) /\ Len(wq[q]) = Len(s) + 1 /\ wq[q][1] = id
        /\ \A i \in 1 .. Len(s) : s[i] = wq[q][i + 1]
    BY <1>3
  <2> HIDE DEF s, id, q
  <2>2. wq' = [wq EXCEPT ![q] = s]
    BY <1>4 DEF s
  <2>3. \A u \in Tids \ {id} : state[u] = "Sleep" => frame'[u] = frame[u]
    BY <1>1, <1>2, <1>5 DEF Comeback
  <2> QED BY <1>1, <1>2, <1>4, <1>7, <2>1, <2>2, <2>3, LeavingKeepsEntries
<1> HIDE DEF id, q
<1>9. Sleepers'
  BY <1>1, <1>2, <1>4, <1>5, <1>6, <1>7 DEF Sleepers
<1>10. Comeback'
  <2>1. state[c] # "Sleep"
    BY <1>1, <1>2 DEF Comeback
  <2>2. state'[c] # "Sleep"
    BY <1>1, <1>4, <1>7, <2>1
  <2> QED BY <1>5, <1>6, <2>2 DEF Comeback
<1> QED BY <1>8, <1>9, <1>10, SleepPartsNext

LEMMA SyncLibraryKeepsSleep ==
  ASSUME SyncInv, SleepOK, ~ overflowed, SyncLibrary PROVE SleepOK'
<1> DEFINE c == current_thread
<1>1. OuterStep /\ c \in Tids /\ pc \in [Tids -> Labels] /\ frame \in [Tids -> Frames]
  BY CallStep DEF SyncInv, StepOK, SyncTypeOK, TypeOK, ObjectsOK
<1>2. CASE slept_assert \/ wake_assert \/ acquire_freed
  BY <1>2, StopKeepsSleep DEF slept_assert, wake_assert, acquire_freed, Abort
<1>3. CASE slept \/ wake_none
  <2>1. frame[c].after \notin {"yield", "slept"}
    BY <1>1 DEF Frames
  <2>2. UNCHANGED <<state, wq, want, back>> /\ (pc[c] = "slept" => ret[c] # THREAD_NONE)
    BY <1>3 DEF slept, wake_none, objects, At
  <2>3. CallReturns
    BY <1>3 DEF slept, wake_none
  <2>4. pc'[c] \notin {"yield", "slept"} /\ \A t \in Tids \ {c} : frame'[t] = frame[t]
    BY <1>1, <2>1, <2>3 DEF CallReturns, Goto, SetFrame, MyFrame
  <2> QED BY <1>1, <2>2, <2>4, GoOnKeepsSleep
<1>4. CASE lock_acquire
  BY <1>1, <1>4, GoOnKeepsSleep DEF lock_acquire, Goto, SetFrame, At
<1>5. CASE acquire_wait
  BY <1>1, <1>5, GoOnKeepsSleep DEF acquire_wait, Goto, SetFrame, objects, At
<1>6. CASE cv_sleep \/ cv_woken
  BY <1>1, <1>6, GoOnKeepsSleep DEF cv_sleep, cv_woken, Goto, SetFrame, objects, At
<1>7. CASE wake_dead
  <2>1. pc[c] = "wakeup" /\ MyQueue # <<>> /\ state[Head(MyQueue)] = "Destroyed"
    BY <1>7 DEF wake_dead, At
  <2>2. MyFrame.queue \in Objects /\ MyQueue \in Seq(Tids)
    BY <2>1 DEF SyncInv, SyncTypeOK, ObjectsOK, FramesOK, MyQueue
  <2>3. 1 \in 1 .. Len(MyQueue) /\ Head(MyQueue) = MyQueue[1]
    BY <2>1, <2>2
  <2>4. EntryOf(MyQueue[1], MyFrame.queue)
    BY <2>2, <2>3, SleepParts DEF Entries, MyQueue
  <2> QED BY <2>1, <2>3, <2>4 DEF EntryOf
<1> QED
  BY <1>2, <1>3, <1>4, <1>5, <1>6, <1>7, SleepKeepsSleep, AloneAgainKeepsSleep, WakeKeepsSleep
     DEF SyncLibrary

(* A queue that has been full once stays remembered.                       *)
LEMMA FullOnce == ASSUME SyncInv, [SyncNext]_allVars PROVE overflowed => overflowed'
<1>1. CASE Alone
  BY <1>1, AloneSleepers DEF Alone, SyncInv
<1>2. CASE SyncLibrary
  BY <1>2 DEF SyncLibrary, thread_sleep, slept, slept_alone, slept_assert, wake, wake_dead, wake_assert,
     wake_none, lock_acquire, acquire_wait, acquire_freed, cv_sleep, cv_woken, Abort, Stop, history,
     schedVars, Overflows
<1>3. CASE SyncUser
  BY <1>3 DEF SyncUser, make, destroy, lock_destroy, free_lock, make_no_memory, free_again,
              destroy_held, sleep_invalid, sleep_call,
     wakeup_call, acquire_call, lock_release, assert_holder, cv_wait, cv_signal, cv_broadcast,
     WakeCall, Release, Abort, Stop, history, schedVars
<1>4. CASE UNCHANGED allVars
  BY <1>4 DEF allVars, schedVars
<1> QED BY <1>1, <1>2, <1>3, <1>4 DEF SyncNext

LEMMA StepSleep ==
  ASSUME OrderlyProgram, SyncInv, SleepOK, [SyncNext]_allVars PROVE SleepOK'
<1>1. overflowed => overflowed'
  BY FullOnce
<1>2. CASE overflowed
  BY <1>1, <1>2 DEF SleepOK
<1>3. CASE ~ overflowed
  <2>1. CASE UNCHANGED allVars
    BY <2>1 DEF allVars, schedVars, syncVars, SleepOK, EntryOf, JustQueued, MyQueue, MyFrame
  <2> QED
    BY <1>3, <2>1, AloneKeepsSleep, SyncLibraryKeepsSleep, UserKeepsSleep DEF SyncNext, SyncInv
<1> QED BY <1>2, <1>3

LEMMA InitSleep == SyncInit => SleepOK
  BY SchedulerAssumption DEF SyncInit, Init, SleepOK, Tids

(* In an orderly program a wait queue holds the threads that sleep in it,  *)
(* each once, in the order in which they went to sleep, and no other: no   *)
(* entry outlives the sleep it stands for, although thread_yield puts      *)
(* threads into the ready queue while they sleep.                          *)
THEOREM QueuesHoldSleepers == ASSUME OrderlyProgram PROVE SyncSpec => []SleepOK
  BY InitSleep, StepSleep, SyncInvAlways, PTL DEF SyncSpec

------------------------------------------------------------------------------
(* Nothing blocks the signal for good, and no assertion has failed.        *)
NothingFails == masked = {} /\ SyncNoAbort

LEMMA KeepsStatus ==
  ASSUME NothingFails, overflowed => overflowed', masked' = {},
         status' \in {status, "exited", "failed", "undefined"}
  PROVE  NothingFails'
  BY DEF NothingFails, SyncNoAbort

LEMMA AloneFails ==
  ASSUME OrderlyProgram, SyncInv, SleepOK, MaskOK, NothingFails, overflowed => overflowed', Alone
  PROVE  NothingFails'
<1> USE DEF history
<1>0. Next
  BY DEF Alone
<1>1. masked = {}
  BY DEF NothingFails
<1>2. ASSUME NEW t, NEW q, SwitchTo(t, q) PROVE NothingFails'
  BY <1>1, <1>2, KeepsStatus DEF SwitchTo
<1>3. CASE Yielding
  BY <1>1, <1>2, <1>3, KeepsStatus
     DEF Yielding, yield_self, yield_any, yield_none, yield_to, yield_invalid, YieldReturns
<1>4. CASE thread_create
  <2>1. status' = status /\ masked' = {}
    BY <1>1, <1>4 DEF thread_create, create_no_more, create_thread
  <2> QED BY <2>1, KeepsStatus
<1>5. CASE Mask \/ kill_call \/ thread_wait
  BY <1>5, OrderlyCalls DEF Mask, kill_call, thread_wait, wait_invalid, wait_exited, wait_sleep, wait_call
<1>6. CASE Return \/ sigreturn \/ thread_stub \/ resumed \/ admin_mode \/ admin_next
  BY <1>1, <1>6, KeepsStatus DEF Return, sigreturn, thread_stub, resumed, admin_mode, admin_next
<1>7. CASE thread_kill \/ kill_invalid \/ killed \/ handle_death \/ exit_next \/ waited
  BY <1>1, <1>7, KeepsStatus DEF thread_kill, kill_invalid, killed, handle_death, exit_next, waited
<1>8. CASE yield_call \/ thread_exit \/ exit_main \/ interrupt_handler
  BY <1>1, <1>8, KeepsStatus DEF yield_call, thread_exit, exit_main, interrupt_handler
<1>9. CASE exit_none \/ create_no_memory
  BY <1>1, <1>9, KeepsStatus DEF exit_none, create_no_memory, Stop
<1>10. CASE admin_none
  <2>1. ret[current_thread] = THREAD_NONE
    BY <1>10 DEF admin_none, At, SyncInv, ControlOK, PathOK
  <2> QED BY <1>1, <1>10, <2>1, KeepsStatus DEF admin_none, Stop
<1>11. CASE assert_interrupts
  <2>1. intr
    BY <1>1, <1>11 DEF assert_interrupts, At, MaskOK, MaskOfProcessor
  <2> QED BY <1>11, <2>1 DEF assert_interrupts
<1>12. CASE assert_waiter
  <2>1. CASE overflowed
    BY <1>1, <1>12, <2>1 DEF assert_waiter, Stop, NothingFails, SyncNoAbort
  <2>2. CASE ~ overflowed
    <3>1. tid[current_thread] \in Tids /\ pc[current_thread] = "death"
      BY <1>12 DEF assert_waiter, At, SyncInv, ControlOK, DispatchOK
    <3>2. waiter[tid[current_thread]] = -1
      BY <2>2, <3>1, SleepParts DEF Sleepers
    <3> QED BY <1>12, <3>2 DEF assert_waiter
  <2> QED BY <2>1, <2>2
<1>13. CASE Ended
  BY <1>1, <1>13, KeepsStatus DEF Ended, schedVars
<1> QED
  BY <1>0, <1>3, <1>4, <1>5, <1>6, <1>7, <1>8, <1>9, <1>10, <1>11, <1>12, <1>13
     DEF Next, Library, User

(* A synchronisation call that stops the process for an assertion has      *)
(* found something that SleepOK or MutualExclusion excludes.               *)
LEMMA CallFails ==
  ASSUME OrderlyProgram, SyncInv, SleepOK, MutualExclusion, NothingFails, overflowed => overflowed',
         SyncLibrary \/ SyncUser
  PROVE  NothingFails'
<1> DEFINE c == current_thread
<1>1. masked' = {}
  BY CallStep DEF SyncInv, StepOK, OuterStep, NothingFails
<1>2. ASSUME status' = status \/ Stop("undefined") \/ Stop("failed") PROVE NothingFails'
  BY <1>1, <1>2, KeepsStatus DEF Stop
<1>3. ASSUME UNCHANGED others PROVE NothingFails'
  BY <1>2, <1>3 DEF others
<1>4. CASE make \/ destroy \/ lock_destroy \/ free_lock \/ wake_dead
  BY <1>2, <1>4 DEF make, destroy, lock_destroy, free_lock, wake_dead, schedVars
<1>5. CASE sleep_invalid \/ sleep_call \/ wakeup_call \/ acquire_call
  BY <1>3, <1>5 DEF sleep_invalid, sleep_call, wakeup_call, acquire_call, WakeCall
<1>6. CASE lock_release \/ cv_wait \/ cv_signal \/ cv_broadcast
  BY <1>3, <1>6 DEF lock_release, cv_wait, cv_signal, cv_broadcast, WakeCall, Release
<1>7. CASE thread_sleep \/ slept \/ slept_alone \/ wake \/ wake_none
  BY <1>3, <1>7 DEF thread_sleep, slept, slept_alone, wake, wake_none
<1>8. CASE lock_acquire \/ acquire_wait \/ cv_sleep \/ cv_woken
  BY <1>3, <1>8 DEF lock_acquire, acquire_wait, cv_sleep, cv_woken
<1>9. CASE acquire_freed \/ make_no_memory \/ free_again
  BY <1>2, <1>9 DEF acquire_freed, make_no_memory, free_again
<1>10. CASE destroy_held
  BY <1>10, OrderlyCalls DEF destroy_held
<1>11. CASE assert_holder
  <2>1. PICK op \in {"release", "wait", "signal", "broadcast"} :
          \E k \in SyncCall(op) : current[k.lock] # c
    BY <1>11 DEF assert_holder
  <2>2. PICK k \in SyncCall(op) : current[k.lock] # c
    BY <2>1
  <2>3. k.lock \in Locks /\ k.lock # None
    BY <2>1, SyncArgument, SyncAssumption DEF Objects
  <2>4. c \in inside[k.lock]
    BY <2>1, <2>3 DEF SyncCall, OrderlyProgram
  <2> QED BY <2>2, <2>3, <2>4 DEF MutualExclusion
<1>12. CASE overflowed /\ (slept_assert \/ wake_assert)
  BY <1>1, <1>12 DEF slept_assert, wake_assert, Abort, Stop, history, NothingFails, SyncNoAbort
<1>13. CASE ~ overflowed /\ slept_assert
  <2>1. JustQueued(c)
    BY <1>13, SleepParts DEF slept_assert, At, Comeback
  <2> QED BY <1>13, <2>1 DEF slept_assert, JustQueued
<1>14. CASE ~ overflowed /\ wake_assert
  <2>1. pc[c] = "wakeup" /\ MyQueue # <<>> /\ state[Head(MyQueue)] = "Running"
    BY <1>14 DEF wake_assert, At
  <2>2. MyFrame.queue \in Objects /\ MyQueue \in Seq(Tids)
    BY <2>1 DEF SyncInv, SyncTypeOK, ObjectsOK, FramesOK, MyQueue
  <2>3. 1 \in 1 .. Len(MyQueue) /\ Head(MyQueue) = MyQueue[1]
    BY <2>1, <2>2
  <2>4. EntryOf(MyQueue[1], MyFrame.queue)
    BY <1>14, <2>2, <2>3, SleepParts DEF Entries, MyQueue
  <2> QED BY <2>1, <2>3, <2>4 DEF EntryOf
<1> QED
  BY <1>4, <1>5, <1>6, <1>7, <1>8, <1>9, <1>10, <1>11, <1>12, <1>13, <1>14 DEF SyncLibrary, SyncUser

LEMMA StepFails ==
  ASSUME OrderlyProgram, SyncInv, SleepOK, MaskOK, MutualExclusion, NothingFails, [SyncNext]_allVars
  PROVE  NothingFails'
<1>1. CASE Alone
  BY <1>1, AloneFails, FullOnce
<1>2. CASE SyncLibrary \/ SyncUser
  BY <1>2, CallFails, FullOnce
<1>3. CASE UNCHANGED allVars
  BY <1>3 DEF allVars, schedVars, NothingFails, SyncNoAbort
<1> QED BY <1>1, <1>2, <1>3 DEF SyncNext

(* In an orderly program no assertion fails, in the synchronisation calls  *)
(* (of thread.c 467 and 493 and those that the caller holds the lock) or   *)
(* anywhere else, as long as no queue has been full.                       *)
THEOREM OrderlyProgramsDoNotAbort == ASSUME OrderlyProgram PROVE SyncSpec => []SyncNoAbort
<1>1. SyncInit => MaskOK /\ NothingFails
  BY InitMask DEF SyncInit, Init, NothingFails, SyncNoAbort
<1>2. SyncInv /\ MaskOK /\ [SyncNext]_allVars => MaskOK'
  BY SyncSteps, StepMask, OuterMask DEF SyncInv, SyncTypeOK
<1>3. SyncInv /\ SleepOK /\ MaskOK /\ MutualExclusion /\ NothingFails /\ [SyncNext]_allVars => NothingFails'
  BY StepFails
<1>4. NothingFails => SyncNoAbort
  BY DEF NothingFails
<1> QED
  BY <1>1, <1>2, <1>3, <1>4, SyncInvAlways, QueuesHoldSleepers, LocksExclude, PTL DEF SyncSpec

------------------------------------------------------------------------------
(* The holders of locks, in a disciplined program in which no thread ends. *)
NobodyDies == ~ administrative_mode /\ pc[current_thread] \notin {"kill", "death"}

LEMMA NobodyCalls == ASSUME NobodyEnds PROVE Call("kill") = {} /\ Call("exit") = {}
  BY DEF Call, NobodyEnds

LEMMA AloneKillsNobody ==
  ASSUME NobodyEnds, SyncInv, NobodyDies, Alone
  PROVE  NobodyDies' /\ \A t \in Tids : Alive(t) => Alive(t)'
<1> DEFINE c == current_thread
           Safe == NobodyDies' /\ \A t \in Tids : Alive(t) => Alive(t)'
<1> USE DEF At, Goto, table, admin
<1>0. /\ Next /\ c \in Tids /\ pc \in [Tids -> Labels] /\ back \in [Tids -> OwnReturns \cup {"slept"}]
      /\ back[c] \notin {"kill", "death"} /\ ~ administrative_mode /\ pc[c] \notin {"kill", "death"}
      /\ state \in [Tids -> {"Destroyed", "Running", "Sleep"}]
  BY DEF Alone, SyncInv, SyncTypeOK, TypeOK, NobodyDies, OwnReturns
<1>1. ASSUME UNCHANGED <<state, administrative_mode, current_thread>>, pc'[c] \notin {"kill", "death"}
      PROVE  Safe
  BY <1>0, <1>1 DEF NobodyDies, Alive
<1>2. ASSUME UNCHANGED <<state, administrative_mode, current_thread>>, NEW label,
             pc' = [pc EXCEPT ![c] = label], label \notin {"kill", "death"}
      PROVE  Safe
  BY <1>0, <1>1, <1>2
<1>3. ASSUME NEW t \in Tids \ {c}, NEW q, SwitchTo(t, q) PROVE Safe
  <2>1. pc'[t] = pc[t] /\ pc[t] \in {"none", "stub", "resumed"}
    BY <1>0, <1>3 DEF SwitchTo, SyncInv, ControlOK, DispatchOK
  <2>2. UNCHANGED <<state, administrative_mode>> /\ current_thread' = t
    BY <1>3 DEF SwitchTo
  <2> QED BY <1>0, <2>1, <2>2 DEF NobodyDies, Alive
<1>4. CASE yield_any
  <2> PICK i \in 1 .. Len(thread_queue) :
        /\ Picks(i)
        /\ SwitchTo(thread_queue[i], SubSeq(thread_queue, i + 1, Len(thread_queue)))
    BY <1>4 DEF yield_any
  <2>1. thread_queue[i] \in Tids
    BY DEF SyncInv, SyncTypeOK, TypeOK
  <2> QED BY <1>3, <2>1 DEF Picks, Runnable
<1>5. CASE yield_to
  BY <1>3, <1>5 DEF yield_to, Available
<1>6. CASE yield_self \/ yield_none \/ yield_invalid
  BY <1>0, <1>2, <1>6 DEF yield_self, yield_none, yield_invalid, YieldReturns
<1>7. CASE thread_create
  <2>1. CASE create_no_more
    <3>1. pc'[c] = "return" /\ UNCHANGED <<state, administrative_mode, current_thread>>
      BY <1>0, <2>1 DEF create_no_more, Enter
    <3> QED BY <1>1, <3>1
  <2>2. ASSUME NEW t \in Tids, create_thread(t) PROVE Safe
    <3>1. pc'[c] \in {"stub", "return"} /\ UNCHANGED <<administrative_mode, current_thread>>
      BY <1>0, <2>2 DEF create_thread
    <3>2. \A u \in Tids : Alive(u) => Alive(u)'
      BY <1>0, <2>2 DEF create_thread, NewEntry, Alive
    <3> QED BY <3>1, <3>2 DEF NobodyDies
  <2> QED BY <1>7, <2>1, <2>2 DEF thread_create
<1>8. CASE Return \/ sigreturn \/ thread_stub \/ resumed \/ killed \/ waited \/ exit_next \/ interrupt_handler
  BY <1>0, <1>2, <1>8 DEF Return, sigreturn, thread_stub, resumed, killed, waited, exit_next, interrupt_handler
<1>9. CASE admin_next
  BY <1>0, <1>9 DEF admin_next, NobodyDies, Alive
<1>10. CASE admin_mode \/ thread_kill \/ kill_invalid \/ handle_death \/ assert_waiter
  BY <1>0, <1>10 DEF admin_mode, thread_kill, kill_invalid, handle_death, assert_waiter
<1>11. CASE kill_call \/ thread_exit \/ exit_main
  BY <1>11, NobodyCalls DEF kill_call, thread_exit, exit_main
<1>12. CASE yield_call
  <2>1. pc'[c] = "yield" /\ UNCHANGED <<state, administrative_mode, current_thread>>
    BY <1>0, <1>12 DEF yield_call, Enter
  <2> QED BY <1>1, <2>1
<1>13. CASE thread_wait
  <2>1. pc'[c] \notin {"kill", "death"} /\ UNCHANGED <<administrative_mode, current_thread>>
    BY <1>0, <1>13 DEF thread_wait, wait_invalid, wait_exited, wait_sleep, Enter
  <2>2. \A u \in Tids : Alive(u) => Alive(u)'
    BY <1>0, <1>13 DEF thread_wait, wait_invalid, wait_exited, wait_sleep, Alive
  <2> QED BY <2>1, <2>2 DEF NobodyDies
<1>14. CASE admin_none \/ exit_none \/ create_no_memory \/ assert_interrupts
  BY <1>0, <1>1, <1>14 DEF admin_none, exit_none, create_no_memory, assert_interrupts, Stop
<1>15. CASE Mask \/ Ended
  BY <1>0, <1>1, <1>15 DEF Mask, Ended, schedVars
<1> QED
  BY <1>0, <1>4, <1>5, <1>6, <1>7, <1>8, <1>9, <1>10, <1>11, <1>12, <1>13, <1>14, <1>15
     DEF Next, Library, User, Yielding

(* A step that neither acquires nor releases a lock, nor begins to.        *)
LEMMA KeepsHolder ==
  ASSUME SyncInv, HolderOK, \A t \in Tids : Alive(t) => Alive(t)', UNCHANGED <<current, inside>>,
         \A t \in Tids \ {current_thread} : frame'[t] = frame[t],
         frame'[current_thread].mutex \in {None, frame[current_thread].mutex}
  PROVE  HolderOK'
<1>1. None \notin Locks
  BY SyncAssumption DEF Objects
<1>2. inside \in [Locks -> SUBSET Tids]
  BY DEF SyncInv, SyncTypeOK, ObjectsOK
<1> QED BY <1>1, <1>2 DEF HolderOK

LEMMA CallKeepsHolder ==
  ASSUME Disciplined, SyncInv, HolderOK, SyncLibrary \/ SyncUser
  PROVE  HolderOK'
<1> DEFINE c == current_thread
<1>0. /\ OuterStep /\ c \in Tids /\ frame \in [Tids -> Frames] /\ None \notin Locks
      /\ current \in [Locks -> Tids \cup {-1}] /\ inside \in [Locks -> SUBSET Tids]
  BY CallStep, SyncAssumption DEF SyncInv, StepOK, SyncTypeOK, TypeOK, ObjectsOK, Objects
<1>1. \A t \in Tids : Alive(t)' <=> Alive(t)
  BY <1>0 DEF OuterStep
<1>2. ASSUME UNCHANGED <<current, inside, frame>> PROVE HolderOK'
  BY <1>1, <1>2, KeepsHolder
<1>3. ASSUME UNCHANGED <<current, inside>>, NEW f, SetFrame(f), f.mutex \in {None, frame[c].mutex}
      PROVE  HolderOK'
  BY <1>0, <1>1, <1>3, KeepsHolder DEF SetFrame
<1>n. NoFrame.mutex = None
  BY DEF NoFrame
<1>4. ASSUME UNCHANGED <<current, inside>>, CallReturns PROVE HolderOK'
  BY <1>3, <1>4, <1>n DEF CallReturns, MyFrame
<1>5. CASE \/ make \/ destroy \/ lock_destroy \/ free_lock \/ make_no_memory \/ free_again
           \/ destroy_held \/ sleep_invalid \/ assert_holder
  <2>1. UNCHANGED <<current, inside, frame>>
    BY <1>5 DEF make, destroy, lock_destroy, free_lock, make_no_memory, free_again, destroy_held,
                sleep_invalid, assert_holder, Abort, syncVars
  <2> QED BY <1>2, <2>1
<1>6. CASE slept_assert \/ wake_assert \/ acquire_freed \/ wake_dead \/ thread_sleep
  <2>1. UNCHANGED <<current, inside, frame>>
    BY <1>6 DEF slept_assert, wake_assert, acquire_freed, wake_dead, thread_sleep, Abort, syncVars
  <2> QED BY <1>2, <2>1
<1>7. CASE slept \/ slept_alone \/ wake_none \/ wake
  <2>1. UNCHANGED <<current, inside>> /\ (CallReturns \/ UNCHANGED frame)
    BY <1>7 DEF slept, slept_alone, wake_none, wake, objects
  <2> QED BY <1>2, <1>4, <2>1
<1>8. ASSUME NEW o, NEW all, WakeCall(o, all, NoFrame), UNCHANGED <<current, inside>> PROVE HolderOK'
  <2>1. [NoFrame EXCEPT !.queue = o, !.all = all].mutex = None
    BY DEF NoFrame
  <2> QED BY <1>3, <1>8, <2>1 DEF WakeCall
<1>9. CASE wakeup_call \/ cv_signal \/ cv_broadcast
  BY <1>8, <1>9 DEF wakeup_call, cv_signal, cv_broadcast
<1>10. CASE sleep_call
  <2> PICK k \in SyncCall("sleep") : SetFrame([NoFrame EXCEPT !.queue = k.object])
    BY <1>10 DEF sleep_call
  <2>1. [NoFrame EXCEPT !.queue = k.object].mutex = None
    BY DEF NoFrame
  <2> QED BY <1>3, <1>10, <2>1 DEF sleep_call, objects
<1>11. CASE acquire_wait \/ cv_sleep \/ cv_woken
  <2> DEFINE m == MyFrame.mutex
  <2>1. PICK f : SetFrame(f) /\ f.mutex = m
    <3>1. MyFrame \in Frames
      BY <1>0 DEF MyFrame
    <3>2. /\ [MyFrame EXCEPT !.queue = MyFrame.mutex, !.after = "acquire"].mutex = m
          /\ [MyFrame EXCEPT !.queue = MyFrame.cond, !.after = "cv_woken"].mutex = m
          /\ [NoFrame EXCEPT !.mutex = MyFrame.mutex].mutex = m
      BY <3>1 DEF NoFrame, Frames
    <3> QED BY <1>11, <3>2 DEF acquire_wait, cv_sleep, cv_woken
  <2>2. UNCHANGED <<current, inside>>
    BY <1>11 DEF acquire_wait, cv_sleep, cv_woken, objects
  <2> QED BY <1>3, <2>1, <2>2 DEF MyFrame
<1>12. CASE acquire_call
  <2> PICK k \in SyncCall("acquire") : SetFrame([NoFrame EXCEPT !.mutex = k.lock])
    BY <1>12 DEF acquire_call
  <2>1. k.lock \in Locks /\ k.lock # None /\ c \notin inside[k.lock]
    BY <1>0, SyncArgument DEF SyncCall
  <2>2. current[k.lock] # c
    BY <1>0, <2>1, SchedulerAssumption DEF HolderOK, Tids
  <2>3. frame'[c].mutex = k.lock /\ \A t \in Tids \ {c} : frame'[t] = frame[t]
    BY <1>0 DEF SetFrame, NoFrame
  <2>4. UNCHANGED <<current, inside>>
    BY <1>12 DEF acquire_call, objects
  <2> QED BY <1>0, <1>1, <2>1, <2>2, <2>3, <2>4 DEF HolderOK
<1>13. CASE lock_acquire
  <2> DEFINE m == MyFrame.mutex
  <2>1. pc[c] = "acquire" /\ m \in Locks
    BY <1>13 DEF lock_acquire, At, SyncInv, FramesOK
  <2>2. Alive(c)
    BY <2>1, SyncAssumption DEF SyncInv, ControlOK, PathOK, LiveReturns, SyncLabels, OnOwnStack
  <2>3. /\ current' = [current EXCEPT ![m] = c] /\ inside' = [inside EXCEPT ![m] = @ \cup {c}]
        /\ frame'[c].mutex = None /\ \A t \in Tids \ {c} : frame'[t] = frame[t]
    BY <1>0, <1>13, <1>n DEF lock_acquire, SetFrame
  <2>4. current[m] = -1
    BY <1>13 DEF lock_acquire
  <2> HIDE DEF m
  <2>5. ASSUME NEW l \in Locks, l # m
        PROVE  /\ \A t \in inside'[l] : Alive(t)'
               /\ current'[l] # -1 => current'[l] \in inside'[l]
               /\ \A t \in Tids : frame'[t].mutex = l => current'[l] # t
    BY <1>0, <1>1, <2>3, <2>5 DEF HolderOK
  <2>6. /\ \A t \in inside'[m] : Alive(t)'
        /\ current'[m] # -1 => current'[m] \in inside'[m]
        /\ \A t \in Tids : frame'[t].mutex = m => current'[m] # t
    BY <1>0, <1>1, <2>1, <2>2, <2>3 DEF HolderOK
  <2> QED BY <2>5, <2>6 DEF HolderOK
<1>14. ASSUME NEW l \in Locks, NEW f \in Frames, Release(l, f), f.mutex \in {None, l} PROVE HolderOK'
  <2>1. /\ current' = [current EXCEPT ![l] = -1] /\ inside' = [inside EXCEPT ![l] = @ \ {c}]
        /\ frame'[c].mutex = f.mutex /\ \A t \in Tids \ {c} : frame'[t] = frame[t]
    BY <1>0, <1>14 DEF Release, WakeCall, SetFrame, Frames
  <2>2. ASSUME NEW k \in Locks, k # l
        PROVE  /\ \A t \in inside'[k] : Alive(t)'
               /\ current'[k] # -1 => current'[k] \in inside'[k]
               /\ \A t \in Tids : frame'[t].mutex = k => current'[k] # t
    BY <1>0, <1>1, <1>14, <2>1, <2>2 DEF HolderOK
  <2>3. -1 \notin Tids
    BY DEF Tids
  <2>4. /\ \A t \in inside'[l] : Alive(t)'
        /\ current'[l] # -1 => current'[l] \in inside'[l]
        /\ \A t \in Tids : frame'[t].mutex = l => current'[l] # t
    BY <1>0, <1>1, <2>1, <2>3 DEF HolderOK
  <2> QED BY <2>2, <2>4 DEF HolderOK
<1>15. CASE lock_release
  BY <1>14, <1>15, <1>n, SyncArgument, NoFrameType DEF lock_release
<1>16. CASE cv_wait
  <2> PICK k \in SyncCall("wait") :
         Release(k.lock, [NoFrame EXCEPT !.after = "cv_sleep", !.mutex = k.lock, !.cond = k.object])
    BY <1>16 DEF cv_wait
  <2> DEFINE g == [NoFrame EXCEPT !.after = "cv_sleep", !.mutex = k.lock, !.cond = k.object]
  <2>1. k.lock \in Locks /\ k.object \in Cvs
    BY SyncArgument
  <2>2. g \in Frames /\ g.mutex = k.lock
    BY <2>1, NoFrameType DEF NoFrame, Frames
  <2>3. Release(k.lock, g)
    OBVIOUS
  <2> HIDE DEF g
  <2> QED BY <1>14, <2>1, <2>2, <2>3
<1> QED
  BY <1>5, <1>6, <1>7, <1>9, <1>10, <1>11, <1>12, <1>13, <1>15, <1>16 DEF SyncLibrary, SyncUser

LEMMA StepHolder ==
  ASSUME Disciplined, NobodyEnds, SyncInv, NobodyDies, HolderOK, [SyncNext]_allVars
  PROVE  NobodyDies' /\ HolderOK'
<1> DEFINE c == current_thread
<1>1. CASE Alone
  <2>1. NobodyDies' /\ \A t \in Tids : Alive(t) => Alive(t)'
    BY <1>1, AloneKillsNobody
  <2>2. UNCHANGED <<current, frame>> /\ inside \in [Locks -> SUBSET Tids]
    BY <1>1 DEF Alone, SyncInv, SyncTypeOK, ObjectsOK
  <2>3. inside' = inside
    <3>1. \A l \in Locks : {t \in inside[l] : state'[t] # "Destroyed"} = inside[l]
      BY <2>1, <2>2 DEF HolderOK, Alive
    <3> QED BY <1>1, <2>2, <3>1 DEF Alone
  <2> QED BY <2>1, <2>2, <2>3, KeepsHolder
<1>2. CASE SyncLibrary \/ SyncUser
  <2>1. OuterStep
    BY <1>2, CallStep DEF SyncInv, StepOK
  <2>2. NobodyDies'
    BY <2>1 DEF OuterStep, NobodyDies, SyncLabels, admin
  <2> QED BY <1>2, <2>2, CallKeepsHolder
<1>3. CASE UNCHANGED allVars
  BY <1>3 DEF allVars, schedVars, syncVars, NobodyDies, HolderOK, Alive
<1> QED BY <1>1, <1>2, <1>3 DEF SyncNext

LEMMA InitHolder == SyncInit => NobodyDies /\ HolderOK
<1> SUFFICES ASSUME SyncInit PROVE NobodyDies /\ HolderOK
  OBVIOUS
<1>1. 0 \in Tids /\ None \notin Locks /\ -1 \notin Tids
  BY SchedulerAssumption, SyncAssumption DEF Tids, Objects
<1>2. NobodyDies
  BY <1>1 DEF SyncInit, Init, NobodyDies
<1>3. HolderOK
  BY <1>1 DEF SyncInit, HolderOK
<1> QED BY <1>2, <1>3

(* In a disciplined program in which no thread ends, a lock is held by a   *)
(* thread that has acquired it, lives, and is in no call that waits for it *)
(* or is to acquire it: cv_wait names the lock in its frame only after it  *)
(* has given it up.                                                        *)
THEOREM HoldersAreInside == ASSUME Disciplined, NobodyEnds PROVE SyncSpec => []HolderOK
  BY InitHolder, StepHolder, SyncInvAlways, PTL DEF SyncSpec

(* So the holder of a lock can give it up.                                 *)
THEOREM HoldersCanRelease == ASSUME Disciplined, NobodyEnds PROVE SyncSpec => []HolderNotStuck
<1>1. SyncInv /\ HolderOK => HolderNotStuck
  <2> SUFFICES ASSUME SyncInv, HolderOK, NEW l \in Locks, current[l] # -1
               PROVE  /\ state[current[l]] # "Destroyed"
                      /\ \A o \in Objects : AsleepOn(current[l], o) => frame[current[l]].mutex # l
    BY DEF HolderNotStuck
  <2>1. current[l] \in Tids
    BY DEF SyncInv, SyncTypeOK, ObjectsOK
  <2> QED BY <2>1 DEF HolderOK, Alive
<1> QED BY <1>1, HoldersAreInside, SyncInvAlways, PTL

------------------------------------------------------------------------------
(* The frames of the calls, and what they say at the labels of the running *)
(* thread.                                                                 *)
FrameOK(f) ==
  /\ f.after = "return" => f.cond = None
  /\ f.after = "acquire" => f.cond = None /\ f.queue = f.mutex
  /\ f.after = "cv_sleep" => f.queue = f.mutex
  /\ f.after = "cv_woken" => f.queue = f.cond
PlaceOK ==
  LET c == current_thread IN
  /\ pc[c] = "sleep" /\ MyFrame.after = "return" => MyFrame.queue \in Queues
  /\ pc[c] = "acquire" => MyFrame.after \in {"return", "acquire"}
  /\ pc[c] = "wakeup" =>
       /\ MyFrame.after \in {"return", "cv_sleep"}
       /\ MyFrame.queue \in Cvs => \E l \in Locks : current[l] = c
  /\ pc[c] = "slept" /\ ret[c] = THREAD_NONE => \A t \in Tids \ {c} : state[t] # "Running"
CallsOK ==
  ~ overflowed =>
    /\ refused = {}
    /\ \A t \in Tids : FrameOK(frame[t])
    /\ \A t \in Tids : frame[t].after = "cv_sleep" =>
         t = current_thread /\ pc[t] \in {"wakeup", "cv_sleep"}
    /\ PlaceOK

(* What the steps of Scheduler do to sleepers where nobody ends: they put  *)
(* nobody to sleep and wake nobody.                                        *)
LEMMA AloneSleeps ==
  ASSUME OrderlyProgram, NobodyEnds, SyncInv, SleepOK, NobodyDies, ~ overflowed, Alone,
         status = "running"
  PROVE  /\ \/ At("user") /\ \E t \in Tids : create_thread(t)
            \/ UNCHANGED state /\ \A t \in Tids : state[t] = "Sleep" => back'[t] = back[t]
         /\ refused = {} /\ ~ overflowed' => refused' = {}
         /\ pc'[current_thread] = "slept" /\ ret'[current_thread] = THREAD_NONE
              => yield_none \/ current_thread' # current_thread
<1> DEFINE c == current_thread
           Quiet == /\ \/ At("user") /\ \E t \in Tids : create_thread(t)
                       \/ UNCHANGED state /\ \A t \in Tids : state[t] = "Sleep" => back'[t] = back[t]
                    /\ refused = {} /\ ~ overflowed' => refused' = {}
                    /\ pc'[c] = "slept" /\ ret'[c] = THREAD_NONE
                         => yield_none \/ current_thread' # c
<1> USE DEF At, Goto, table, history
<1>0. /\ Next /\ c \in Tids /\ pc \in [Tids -> Labels] /\ back \in [Tids -> OwnReturns \cup {"slept"}]
      /\ ret \in [Tids -> Int] /\ ~ administrative_mode /\ pc[c] \notin {"kill", "death", "slept"}
      /\ state[c] = "Sleep" => pc[c] = "yield"
      /\ pc[c] = "yield" /\ back[c] = "slept" => want[c] = THREAD_ANY
      /\ pc[c] = "resumed" /\ back[c] = "slept" => want[c] # THREAD_NONE
  <2>1. Next
    BY DEF Alone
  <2>2. pc[c] \notin SyncLabels
    BY <2>1, AloneLabels DEF SyncInv
  <2> QED BY <2>1, <2>2, SleepParts DEF SyncInv, SyncTypeOK, TypeOK, NobodyDies, Comeback, Sleepers, SyncLabels
<1>1. CASE Return \/ sigreturn \/ thread_stub \/ killed \/ waited \/ exit_next \/ admin_next
           \/ interrupt_handler
  BY <1>0, <1>1 DEF Return, sigreturn, thread_stub, killed, waited, exit_next, admin_next,
     interrupt_handler, LeaveLocals, locals
<1>2. CASE resumed
  BY <1>0, <1>2 DEF resumed, Answer
<1>3. CASE yield_self \/ yield_invalid
  <2>1. UNCHANGED <<state, back, refused>> /\ pc' = [pc EXCEPT ![c] = back[c]]
    BY <1>3 DEF yield_self, yield_invalid, YieldReturns
  <2>2. back[c] # "slept"
    BY <1>0, <1>3 DEF yield_self, yield_invalid, THREAD_SELF, THREAD_ANY, Tids
  <2> QED BY <1>0, <2>1, <2>2
<1>4. CASE yield_none
  BY <1>0, <1>4 DEF yield_none, YieldReturns
<1>5. ASSUME NEW t \in Tids, NEW q, SwitchTo(t, q) PROVE Quiet
  <2>1. UNCHANGED <<state, back>> /\ pc'[c] = "resumed"
    BY <1>0, <1>5 DEF SwitchTo
  <2>2. refused = {} /\ ~ overflowed' => refused' = {}
    BY <1>5 DEF SwitchTo, Overflows, Refused
  <2> QED BY <2>1, <2>2
<1>6. CASE yield_any
  <2> PICK i \in 1 .. Len(thread_queue) :
        SwitchTo(thread_queue[i], SubSeq(thread_queue, i + 1, Len(thread_queue)))
    BY <1>6 DEF yield_any
  <2>1. thread_queue[i] \in Tids
    BY DEF SyncInv, SyncTypeOK, TypeOK
  <2> QED BY <1>5, <2>1
<1>7. CASE yield_to
  BY <1>5, <1>7 DEF yield_to, Available
<1>8. CASE thread_create
  <2>1. CASE create_no_more
    BY <1>0, <1>8, <2>1 DEF create_no_more, Enter, thread_create
  <2>2. ASSUME NEW t \in Tids, create_thread(t) PROVE Quiet
    <3>1. pc'[c] \in {"stub", "return"}
      BY <1>0, <2>2 DEF create_thread
    <3>2. refused = {} /\ ~ overflowed' => refused' = {}
      BY <2>2 DEF create_thread, Overflows, Refused
    <3> QED BY <1>8, <2>2, <3>1, <3>2 DEF thread_create
  <2> QED BY <1>8, <2>1, <2>2 DEF thread_create
<1>9. CASE admin_mode \/ thread_kill \/ kill_invalid \/ handle_death \/ assert_waiter
  BY <1>0, <1>9 DEF admin_mode, thread_kill, kill_invalid, handle_death, assert_waiter
<1>10. CASE kill_call \/ thread_exit \/ exit_main
  BY <1>10, NobodyCalls DEF kill_call, thread_exit, exit_main
<1>11. CASE Mask \/ thread_wait
  BY <1>11, OrderlyCalls DEF Mask, thread_wait
<1>12. CASE yield_call
  <2>1. UNCHANGED <<state, refused>> /\ pc'[c] = "yield" /\ pc[c] = "user"
        /\ \A t \in Tids \ {c} : back'[t] = back[t]
    BY <1>0, <1>12 DEF yield_call, Enter
  <2> QED BY <1>0, <2>1
<1>13. CASE admin_none \/ exit_none \/ create_no_memory \/ assert_interrupts
  BY <1>0, <1>13 DEF admin_none, exit_none, create_no_memory, assert_interrupts, Stop, locals
<1>14. CASE Ended
  BY <1>14 DEF Ended
<1> QED
  BY <1>0, <1>1, <1>2, <1>3, <1>4, <1>6, <1>7, <1>8, <1>9, <1>10, <1>11, <1>12, <1>13, <1>14
     DEF Next, Library, User, Yielding

LEMMA AloneKeepsCalls ==
  ASSUME OrderlyProgram, NobodyEnds, SyncInv, SleepOK, NobodyDies, NoLostThread, CallsOK,
         ~ overflowed, Alone
  PROVE  CallsOK'
<1> DEFINE c == current_thread
<1> SUFFICES ASSUME ~ overflowed' PROVE CallsOK'
  BY DEF CallsOK
<1>0. /\ refused = {} /\ PlaceOK /\ \A t \in Tids : FrameOK(frame[t])
      /\ \A t \in Tids : frame[t].after = "cv_sleep" => t = c /\ pc[t] \in {"wakeup", "cv_sleep"}
  BY DEF CallsOK
<1>1. Next /\ UNCHANGED <<current, frame>>
  BY DEF Alone
<1>2. CASE status # "running"
  <2>1. UNCHANGED <<pc, ret, state, current_thread, refused>>
    BY <1>1, <1>2 DEF Next, Library, User, interrupt_handler, Ended, schedVars, Yielding, Return, sigreturn,
       thread_stub, yield_self, yield_any, yield_none, yield_to, yield_invalid, resumed, admin_mode,
       admin_next, admin_none, thread_kill, kill_invalid, killed, handle_death, assert_waiter,
       exit_next, exit_none, waited, Mask, thread_create, create_no_memory, assert_interrupts,
       yield_call, kill_call, thread_exit, exit_main, thread_wait, wait_invalid, wait_exited,
       wait_sleep, wait_call, At
  <2>2. PlaceOK'
    BY <1>0, <1>1, <2>1 DEF PlaceOK, MyFrame
  <2> QED BY <1>0, <1>1, <2>1, <2>2 DEF CallsOK, FrameOK
<1>3. CASE status = "running"
  <2>1. pc[c] \notin SyncLabels
    BY <1>1, <1>3, AloneLabels DEF SyncInv
  <2>2. pc'[current_thread'] \in SyncLabels => current_thread' = c /\ pc'[c] = "slept"
    BY <1>1, <1>3, AloneLabels DEF SyncInv
  <2>3. \A t \in Tids : frame[t].after # "cv_sleep"
    BY <1>0, <2>1 DEF SyncLabels
  <2>4. refused' = {}
    BY <1>0, <1>3, AloneSleeps
  <2>5. ASSUME current_thread' = c, pc'[c] = "slept", ret'[c] = THREAD_NONE
        PROVE  \A t \in Tids \ {c} : state'[t] # "Running"
    <3>1. yield_none
      BY <1>3, <2>5, AloneSleeps
    <3>2. UNCHANGED state /\ want[c] = THREAD_ANY
      BY <3>1 DEF yield_none, YieldReturns, table
    <3>3. \A i \in 1 .. Len(thread_queue) : ~ Runnable(thread_queue[i])
      BY <3>1 DEF yield_none
    <3>4. ASSUME NEW t \in Tids \ {c}, state[t] = "Running" PROVE FALSE
      <4>1. Queued(t) \/ YieldingTo(t)
        BY <1>0, <3>4 DEF NoLostThread
      <4>2. ~ YieldingTo(t)
        BY <3>2 DEF YieldingTo, THREAD_ANY, Tids
      <4> QED BY <3>3, <3>4, <4>1, <4>2 DEF Queued, Runnable
    <3> QED BY <3>2, <3>4
  <2>6. PlaceOK'
    BY <2>2, <2>5 DEF PlaceOK, SyncLabels
  <2> QED BY <1>0, <1>1, <2>3, <2>4, <2>6 DEF CallsOK, FrameOK
<1> QED BY <1>2, <1>3

(* A synchronisation call that goes on with frame f.                       *)
LEMMA CallFrame ==
  ASSUME SyncInv, CallsOK, ~ overflowed, OuterStep, refused' = {},
         NEW f, frame' = [frame EXCEPT ![current_thread] = f], FrameOK(f),
         NEW at, at = pc'[current_thread],
         f.after = "cv_sleep" => at \in {"wakeup", "cv_sleep"},
         at = "sleep" /\ f.after = "return" => f.queue \in Queues,
         at = "acquire" => f.after \in {"return", "acquire"},
         at = "wakeup" =>
           /\ f.after \in {"return", "cv_sleep"}
           /\ f.queue \in Cvs => \E l \in Locks : current'[l] = current_thread,
         at # "slept"
  PROVE  CallsOK'
<1> DEFINE c == current_thread
<1>0. /\ c \in Tids /\ current_thread' = c /\ frame \in [Tids -> Frames]
      /\ pc' = [pc EXCEPT ![c] = at] /\ pc \in [Tids -> Labels]
  BY DEF SyncInv, SyncTypeOK, TypeOK, ObjectsOK, OuterStep
<1>1. frame'[c] = f /\ \A t \in Tids \ {c} : frame'[t] = frame[t]
  BY <1>0
<1>2. PlaceOK'
  BY <1>0, <1>1 DEF PlaceOK, MyFrame
<1>3. \A t \in Tids : FrameOK(frame'[t])
  BY <1>1 DEF CallsOK
<1>4. \A t \in Tids : frame'[t].after = "cv_sleep" => t = c /\ pc'[t] \in {"wakeup", "cv_sleep"}
  BY <1>0, <1>1 DEF CallsOK
<1> QED BY <1>0, <1>2, <1>3, <1>4 DEF CallsOK, FrameOK

LEMMA ReturnFrame ==
  ASSUME SyncInv, CallsOK, ~ overflowed, OuterStep, refused' = {}, CallReturns, 
         current_thread \in Tids, pc[current_thread] \in {"slept", "wakeup"}
  PROVE  CallsOK'
<1> DEFINE c == current_thread
           f == frame'[c]
<1>0. /\ frame \in [Tids -> Frames] /\ pc \in [Tids -> Labels] /\ None \notin Objects
      /\ FrameOK(frame[c]) /\ PlaceOK
      /\ frame[c].after = "cv_sleep" => pc[c] \in {"wakeup", "cv_sleep"}
  BY SyncAssumption DEF SyncInv, SyncTypeOK, TypeOK, ObjectsOK, CallsOK
<1>1. /\ pc'[c] = frame[c].after /\ frame' = [frame EXCEPT ![c] = f]
      /\ f = IF frame[c].after = "return" THEN NoFrame ELSE frame[c]
      /\ frame[c].after \in {"return", "acquire", "cv_sleep", "cv_woken"}
  BY <1>0 DEF CallReturns, SetFrame, MyFrame, Goto, Frames
<1>2. FrameOK(f)
  BY <1>0, <1>1 DEF FrameOK, NoFrame
<1>3. f.after = frame[c].after
  BY <1>1 DEF NoFrame
<1> HIDE DEF f
<1> QED BY <1>0, <1>1, <1>2, <1>3, CallFrame

LEMMA CallKeepsCalls ==
  ASSUME SyncInv, SleepOK, CallsOK, ~ overflowed, SyncLibrary \/ SyncUser
  PROVE  CallsOK'
<1> DEFINE c == current_thread
<1> SUFFICES ASSUME ~ overflowed' PROVE CallsOK'
  BY DEF CallsOK
<1> USE DEF At
<1>0. /\ OuterStep /\ c \in Tids /\ frame \in [Tids -> Frames] /\ frame[c] \in Frames
      /\ pc \in [Tids -> Labels] /\ current_thread' = c
      /\ refused = {} /\ PlaceOK /\ FrameOK(frame[c]) /\ FrameOK(NoFrame)
      /\ frame[c].after = "cv_sleep" => pc[c] \in {"wakeup", "cv_sleep"}
  <2>1. OuterStep /\ c \in Tids /\ frame \in [Tids -> Frames] /\ pc \in [Tids -> Labels]
    BY CallStep DEF SyncInv, StepOK, SyncTypeOK, TypeOK, ObjectsOK
  <2>2. FrameOK(NoFrame)
    BY DEF FrameOK, NoFrame
  <2> QED BY <2>1, <2>2 DEF CallsOK, OuterStep
<1>1. refused' = {}
  <2>1. CASE wake
    BY <1>0, <2>1 DEF wake, Overflows, Refused
  <2>2. CASE ~ wake
    BY <1>0, <2>2 DEF SyncLibrary, SyncUser, thread_sleep, slept, slept_alone, slept_assert, wake_dead,
       wake_assert, wake_none, lock_acquire, acquire_wait, acquire_freed, cv_sleep, cv_woken, make,
       destroy, lock_destroy, free_lock, make_no_memory, free_again, destroy_held, sleep_invalid,
       sleep_call, wakeup_call, acquire_call,
       lock_release, assert_holder, cv_wait, cv_signal, cv_broadcast, WakeCall, Release, Abort, Stop,
       history, schedVars
  <2> QED BY <2>1, <2>2
<1>2. ASSUME UNCHANGED <<pc, ret, state, current, frame>> PROVE CallsOK'
  <2>1. PlaceOK'
    BY <1>0, <1>2 DEF PlaceOK, MyFrame
  <2>2. UNCHANGED current_thread
    BY <1>0
  <2> HIDE DEF c
  <2> QED BY <1>1, <1>2, <2>1, <2>2 DEF CallsOK, FrameOK
<1>3. CASE make \/ destroy \/ lock_destroy \/ free_lock \/ wake_dead
  BY <1>2, <1>3 DEF make, destroy, lock_destroy, free_lock, wake_dead, schedVars
<1>4. CASE \/ destroy_held \/ make_no_memory \/ free_again \/ assert_holder \/ slept_assert
           \/ wake_assert \/ acquire_freed
  BY <1>2, <1>4 DEF destroy_held, make_no_memory, free_again, assert_holder, slept_assert,
                    wake_assert, acquire_freed, Abort, Stop,
     syncVars, locals, table
<1>5. CASE slept \/ slept_alone \/ wake_none
  BY <1>0, <1>1, <1>5, ReturnFrame DEF slept, slept_alone, wake_none
<1>6. CASE wake
  <2>1. CASE ~ MyFrame.all
    BY <1>0, <1>1, <1>6, <2>1, ReturnFrame DEF wake
  <2>2. CASE MyFrame.all
    <3>1. UNCHANGED <<pc, frame, current>> /\ pc[c] = "wakeup"
      BY <1>6, <2>2 DEF wake
    <3>2. PlaceOK'
      BY <1>0, <3>1 DEF PlaceOK, MyFrame
    <3>3. UNCHANGED current_thread
      BY <1>0
    <3> HIDE DEF c
    <3> QED BY <1>1, <3>1, <3>2, <3>3 DEF CallsOK, FrameOK
  <2> QED BY <2>1, <2>2
<1>7. CASE thread_sleep
  <2>1. /\ UNCHANGED <<frame, current>> /\ pc'[c] = "yield" /\ pc[c] = "sleep"
        /\ \A t \in Tids \ {c} : pc'[t] = pc[t]
    BY <1>0, <1>7 DEF thread_sleep, Goto
  <2>2. PlaceOK'
    BY <1>0, <2>1 DEF PlaceOK
  <2>3. \A t \in Tids : frame[t].after # "cv_sleep"
    BY <2>1 DEF CallsOK
  <2> QED BY <1>0, <1>1, <2>1, <2>2, <2>3 DEF CallsOK, FrameOK
<1>8. CASE lock_acquire
  <2>1. frame' = [frame EXCEPT ![c] = NoFrame] /\ pc'[c] = "return" /\ NoFrame.after = "return"
    BY <1>0, <1>8 DEF lock_acquire, SetFrame, Goto, NoFrame
  <2> QED BY <1>0, <1>1, <2>1, CallFrame
<1>9. CASE acquire_wait
  <2> DEFINE f == [frame[c] EXCEPT !.queue = frame[c].mutex, !.after = "acquire"]
  <2>1. frame' = [frame EXCEPT ![c] = f] /\ pc'[c] = "sleep" /\ pc[c] = "acquire"
    BY <1>0, <1>9 DEF acquire_wait, SetFrame, Goto, MyFrame
  <2>2. f.after = "acquire" /\ f.queue = f.mutex /\ f.cond = frame[c].cond
    BY <1>0 DEF Frames
  <2>3. f.cond = None
    BY <1>0, <2>1, <2>2 DEF PlaceOK, FrameOK, MyFrame
  <2> HIDE DEF f
  <2> QED BY <1>0, <1>1, <2>1, <2>2, <2>3, CallFrame DEF FrameOK
<1>10. CASE cv_sleep
  <2> DEFINE f == [frame[c] EXCEPT !.queue = frame[c].cond, !.after = "cv_woken"]
  <2>1. frame' = [frame EXCEPT ![c] = f] /\ pc'[c] = "sleep"
    BY <1>0, <1>10 DEF cv_sleep, SetFrame, Goto, MyFrame
  <2>2. f.after = "cv_woken" /\ f.queue = f.cond
    BY <1>0 DEF Frames
  <2> HIDE DEF f
  <2> QED BY <1>0, <1>1, <2>1, <2>2, CallFrame DEF FrameOK
<1>11. CASE cv_woken
  <2> DEFINE f == [NoFrame EXCEPT !.mutex = frame[c].mutex]
  <2>1. frame' = [frame EXCEPT ![c] = f] /\ pc'[c] = "acquire"
    BY <1>0, <1>11 DEF cv_woken, SetFrame, Goto, MyFrame
  <2>2. f.after = "return" /\ f.cond = None
    BY DEF NoFrame
  <2> HIDE DEF f
  <2> QED BY <1>0, <1>1, <2>1, <2>2, CallFrame DEF FrameOK
<1>12. CASE sleep_invalid
  <2>1. UNCHANGED <<frame, current>> /\ pc'[c] = "return" /\ pc[c] = "user"
        /\ \A t \in Tids \ {c} : pc'[t] = pc[t]
    BY <1>0, <1>12 DEF sleep_invalid, Enter, Goto, syncVars
  <2>2. PlaceOK'
    BY <1>0, <2>1 DEF PlaceOK
  <2>3. \A t \in Tids : frame[t].after # "cv_sleep"
    BY <2>1 DEF CallsOK
  <2> QED BY <1>0, <1>1, <2>1, <2>2, <2>3 DEF CallsOK, FrameOK
<1>13. CASE sleep_call
  <2> PICK k \in SyncCall("sleep") : k.object # None /\ SetFrame([NoFrame EXCEPT !.queue = k.object])
    BY <1>13 DEF sleep_call
  <2> DEFINE f == [NoFrame EXCEPT !.queue = k.object]
  <2>1. frame' = [frame EXCEPT ![c] = f] /\ pc'[c] = "sleep"
    BY <1>0, <1>13 DEF sleep_call, SetFrame, Enter, Goto
  <2>2. f.after = "return" /\ f.cond = None /\ f.queue = k.object
    BY DEF NoFrame
  <2>3. k.object \in Queues
    BY SyncArgument
  <2> HIDE DEF f
  <2> QED BY <1>0, <1>1, <2>1, <2>2, <2>3, CallFrame DEF FrameOK
<1>14. CASE acquire_call
  <2> PICK k \in SyncCall("acquire") : SetFrame([NoFrame EXCEPT !.mutex = k.lock])
    BY <1>14 DEF acquire_call
  <2> DEFINE f == [NoFrame EXCEPT !.mutex = k.lock]
  <2>1. frame' = [frame EXCEPT ![c] = f] /\ pc'[c] = "acquire"
    BY <1>0, <1>14 DEF acquire_call, SetFrame, Enter, Goto
  <2>2. f.after = "return" /\ f.cond = None
    BY DEF NoFrame
  <2> HIDE DEF f
  <2> QED BY <1>0, <1>1, <2>1, <2>2, CallFrame DEF FrameOK
<1>15. ASSUME NEW o, NEW all, WakeCall(o, all, NoFrame),
              o \in Cvs => \E l \in Locks : current'[l] = c
       PROVE  CallsOK'
  <2> DEFINE f == [NoFrame EXCEPT !.queue = o, !.all = all]
  <2>1. frame' = [frame EXCEPT ![c] = f] /\ pc'[c] = "wakeup"
    BY <1>0, <1>15 DEF WakeCall, SetFrame, Enter, Goto
  <2>2. f.after = "return" /\ f.cond = None /\ f.queue = o
    BY DEF NoFrame
  <2> HIDE DEF f
  <2> QED BY <1>0, <1>1, <1>15, <2>1, <2>2, CallFrame DEF FrameOK
<1>16. CASE wakeup_call
  <2> PICK all \in BOOLEAN : \E k \in SyncCall(IF all THEN "wakeup_all" ELSE "wakeup") :
         WakeCall(k.object, all, NoFrame)
    BY <1>16 DEF wakeup_call
  <2> PICK k \in SyncCall(IF all THEN "wakeup_all" ELSE "wakeup") : WakeCall(k.object, all, NoFrame)
    OBVIOUS
  <2>1. k.object \in Queues /\ k.object \notin Cvs
    BY SyncArgument, SyncAssumption
  <2> QED BY <1>15, <2>1
<1>17. CASE cv_signal
  <2> PICK k \in SyncCall("signal") :
         current[k.lock] = c /\ WakeCall(k.object, FALSE, NoFrame)
    BY <1>17 DEF cv_signal
  <2>1. k.lock \in Locks /\ UNCHANGED current
    BY <1>17, SyncArgument DEF cv_signal
  <2> QED BY <1>15, <2>1
<1>18. CASE cv_broadcast
  <2> PICK k \in SyncCall("broadcast") :
         current[k.lock] = c /\ WakeCall(k.object, TRUE, NoFrame)
    BY <1>18 DEF cv_broadcast
  <2>1. k.lock \in Locks /\ UNCHANGED current
    BY <1>18, SyncArgument DEF cv_broadcast
  <2> QED BY <1>15, <2>1
<1>19. CASE lock_release
  <2> PICK k \in SyncCall("release") : Release(k.lock, NoFrame)
    BY <1>19 DEF lock_release
  <2>1. k.lock \notin Cvs
    BY SyncArgument, SyncAssumption
  <2> QED BY <1>15, <2>1 DEF Release
<1>20. CASE cv_wait
  <2> PICK k \in SyncCall("wait") :
         Release(k.lock, [NoFrame EXCEPT !.after = "cv_sleep", !.mutex = k.lock, !.cond = k.object])
    BY <1>20 DEF cv_wait
  <2> DEFINE g == [NoFrame EXCEPT !.after = "cv_sleep", !.mutex = k.lock, !.cond = k.object]
             f == [g EXCEPT !.queue = k.lock, !.all = TRUE]
  <2>1. frame' = [frame EXCEPT ![c] = f] /\ pc'[c] = "wakeup"
    BY <1>0 DEF Release, WakeCall, SetFrame, Enter, Goto
  <2>2. f.after = "cv_sleep" /\ f.queue = k.lock /\ f.mutex = k.lock
    BY DEF NoFrame
  <2>3. k.lock \notin Cvs
    BY SyncArgument, SyncAssumption
  <2> HIDE DEF f
  <2> QED BY <1>0, <1>1, <2>1, <2>2, <2>3, CallFrame DEF FrameOK
<1> QED
  BY <1>3, <1>4, <1>5, <1>6, <1>7, <1>8, <1>9, <1>10, <1>11, <1>12, <1>13, <1>14, <1>16, <1>17, <1>18,
     <1>19, <1>20 DEF SyncLibrary, SyncUser

------------------------------------------------------------------------------
(* The steps of Monitor, in the terms of its refinement mapping. *)
LEMMA Starts ==
  ASSUME NEW t \in Tids, t \notin Living, Living' = Living \cup {t},
         UNCHANGED <<current, BlockedOn, Lines, Elsewhere>>
  PROVE  M!Next
<1>1. M!Start(t)
  BY DEF M!Start
<1> QED BY <1>1 DEF M!Next

LEMMA Acquires ==
  ASSUME NEW t \in Tids, NEW l \in Locks, M!Runs(t), current[l] = -1,
         current' = [current EXCEPT ![l] = t], UNCHANGED <<Living, BlockedOn, Lines, Elsewhere>>
  PROVE  M!Next
<1>1. M!Acquire(t, l)
  BY DEF M!Acquire
<1> QED BY <1>1 DEF M!Next

LEMMA Blocks ==
  ASSUME NEW t \in Tids, NEW l \in Locks, M!Runs(t), current[l] \notin {-1, t},
         BlockedOn' = [BlockedOn EXCEPT ![l] = BlockedOn[l] \cup {t}],
         UNCHANGED <<Living, current, Lines, Elsewhere>>
  PROVE  M!Next
<1>1. M!Block(t, l)
  BY DEF M!Block
<1> QED BY <1>1 DEF M!Next

LEMMA Releases ==
  ASSUME NEW t \in Tids, NEW l \in Locks, M!Runs(t), current[l] = t,
         current' = [current EXCEPT ![l] = -1], BlockedOn' = [BlockedOn EXCEPT ![l] = {}],
         UNCHANGED <<Living, Lines, Elsewhere>>
  PROVE  M!Next
<1>1. M!Release(t, l)
  BY DEF M!Release, M!Released
<1> QED BY <1>1 DEF M!Next

LEMMA Waits ==
  ASSUME NEW t \in Tids, NEW l \in Locks, NEW v \in Cvs, M!Runs(t), current[l] = t,
         current' = [current EXCEPT ![l] = -1], BlockedOn' = [BlockedOn EXCEPT ![l] = {}],
         Lines' = [Lines EXCEPT ![v] = Append(Lines[v], t)], UNCHANGED <<Living, Elsewhere>>
  PROVE  M!Next
<1>1. M!Wait(t, v, l)
  BY DEF M!Wait, M!Released
<1> QED BY <1>1 DEF M!Next

LEMMA Signals ==
  ASSUME NEW t \in Tids, NEW l \in Locks, NEW v \in Cvs, M!Runs(t), current[l] = t, Lines[v] # <<>>,
         \/ Lines' = [Lines EXCEPT ![v] = Tail(Lines[v])]
         \/ Lines' = [Lines EXCEPT ![v] = <<>>],
         UNCHANGED <<Living, current, BlockedOn, Elsewhere>>
  PROVE  M!Next
<1>1. M!Wake(v, l)
  BY DEF M!Wake
<1> QED BY <1>1 DEF M!Next

LEMMA Leaves ==
  ASSUME NEW t \in Tids, M!Runs(t), Elsewhere' = Elsewhere \cup {t},
         UNCHANGED <<Living, current, BlockedOn, Lines>>
  PROVE  M!Next
<1>1. M!Leave(t)
  BY DEF M!Leave
<1> QED BY <1>1 DEF M!Next

LEMMA ComesBack ==
  ASSUME NEW t \in Tids, t \in Elsewhere, Elsewhere' = Elsewhere \ {t},
         UNCHANGED <<Living, current, BlockedOn, Lines>>
  PROVE  M!Next
<1>1. M!ComeBack(t)
  BY DEF M!ComeBack
<1> QED BY <1>1 DEF M!Next

LEMMA GivesUpLock ==
  ASSUME NEW t \in Tids, NEW l \in Locks, M!Deadlock, t \in BlockedOn[l],
         BlockedOn' = [BlockedOn EXCEPT ![l] = BlockedOn[l] \ {t}],
         UNCHANGED <<Living, current, Lines, Elsewhere>>
  PROVE  M!Next
<1>1. M!GiveUpLock(t, l)
  BY DEF M!GiveUpLock
<1> QED BY <1>1 DEF M!Next

LEMMA GivesUpWait ==
  ASSUME NEW t \in Tids, NEW v \in Cvs, M!Deadlock, Lines[v] # <<>>, Lines[v][Len(Lines[v])] = t,
         Lines' = [Lines EXCEPT ![v] = SubSeq(Lines[v], 1, Len(Lines[v]) - 1)],
         UNCHANGED <<Living, current, BlockedOn, Elsewhere>>
  PROVE  M!Next
<1>1. M!GiveUpWait(t, v)
  BY DEF M!GiveUpWait
<1> QED BY <1>1 DEF M!Next

------------------------------------------------------------------------------
(* What a step changes of the mapping. *)
LEMMA LivingKept == ASSUME \A t \in Tids : Alive(t)' <=> Alive(t) PROVE Living' = Living
  BY DEF Living

LEMMA BlockedKept ==
  ASSUME \A l \in Locks : \A t \in Tids :
           (EntryOf(t, l) /\ ~ WakingAll(l))' <=> EntryOf(t, l) /\ ~ WakingAll(l)
  PROVE  BlockedOn' = BlockedOn
  BY DEF BlockedOn

LEMMA BlockedAt ==
  ASSUME NEW l \in Locks, NEW S \in SUBSET Tids,
         \A x \in Locks \ {l} : \A t \in Tids :
           (EntryOf(t, x) /\ ~ WakingAll(x))' <=> EntryOf(t, x) /\ ~ WakingAll(x),
         \A t \in Tids : (EntryOf(t, l) /\ ~ WakingAll(l))' <=> t \in S
  PROVE  BlockedOn' = [BlockedOn EXCEPT ![l] = S]
<1>1. \A x \in Locks : BlockedOn'[x] = IF x = l THEN S ELSE BlockedOn[x]
  BY DEF BlockedOn
<1>2. BlockedOn' = [x \in Locks |-> BlockedOn'[x]] /\ BlockedOn = [x \in Locks |-> BlockedOn[x]]
  BY DEF BlockedOn
<1> QED BY <1>1, <1>2

LEMMA ElsewhereKept ==
  ASSUME \A q \in Queues : \A t \in Tids : EntryOf(t, q)' <=> EntryOf(t, q)
  PROVE  Elsewhere' = Elsewhere
  BY DEF Elsewhere

LEMMA Joined ==
  ASSUME NEW q \in Seq(Tids), NEW t \in Tids
  PROVE  /\ q \o <<>> = q /\ <<>> \o <<>> = <<>>
         /\ q \o <<t>> = Append(q, t)
  OBVIOUS

LEMMA LineValue ==
  ASSUME SyncInv, NEW v \in Cvs
  PROVE  /\ ~ GoingToWait(v) => Lines[v] = IF WakingAll(v) THEN <<>> ELSE wq[v]
         /\ GoingToWait(v) /\ ~ WakingAll(v) => Lines[v] = Append(wq[v], current_thread)
<1>1. wq[v] \in Seq(Tids) /\ current_thread \in Tids
  BY DEF SyncInv, SyncTypeOK, TypeOK, ObjectsOK, Objects
<1> QED BY <1>1, Joined DEF Lines

LEMMA LineValueNext ==
  ASSUME SyncInv', NEW v \in Cvs
  PROVE  /\ ~ GoingToWait(v)' => Lines'[v] = IF WakingAll(v)' THEN <<>> ELSE wq'[v]
         /\ GoingToWait(v)' /\ ~ WakingAll(v)' => Lines'[v] = Append(wq'[v], current_thread')
<1>1. wq'[v] \in Seq(Tids) /\ current_thread' \in Tids
  BY DEF SyncInv, SyncTypeOK, TypeOK, ObjectsOK, Objects
<1> QED BY <1>1, Joined DEF Lines

LEMMA LinesKept ==
  ASSUME \A v \in Cvs : Lines'[v] = Lines[v]
  PROVE  Lines' = Lines
<1>1. Lines' = [v \in Cvs |-> Lines'[v]] /\ Lines = [v \in Cvs |-> Lines[v]]
  BY DEF Lines
<1> QED BY <1>1

LEMMA LineAt ==
  ASSUME NEW v \in Cvs, NEW s, \A x \in Cvs \ {v} : Lines'[x] = Lines[x], Lines'[v] = s
  PROVE  Lines' = [Lines EXCEPT ![v] = s]
<1>1. Lines' = [x \in Cvs |-> Lines'[x]] /\ Lines = [x \in Cvs |-> Lines[x]]
  BY DEF Lines
<1> QED BY <1>1

(* The running thread is stopped only on its way into a cv_wait.           *)
LEMMA RunningRuns ==
  ASSUME SyncInv, SleepOK, ~ overflowed, NEW c, c = current_thread, Alive(c), state[c] # "Sleep",
         \A v \in Cvs : ~ GoingToWait(v)
  PROVE  M!Runs(c)
<1>1. c \in Tids /\ wq \in [Objects -> Seq(Tids)]
  BY DEF SyncInv, SyncTypeOK, TypeOK, ObjectsOK
<1>2. \A o : ~ EntryOf(c, o)
  BY DEF EntryOf
<1>3. c \in Living
  BY <1>1 DEF Living
<1>4. \A l \in Locks : c \notin BlockedOn[l]
  BY <1>2 DEF BlockedOn
<1>5. c \notin Elsewhere
  BY <1>2 DEF Elsewhere
<1>6. ASSUME NEW v \in Cvs PROVE ~ M!Waits(c, v)
  <2>1. Lines[v] = wq[v] \/ Lines[v] = <<>>
    BY LineValue
  <2>2. v \in Objects
    BY DEF Objects
  <2>3. \A i \in 1 .. Len(wq[v]) : EntryOf(wq[v][i], v)
    BY <2>2, SleepParts DEF Entries
  <2>4. \A i \in 1 .. Len(Lines[v]) : Lines[v][i] # c
    BY <1>2, <2>1, <2>3
  <2> QED BY <2>4 DEF M!Waits
<1> QED BY <1>3, <1>4, <1>5, <1>6 DEF M!Runs, M!Stopped

(* A thread_sleep that has found nobody to switch to: every thread sleeps  *)
(* and is in the queue it sleeps on.                                       *)
LEMMA AllStopped ==
  ASSUME SyncInv, SleepOK, SleeperQueued, CallsOK, ~ overflowed,
         NEW c, c = current_thread, pc[c] = "slept", ret[c] = THREAD_NONE
  PROVE  M!Deadlock
<1>0. /\ c \in Tids /\ wq \in [Objects -> Seq(Tids)]
      /\ state \in [Tids -> {"Destroyed", "Running", "Sleep"}]
      /\ \A o : ~ WakingAll(o) /\ ~ GoingToWait(o)
  BY DEF SyncInv, SyncTypeOK, TypeOK, ObjectsOK, WakingAll, GoingToWait
<1>1. /\ Entries /\ Sleepers /\ Comeback
      /\ \A t \in Tids \ {c} : state[t] # "Running"
  BY SleepParts DEF CallsOK, PlaceOK
<1>2. SUFFICES ASSUME NEW u \in Living PROVE M!Stopped(u)
  BY DEF M!Deadlock
<1> DEFINE o == frame[u].queue
<1>3. u \in Tids /\ state[u] = "Sleep" /\ back[u] = "slept" /\ (u = c => JustQueued(c))
  BY <1>0, <1>1 DEF Living, Alive, Comeback, Sleepers, JustQueued
<1>4. EntryOf(u, o)
  BY <1>3 DEF EntryOf
<1>5. u # c => pc[u] = "resumed"
  BY <1>3, SchedulerAssumption DEF SyncInv, ControlOK, DispatchOK, SuspendedOK, Alive
<1>6. o \in Objects
  BY <1>3, <1>5 DEF SyncInv, FramesOK, MyFrame
<1>7. In(wq[o], u)
  <2>1. CASE u = c
    <3>1. wq[o] # <<>> /\ wq[o][Len(wq[o])] = c
      BY <1>3, <2>1 DEF JustQueued, MyQueue, MyFrame
    <3>2. Len(wq[o]) \in 1 .. Len(wq[o])
      BY <1>0, <1>6, <3>1
    <3> QED BY <2>1, <3>1, <3>2 DEF In
  <2>2. CASE u # c
    BY <1>3, <1>5, <1>6, <2>2 DEF SleeperQueued, AsleepOn, In
  <2> QED BY <2>1, <2>2
<1> HIDE DEF o
<1>8. CASE o \in Locks
  <2>1. u \in BlockedOn[o]
    BY <1>0, <1>3, <1>4, <1>8 DEF BlockedOn
  <2> QED BY <1>8, <2>1 DEF M!Stopped
<1>9. CASE o \in Cvs
  <2>1. Lines[o] = wq[o]
    BY <1>0, <1>9, LineValue
  <2>2. M!Waits(u, o)
    BY <1>7, <2>1 DEF In, M!Waits
  <2> QED BY <1>9, <2>2 DEF M!Stopped
<1>10. CASE o \in Queues
  <2>1. u \in Elsewhere
    BY <1>3, <1>4, <1>10 DEF Elsewhere
  <2> QED BY <2>1 DEF M!Stopped
<1> QED BY <1>6, <1>8, <1>9, <1>10 DEF Objects

------------------------------------------------------------------------------
(* A step in which nobody falls asleep or is woken, and no queue changes.  *)
LEMMA KeepsView ==
  ASSUME SyncInv, SyncInv', UNCHANGED wq,
         \A t \in Tids : \A o \in Objects : EntryOf(t, o)' <=> EntryOf(t, o),
         \A o \in Locks \cup Cvs : WakingAll(o)' <=> WakingAll(o),
         \A v \in Cvs : GoingToWait(v)' <=> GoingToWait(v),
         \A v \in Cvs : GoingToWait(v) => ~ WakingAll(v) /\ current_thread' = current_thread
  PROVE  UNCHANGED <<BlockedOn, Lines, Elsewhere>>
<1>1. UNCHANGED BlockedOn
  BY BlockedKept DEF Objects
<1>2. UNCHANGED Elsewhere
  BY ElsewhereKept DEF Objects
<1>3. ASSUME NEW v \in Cvs PROVE Lines'[v] = Lines[v]
  <2>1. CASE GoingToWait(v)
    BY <2>1, LineValue, LineValueNext
  <2>2. CASE ~ GoingToWait(v)
    BY <2>2, LineValue, LineValueNext
  <2> QED BY <2>1, <2>2
<1> QED BY <1>1, <1>2, <1>3, LinesKept

LEMMA AloneRefines ==
  ASSUME OrderlyProgram, NobodyEnds, SyncInv, SyncInv', SleepOK, NobodyDies, ~ overflowed, Alone
  PROVE  M!Next \/ UNCHANGED M!monitorVars
<1> DEFINE c == current_thread
<1>0. /\ Next /\ UNCHANGED <<wq, frame, current>> /\ c \in Tids
      /\ state \in [Tids -> {"Destroyed", "Running", "Sleep"}]
      /\ back \in [Tids -> OwnReturns \cup {"slept"}]
  BY DEF Alone, SyncInv, SyncTypeOK, TypeOK
<1>1. CASE status # "running"
  <2>1. UNCHANGED schedVars
    BY <1>0, <1>1 DEF Next, Library, User, interrupt_handler, Ended, Yielding, Return, sigreturn,
       thread_stub, yield_self, yield_any, yield_none, yield_to, yield_invalid, resumed, admin_mode,
       admin_next, admin_none, thread_kill, kill_invalid, killed, handle_death, assert_waiter,
       exit_next, exit_none, waited, Mask, thread_create, create_no_memory, assert_interrupts,
       yield_call, kill_call, thread_exit, exit_main, thread_wait, wait_invalid, wait_exited,
       wait_sleep, wait_call, At
  <2>2. UNCHANGED <<state, back, pc, current_thread>>
    BY <2>1 DEF schedVars
  <2> QED
    BY <1>0, <2>2 DEF M!monitorVars, Living, Alive, BlockedOn, Lines, Elsewhere, EntryOf, WakingAll,
       GoingToWait, MyFrame
<1>2. CASE status = "running"
  <2>1. pc[c] \notin SyncLabels
    BY <1>0, <1>2, AloneLabels DEF SyncInv
  <2>2. pc'[current_thread'] \notin SyncLabels \ {"slept"}
    BY <1>0, <1>2, AloneLabels DEF SyncInv
  <2>3. \A o : ~ WakingAll(o) /\ ~ GoingToWait(o)
    BY <2>1 DEF WakingAll, GoingToWait, SyncLabels
  <2>4. \A o : ~ WakingAll(o)' /\ ~ GoingToWait(o)'
    BY <2>2 DEF WakingAll, GoingToWait, SyncLabels
  <2>5. CASE UNCHANGED state /\ \A t \in Tids : state[t] = "Sleep" => back'[t] = back[t]
    <3>1. \A t \in Tids : \A o : EntryOf(t, o)' <=> EntryOf(t, o)
      BY <1>0, <2>5 DEF EntryOf
    <3>2. UNCHANGED <<BlockedOn, Lines, Elsewhere>>
      BY <1>0, <2>3, <2>4, <3>1, KeepsView
    <3>3. UNCHANGED Living
      BY <2>5, LivingKept DEF Alive
    <3> QED BY <1>0, <3>2, <3>3 DEF M!monitorVars
  <2>6. ASSUME NEW n \in Tids, create_thread(n) PROVE M!Next
    <3>1. /\ ~ Alive(n) /\ state' = [state EXCEPT ![n] = "Running"] /\ state[n] = "Destroyed"
          /\ \A t \in Tids \ {n} : back'[t] = back[t]
      BY <1>0, <2>6 DEF create_thread, NewEntry, Alive
    <3>2. \A t \in Tids : \A o : EntryOf(t, o)' <=> EntryOf(t, o)
      BY <1>0, <3>1 DEF EntryOf
    <3>3. UNCHANGED <<BlockedOn, Lines, Elsewhere>>
      BY <1>0, <2>3, <2>4, <3>2, KeepsView
    <3>4. n \notin Living /\ Living' = Living \cup {n}
      BY <1>0, <3>1 DEF Living, Alive
    <3> QED BY <1>0, <3>3, <3>4, Starts
  <2>7. \/ \E t \in Tids : create_thread(t)
        \/ UNCHANGED state /\ \A t \in Tids : state[t] = "Sleep" => back'[t] = back[t]
    BY <1>2, AloneSleeps
  <2> QED BY <2>5, <2>6, <2>7
<1> QED BY <1>1, <1>2

------------------------------------------------------------------------------
(* The synchronisation calls.                                              *)
LEMMA AwakeEntries ==
  ASSUME SyncInv, OuterStep, NEW c, c = current_thread, state[c] # "Sleep", UNCHANGED state,
         \A t \in Tids \ {c} : frame'[t] = frame[t]
  PROVE  \A t \in Tids : \A o : EntryOf(t, o)' <=> EntryOf(t, o)
<1>1. \A t \in Tids \ {c} : back'[t] = back[t]
  BY DEF OuterStep, SyncInv, SyncTypeOK
<1> QED BY <1>1 DEF EntryOf

(* A call that changes no more than its own frame and label.               *)
LEMMA QuietCall ==
  ASSUME SyncInv, SyncInv', OuterStep, NEW c, c = current_thread, state[c] # "Sleep",
         UNCHANGED <<state, wq, current>>,
         \A t \in Tids \ {c} : frame'[t] = frame[t],
         \A o \in Locks \cup Cvs : WakingAll(o)' <=> WakingAll(o),
         \A v \in Cvs : GoingToWait(v)' <=> GoingToWait(v),
         \A v \in Cvs : GoingToWait(v) => ~ WakingAll(v)
  PROVE  UNCHANGED M!monitorVars
<1>1. current_thread' = current_thread /\ UNCHANGED Living
  BY LivingKept DEF OuterStep
<1>2. UNCHANGED <<BlockedOn, Lines, Elsewhere>>
  BY <1>1, AwakeEntries, KeepsView
<1> QED BY <1>1, <1>2 DEF M!monitorVars

(* What holds when a thread is in a synchronisation call.                  *)
LEMMA InCall ==
  ASSUME SyncInv, SleepOK, CallsOK, ~ overflowed, SyncLibrary \/ SyncUser, NEW c, c = current_thread
  PROVE  /\ OuterStep /\ status = "running" /\ c \in Tids /\ current_thread' = c /\ Alive(c)
         /\ pc \in [Tids -> Labels] /\ frame \in [Tids -> Frames] /\ frame[c] \in Frames
         /\ wq \in [Objects -> Seq(Tids)] /\ current \in [Locks -> Tids \cup {-1}]
         /\ \A o \in Objects : Len(wq[o]) <= QCap
         /\ state \in [Tids -> {"Destroyed", "Running", "Sleep"}]
         /\ MyFrame = frame[c] /\ FrameOK(frame[c]) /\ PlaceOK
         /\ pc[c] # "slept" => state[c] # "Sleep"
         /\ \A v \in Cvs : GoingToWait(v) => ~ WakingAll(v)
         /\ None \notin Objects /\ -1 \notin Tids /\ Locks \cap Cvs = {} /\ Queues \cap Locks = {}
         /\ Queues \cap Cvs = {}
<1>1. OuterStep /\ SyncTypeOK /\ c \in Tids /\ frame \in [Tids -> Frames]
  BY CallStep DEF SyncInv, StepOK, SyncTypeOK, TypeOK, ObjectsOK
<1>2. PlaceOK /\ FrameOK(frame[c])
  BY <1>1 DEF CallsOK
<1>3. pc[c] \in SyncLabels \cup {"user"} /\ current_thread' = c /\ status = "running"
  BY <1>1 DEF OuterStep
<1>4. Alive(c)
  BY <1>3, SyncAssumption DEF SyncInv, ControlOK, PathOK, LiveReturns, OnOwnStack
<1>5. pc[c] # "slept" => state[c] # "Sleep"
  BY <1>3, SleepParts DEF Comeback, SyncLabels
<1>6. ASSUME NEW v \in Cvs, GoingToWait(v), WakingAll(v) PROVE FALSE
  <2>1. pc[c] = "wakeup" /\ frame[c].after = "cv_sleep" /\ frame[c].queue = v
    BY <1>6 DEF GoingToWait, WakingAll, MyFrame
  <2>2. v = frame[c].mutex
    BY <1>2, <2>1 DEF FrameOK
  <2>3. frame[c].mutex \in Locks
    BY <1>1, <2>1 DEF SyncInv, FramesOK
  <2> QED BY <2>2, <2>3, SyncAssumption
<1>7. -1 \notin Tids
  BY DEF Tids
<1> QED
  BY <1>1, <1>2, <1>3, <1>4, <1>5, <1>6, <1>7, SyncAssumption
     DEF SyncTypeOK, TypeOK, ObjectsOK, MyFrame, Objects

(* The calls of the program that neither take, give up nor signal.         *)
LEMMA PlainCalls ==
  ASSUME SyncInv, SyncInv', SleepOK, CallsOK, ~ overflowed,
         \/ make \/ destroy \/ lock_destroy \/ free_lock \/ make_no_memory \/ free_again
         \/ destroy_held \/ assert_holder
         \/ sleep_invalid \/ sleep_call \/ wakeup_call \/ acquire_call \/ cv_signal
  PROVE  UNCHANGED M!monitorVars
<1> DEFINE c == current_thread
<1>0. /\ OuterStep /\ c \in Tids /\ current_thread' = c /\ state[c] # "Sleep" /\ pc[c] = "user"
      /\ pc \in [Tids -> Labels] /\ frame \in [Tids -> Frames] /\ None \notin Objects
      /\ Queues \cap Locks = {} /\ Queues \cap Cvs = {}
      /\ \A o : ~ WakingAll(o) /\ ~ GoingToWait(o)
  <2>1. pc[c] = "user" /\ SyncUser
    BY DEF SyncUser, make, destroy, lock_destroy, free_lock, make_no_memory, free_again,
           destroy_held, assert_holder, sleep_invalid, sleep_call,
       wakeup_call, acquire_call, cv_signal, At
  <2>2. \A o : ~ WakingAll(o) /\ ~ GoingToWait(o)
    BY <2>1 DEF WakingAll, GoingToWait
  <2> QED BY <2>1, <2>2, InCall
<1>1. ASSUME UNCHANGED <<state, wq, current>>, \A t \in Tids \ {c} : frame'[t] = frame[t],
             \A o \in Locks \cup Cvs : ~ WakingAll(o)', \A v \in Cvs : ~ GoingToWait(v)'
      PROVE  UNCHANGED M!monitorVars
  BY <1>0, <1>1, QuietCall
<1>2. CASE make \/ destroy \/ lock_destroy \/ free_lock
  <2>1. UNCHANGED <<state, wq, current, frame, pc>>
    BY <1>2 DEF make, destroy, lock_destroy, free_lock, schedVars
  <2> QED BY <1>0, <1>1, <2>1 DEF WakingAll, GoingToWait, MyFrame
<1>3. CASE destroy_held \/ make_no_memory \/ free_again \/ assert_holder
  <2>1. UNCHANGED <<state, wq, current, frame, pc>>
    BY <1>3 DEF destroy_held, make_no_memory, free_again, assert_holder, Abort, Stop, table, syncVars
  <2> QED BY <1>0, <1>1, <2>1 DEF WakingAll, GoingToWait, MyFrame
<1>4. CASE sleep_invalid
  <2>1. UNCHANGED <<state, wq, current, frame>> /\ pc'[c] = "return"
    BY <1>0, <1>4 DEF sleep_invalid, syncVars, Enter, Goto
  <2> QED BY <1>0, <1>1, <2>1 DEF WakingAll, GoingToWait
<1>5. ASSUME UNCHANGED <<state, wq, current>>, NEW f, frame' = [frame EXCEPT ![c] = f],
             f.cond = None, f.after = "return", ~ f.all \/ f.queue \in Queues
      PROVE  UNCHANGED M!monitorVars
  <2>1. frame'[c] = f
    BY <1>0, <1>5
  <2>2. \A v \in Cvs : ~ GoingToWait(v)'
    BY <1>0, <1>5, <2>1 DEF GoingToWait, MyFrame, Objects
  <2>3. \A o \in Locks \cup Cvs : ~ WakingAll(o)'
    BY <1>0, <1>5, <2>1 DEF WakingAll, MyFrame
  <2> QED BY <1>0, <1>1, <1>5, <2>2, <2>3
<1>6. CASE sleep_call
  <2> PICK k \in SyncCall("sleep") : SetFrame([NoFrame EXCEPT !.queue = k.object])
    BY <1>6 DEF sleep_call
  <2> DEFINE f == [NoFrame EXCEPT !.queue = k.object]
  <2>1. UNCHANGED <<state, wq, current>> /\ frame' = [frame EXCEPT ![c] = f]
    BY <1>6 DEF sleep_call, objects, SetFrame
  <2>2. f.cond = None /\ f.after = "return" /\ ~ f.all
    BY DEF NoFrame
  <2> HIDE DEF f
  <2> QED BY <1>5, <2>1, <2>2
<1>7. CASE acquire_call
  <2> PICK k \in SyncCall("acquire") : SetFrame([NoFrame EXCEPT !.mutex = k.lock])
    BY <1>7 DEF acquire_call
  <2> DEFINE f == [NoFrame EXCEPT !.mutex = k.lock]
  <2>1. UNCHANGED <<state, wq, current>> /\ frame' = [frame EXCEPT ![c] = f]
    BY <1>7 DEF acquire_call, objects, SetFrame
  <2>2. f.cond = None /\ f.after = "return" /\ ~ f.all
    BY DEF NoFrame
  <2> HIDE DEF f
  <2> QED BY <1>5, <2>1, <2>2
<1>8. ASSUME NEW o, NEW all \in BOOLEAN, WakeCall(o, all, NoFrame), UNCHANGED current,
             ~ all \/ o \in Queues
      PROVE  UNCHANGED M!monitorVars
  <2> DEFINE f == [NoFrame EXCEPT !.queue = o, !.all = all]
  <2>1. UNCHANGED <<state, wq, current>> /\ frame' = [frame EXCEPT ![c] = f]
    BY <1>8 DEF WakeCall, SetFrame
  <2>2. f.cond = None /\ f.after = "return" /\ f.all = all /\ f.queue = o
    BY DEF NoFrame
  <2> HIDE DEF f
  <2> QED BY <1>5, <1>8, <2>1, <2>2
<1>9. CASE wakeup_call
  <2> PICK all \in BOOLEAN : \E k \in SyncCall(IF all THEN "wakeup_all" ELSE "wakeup") :
         WakeCall(k.object, all, NoFrame)
    BY <1>9 DEF wakeup_call
  <2> PICK k \in SyncCall(IF all THEN "wakeup_all" ELSE "wakeup") : WakeCall(k.object, all, NoFrame)
    OBVIOUS
  <2>1. k.object \in Queues /\ UNCHANGED current
    BY <1>9, SyncArgument DEF wakeup_call
  <2> QED BY <1>8, <2>1
<1>10. CASE cv_signal
  <2> PICK k \in SyncCall("signal") : WakeCall(k.object, FALSE, NoFrame)
    BY <1>10 DEF cv_signal
  <2>1. UNCHANGED current
    BY <1>10 DEF cv_signal
  <2> QED BY <1>8, <2>1
<1> QED BY <1>2, <1>3, <1>4, <1>6, <1>7, <1>9, <1>10

(* Nobody sleeps on a queue that is empty.                                 *)
LEMMA EmptyQueue ==
  ASSUME SyncInv, SleepOK, SleeperQueued, ~ overflowed, NEW o \in Objects, wq[o] = <<>>,
         state[current_thread] # "Sleep", NEW t \in Tids
  PROVE  ~ EntryOf(t, o)
<1> SUFFICES ASSUME EntryOf(t, o) PROVE FALSE
  OBVIOUS
<1>1. state[t] = "Sleep" /\ back[t] = "slept" /\ frame[t].queue = o /\ t # current_thread
  BY DEF EntryOf
<1>2. pc[t] = "resumed"
  BY <1>1, SchedulerAssumption DEF SyncInv, ControlOK, DispatchOK, SuspendedOK, Alive
<1>3. \E i \in 1 .. Len(wq[o]) : wq[o][i] = t
  BY <1>1, <1>2 DEF SleeperQueued, AsleepOn
<1> QED BY <1>3

LEMMA InnerCalls ==
  ASSUME SyncInv, SyncInv', SleepOK, SleeperQueued, CallsOK, ~ overflowed,
         \/ slept \/ wake_none \/ wake_dead \/ acquire_wait \/ cv_sleep \/ cv_woken
         \/ slept_assert \/ wake_assert \/ acquire_freed
  PROVE  UNCHANGED M!monitorVars
<1> DEFINE c == current_thread
<1>0. /\ OuterStep /\ c \in Tids /\ current_thread' = c
      /\ pc \in [Tids -> Labels] /\ frame \in [Tids -> Frames] /\ frame[c] \in Frames
      /\ MyFrame = frame[c] /\ FrameOK(frame[c]) /\ PlaceOK
      /\ None \notin Objects
      /\ pc[c] # "slept" => state[c] # "Sleep"
      /\ \A v \in Cvs : GoingToWait(v) => ~ WakingAll(v)
      /\ frame[c].after = "cv_sleep" => pc[c] \in {"wakeup", "cv_sleep"}
      /\ MyFrame' = frame'[c]
  <2>1. SyncLibrary
    BY DEF SyncLibrary
  <2>2. \A t \in Tids : frame[t].after = "cv_sleep" => pc[t] \in {"wakeup", "cv_sleep"}
    BY DEF CallsOK
  <2> QED BY <2>1, <2>2, InCall DEF MyFrame
<1> USE DEF At
<1>1. ASSUME state[c] # "Sleep", UNCHANGED <<state, wq, current>>,
             \A t \in Tids \ {c} : frame'[t] = frame[t],
             \A o \in Locks \cup Cvs : WakingAll(o)' <=> WakingAll(o),
             \A v \in Cvs : GoingToWait(v)' <=> GoingToWait(v)
      PROVE  UNCHANGED M!monitorVars
  BY <1>0, <1>1, QuietCall
<1>2. CASE slept_assert \/ wake_assert \/ acquire_freed
  <2>1. UNCHANGED <<state, back, wq, current, frame, pc, current_thread>>
    BY <1>2 DEF slept_assert, wake_assert, acquire_freed, Abort, Stop, table, syncVars, locals
  <2> QED
    BY <2>1 DEF M!monitorVars, Living, Alive, BlockedOn, Lines, Elsewhere, EntryOf, WakingAll,
       GoingToWait, MyFrame
<1>3. CASE acquire_wait
  <2> DEFINE f == [frame[c] EXCEPT !.queue = frame[c].mutex, !.after = "acquire"]
  <2>1. /\ frame' = [frame EXCEPT ![c] = f] /\ pc'[c] = "sleep" /\ pc[c] = "acquire"
        /\ UNCHANGED <<state, wq, current>>
    BY <1>0, <1>3 DEF acquire_wait, SetFrame, Goto, objects
  <2>2. f.cond = frame[c].cond /\ frame[c].cond = None
    BY <1>0, <2>1 DEF PlaceOK, FrameOK, Frames
  <2> HIDE DEF f
  <2>3. \A o \in Locks \cup Cvs : ~ WakingAll(o)' /\ ~ WakingAll(o)
    BY <1>0, <2>1 DEF WakingAll
  <2>4. \A v \in Cvs : ~ GoingToWait(v)' /\ ~ GoingToWait(v)
    BY <1>0, <2>1, <2>2 DEF GoingToWait, Objects
  <2> QED BY <1>0, <1>1, <2>1, <2>3, <2>4
<1>4. CASE cv_sleep
  <2> DEFINE f == [frame[c] EXCEPT !.queue = frame[c].cond, !.after = "cv_woken"]
  <2>1. /\ frame' = [frame EXCEPT ![c] = f] /\ pc'[c] = "sleep" /\ pc[c] = "cv_sleep"
        /\ UNCHANGED <<state, wq, current>>
    BY <1>0, <1>4 DEF cv_sleep, SetFrame, Goto, objects
  <2>2. f.cond = frame[c].cond
    BY <1>0 DEF Frames
  <2> HIDE DEF f
  <2>3. \A o \in Locks \cup Cvs : ~ WakingAll(o)' /\ ~ WakingAll(o)
    BY <1>0, <2>1 DEF WakingAll
  <2>4. \A v \in Cvs : GoingToWait(v)' <=> GoingToWait(v)
    BY <1>0, <2>1, <2>2 DEF GoingToWait
  <2> QED BY <1>0, <1>1, <2>1, <2>3, <2>4
<1>5. CASE cv_woken
  <2> DEFINE f == [NoFrame EXCEPT !.mutex = frame[c].mutex]
  <2>1. /\ frame' = [frame EXCEPT ![c] = f] /\ pc'[c] = "acquire" /\ pc[c] = "cv_woken"
        /\ UNCHANGED <<state, wq, current>>
    BY <1>0, <1>5 DEF cv_woken, SetFrame, Goto, objects
  <2> HIDE DEF f
  <2>3. \A o \in Locks \cup Cvs : ~ WakingAll(o)' /\ ~ WakingAll(o)
    BY <1>0, <2>1 DEF WakingAll
  <2>4. \A v \in Cvs : ~ GoingToWait(v)' /\ ~ GoingToWait(v)
    BY <1>0, <2>1 DEF GoingToWait
  <2> QED BY <1>0, <1>1, <2>1, <2>3, <2>4
<1>6. ASSUME CallReturns
      PROVE  /\ pc'[c] = frame[c].after /\ \A t \in Tids \ {c} : frame'[t] = frame[t]
             /\ frame[c].after # "return" => frame'[c] = frame[c]
             /\ frame[c].after \in {"return", "acquire", "cv_sleep", "cv_woken"}
  BY <1>0, <1>6 DEF CallReturns, Goto, SetFrame, Frames
<1>7. CASE slept
  <2>1. /\ pc[c] = "slept" /\ ret[c] # THREAD_NONE /\ UNCHANGED <<state, wq, current>> /\ CallReturns
    BY <1>7 DEF slept, objects
  <2>2. state[c] # "Sleep"
    BY <2>1, SleepParts DEF Comeback
  <2>3. pc'[c] \in {"return", "acquire", "cv_woken"}
    BY <1>0, <1>6, <2>1
  <2>4. \A o \in Locks \cup Cvs : ~ WakingAll(o)' /\ ~ WakingAll(o)
    BY <1>0, <2>1, <2>3 DEF WakingAll
  <2>5. \A v \in Cvs : ~ GoingToWait(v)' /\ ~ GoingToWait(v)
    BY <1>0, <2>1, <2>3 DEF GoingToWait
  <2> QED BY <1>1, <1>6, <2>1, <2>2, <2>4, <2>5
<1>8. CASE wake_none
  <2>1. /\ pc[c] = "wakeup" /\ MyQueue = <<>> /\ UNCHANGED <<state, wq, current>> /\ CallReturns
    BY <1>8 DEF wake_none, objects
  <2>2. state[c] # "Sleep" /\ frame[c].after \in {"return", "cv_sleep"}
    BY <1>0, <2>1 DEF PlaceOK
  <2>3. \A o : ~ WakingAll(o)'
    BY <1>0, <1>6, <2>1, <2>2 DEF WakingAll
  <2>4. \A v : GoingToWait(v)' <=> GoingToWait(v)
    <3>1. CASE frame[c].after = "return"
      BY <1>0, <1>6, <2>1, <3>1 DEF GoingToWait
    <3>2. CASE frame[c].after = "cv_sleep"
      BY <1>0, <1>6, <2>1, <3>2 DEF GoingToWait
    <3> QED BY <2>2, <3>1, <3>2
  <2>5. \A o \in Objects : WakingAll(o) => wq[o] = <<>> /\ \A t \in Tids : ~ EntryOf(t, o)
    BY <2>1, <2>2, EmptyQueue DEF WakingAll, MyQueue
  <2>6. \A t \in Tids : \A o : EntryOf(t, o)' <=> EntryOf(t, o)
    BY <1>0, <1>6, <2>1, <2>2, AwakeEntries
  <2>7. UNCHANGED <<BlockedOn, Elsewhere>>
    <3>1. \A l \in Locks : \A t \in Tids :
            (EntryOf(t, l) /\ ~ WakingAll(l))' <=> EntryOf(t, l) /\ ~ WakingAll(l)
      BY <2>3, <2>5, <2>6 DEF Objects
    <3> QED BY <2>6, <3>1, BlockedKept, ElsewhereKept
  <2>8. ASSUME NEW v \in Cvs PROVE Lines'[v] = Lines[v]
    <3>1. CASE GoingToWait(v)
      BY <1>0, <2>1, <2>3, <2>4, <3>1, LineValue, LineValueNext
    <3>2. CASE ~ GoingToWait(v)
      <4>1. Lines'[v] = wq[v]
        BY <2>1, <2>3, <2>4, <3>2, LineValueNext
      <4>2. Lines[v] = wq[v]
        BY <2>5, <3>2, LineValue DEF Objects
      <4> QED BY <4>1, <4>2
    <3> QED BY <3>1, <3>2
  <2>9. UNCHANGED <<Lines, Living>>
    BY <1>0, <2>1, <2>8, LinesKept, LivingKept DEF Alive
  <2> QED BY <2>1, <2>7, <2>9 DEF M!monitorVars
<1>9. CASE wake_dead
  <2>1. pc[c] = "wakeup" /\ MyQueue # <<>> /\ state[Head(MyQueue)] = "Destroyed"
    BY <1>9 DEF wake_dead
  <2>2. MyFrame.queue \in Objects /\ MyQueue \in Seq(Tids)
    BY <2>1 DEF SyncInv, SyncTypeOK, ObjectsOK, FramesOK, MyQueue
  <2>3. 1 \in 1 .. Len(MyQueue) /\ Head(MyQueue) = MyQueue[1]
    BY <2>1, <2>2
  <2>4. EntryOf(MyQueue[1], MyFrame.queue)
    BY <2>2, <2>3, SleepParts DEF Entries, MyQueue
  <2> QED BY <2>1, <2>3, <2>4 DEF EntryOf
<1> QED BY <1>2, <1>3, <1>4, <1>5, <1>7, <1>8, <1>9

LEMMA AcquireRefines ==
  ASSUME SyncInv, SyncInv', SleepOK, CallsOK, ~ overflowed, lock_acquire
  PROVE  M!Next
<1> DEFINE c == current_thread
           l == frame[c].mutex
<1>0. /\ OuterStep /\ c \in Tids /\ current_thread' = c /\ Alive(c) /\ pc \in [Tids -> Labels]
      /\ frame \in [Tids -> Frames] /\ MyFrame = frame[c] /\ pc[c] = "acquire" /\ state[c] # "Sleep"
  <2>1. SyncLibrary /\ pc[c] = "acquire"
    BY DEF SyncLibrary, lock_acquire, At
  <2> QED BY <2>1, InCall
<1>1. /\ l \in Locks /\ current[l] = -1 /\ current' = [current EXCEPT ![l] = c]
      /\ UNCHANGED <<state, wq>> /\ pc'[c] = "return" /\ \A t \in Tids \ {c} : frame'[t] = frame[t]
  BY <1>0 DEF lock_acquire, SetFrame, Goto, SyncInv, FramesOK
<1>2. \A o : ~ WakingAll(o) /\ ~ GoingToWait(o)
  BY <1>0 DEF WakingAll, GoingToWait
<1>3. \A o : ~ WakingAll(o)' /\ ~ GoingToWait(o)'
  BY <1>0, <1>1 DEF WakingAll, GoingToWait
<1>4. UNCHANGED <<BlockedOn, Lines, Elsewhere>>
  BY <1>0, <1>1, <1>2, <1>3, AwakeEntries, KeepsView
<1>5. UNCHANGED Living
  BY <1>1, LivingKept DEF Alive
<1>6. M!Runs(c)
  BY <1>0, <1>2, RunningRuns
<1> HIDE DEF c, l
<1> QED BY <1>0, <1>1, <1>4, <1>5, <1>6, Acquires

(* Lock l is given up and f the frame of the wakeup that follows; what is  *)
(* left to show is the line of each condition variable.                    *)
LEMMA ReleaseRefines ==
  ASSUME SyncInv, SyncInv', SleepOK, CallsOK, ~ overflowed, SyncUser, At("user"),
         NEW l \in Locks, NEW f \in Frames, Release(l, f), NEW c, c = current_thread
  PROVE  /\ c \in Tids /\ M!Runs(c) /\ current[l] = c /\ current' = [current EXCEPT ![l] = -1]
         /\ BlockedOn' = [BlockedOn EXCEPT ![l] = {}] /\ UNCHANGED <<Living, Elsewhere, wq, current_thread>>
         /\ pc'[c] = "wakeup" /\ frame'[c] = [f EXCEPT !.queue = l, !.all = TRUE]
         /\ \A o : ~ WakingAll(o) /\ ~ GoingToWait(o)
         /\ \A o : WakingAll(o)' <=> o = l
<1>0. /\ OuterStep /\ c \in Tids /\ current_thread' = c /\ Alive(c) /\ pc \in [Tids -> Labels]
      /\ frame \in [Tids -> Frames] /\ MyFrame = frame[c] /\ pc[c] = "user" /\ state[c] # "Sleep"
  <2>1. pc[c] = "user"
    BY DEF At
  <2> QED BY <2>1, InCall
<1>1. /\ current[l] = c /\ current' = [current EXCEPT ![l] = -1] /\ UNCHANGED <<state, wq>>
      /\ pc'[c] = "wakeup" /\ frame'[c] = [f EXCEPT !.queue = l, !.all = TRUE]
      /\ \A t \in Tids \ {c} : frame'[t] = frame[t]
  BY <1>0 DEF Release, WakeCall, SetFrame, Enter, Goto
<1>2. \A o : ~ WakingAll(o) /\ ~ GoingToWait(o)
  BY <1>0 DEF WakingAll, GoingToWait
<1>3. \A o : WakingAll(o)' <=> o = l
  <2>1. frame'[c].queue = l /\ frame'[c].all
    BY <1>1 DEF Frames
  <2> QED BY <1>0, <1>1, <2>1 DEF WakingAll, MyFrame
<1>4. \A t \in Tids : \A o : EntryOf(t, o)' <=> EntryOf(t, o)
  BY <1>0, <1>1, AwakeEntries
<1>5. UNCHANGED <<Living, Elsewhere>>
  BY <1>1, <1>4, LivingKept, ElsewhereKept DEF Alive
<1>6. BlockedOn' = [BlockedOn EXCEPT ![l] = {}]
  BY <1>2, <1>3, <1>4, BlockedAt
<1>7. M!Runs(c)
  BY <1>0, <1>2, RunningRuns
<1> QED BY <1>0, <1>1, <1>2, <1>3, <1>5, <1>6, <1>7

LEMMA LockReleaseRefines ==
  ASSUME SyncInv, SyncInv', SleepOK, CallsOK, ~ overflowed, lock_release
  PROVE  M!Next
<1> DEFINE c == current_thread
<1>0. At("user") /\ SyncUser
  BY DEF lock_release, SyncUser
<1> PICK k \in SyncCall("release") : Release(k.lock, NoFrame)
  BY DEF lock_release
<1> DEFINE l == k.lock
<1>1. l \in Locks /\ l \notin Cvs /\ None \notin Cvs
  BY SyncArgument, SyncAssumption DEF Objects
<1>2. /\ c \in Tids /\ M!Runs(c) /\ current[l] = c /\ current' = [current EXCEPT ![l] = -1]
      /\ BlockedOn' = [BlockedOn EXCEPT ![l] = {}] /\ UNCHANGED <<Living, Elsewhere, wq, current_thread>>
      /\ pc'[c] = "wakeup" /\ frame'[c] = [NoFrame EXCEPT !.queue = l, !.all = TRUE]
      /\ \A o : ~ WakingAll(o) /\ ~ GoingToWait(o)
      /\ \A o : WakingAll(o)' <=> o = l
  BY <1>0, <1>1, NoFrameType, ReleaseRefines
<1>3. frame'[c].cond = None
  BY <1>2 DEF NoFrame
<1>4. \A v \in Cvs : ~ GoingToWait(v)'
  BY <1>1, <1>2, <1>3 DEF GoingToWait, MyFrame
<1>5. \A v \in Cvs : Lines'[v] = Lines[v]
  BY <1>1, <1>2, <1>4, LineValue, LineValueNext
<1>6. UNCHANGED Lines
  BY <1>5, LinesKept
<1> HIDE DEF c, l
<1> QED BY <1>1, <1>2, <1>6, Releases

LEMMA WaitRefines ==
  ASSUME SyncInv, SyncInv', SleepOK, CallsOK, ~ overflowed, cv_wait
  PROVE  M!Next
<1> DEFINE c == current_thread
<1>0. At("user") /\ SyncUser
  BY DEF cv_wait, SyncUser
<1> PICK k \in SyncCall("wait") :
       Release(k.lock, [NoFrame EXCEPT !.after = "cv_sleep", !.mutex = k.lock, !.cond = k.object])
  BY DEF cv_wait
<1> DEFINE l == k.lock
           v == k.object
           g == [NoFrame EXCEPT !.after = "cv_sleep", !.mutex = l, !.cond = v]
<1>1. l \in Locks /\ v \in Cvs /\ l \notin Cvs
  BY SyncArgument, SyncAssumption
<1>g. g \in Frames /\ g.after = "cv_sleep" /\ g.cond = v
  BY <1>1, NoFrameType DEF NoFrame, Frames
<1>2. Release(l, g)
  OBVIOUS
<1> HIDE DEF g
<1>3. /\ c \in Tids /\ M!Runs(c) /\ current[l] = c /\ current' = [current EXCEPT ![l] = -1]
      /\ BlockedOn' = [BlockedOn EXCEPT ![l] = {}] /\ UNCHANGED <<Living, Elsewhere, wq, current_thread>>
      /\ pc'[c] = "wakeup" /\ frame'[c] = [g EXCEPT !.queue = l, !.all = TRUE]
      /\ \A o : ~ WakingAll(o) /\ ~ GoingToWait(o)
      /\ \A o : WakingAll(o)' <=> o = l
  BY <1>0, <1>1, <1>g, <1>2, ReleaseRefines
<1>4. frame'[c].cond = v /\ frame'[c].after = "cv_sleep"
  BY <1>3, <1>g DEF Frames
<1>5. \A x : GoingToWait(x)' <=> x = v
  BY <1>3, <1>4 DEF GoingToWait, MyFrame
<1>6. \A x \in Cvs \ {v} : Lines'[x] = Lines[x]
  BY <1>1, <1>3, <1>5, LineValue, LineValueNext
<1>7. Lines'[v] = Append(Lines[v], c)
  BY <1>1, <1>3, <1>5, LineValue, LineValueNext
<1>8. Lines' = [Lines EXCEPT ![v] = Append(Lines[v], c)]
  BY <1>1, <1>6, <1>7, LineAt
<1> HIDE DEF c, l, v
<1> QED BY <1>1, <1>3, <1>8, Waits

LEMMA BroadcastRefines ==
  ASSUME SyncInv, SyncInv', SleepOK, CallsOK, ~ overflowed, cv_broadcast
  PROVE  M!Next \/ UNCHANGED M!monitorVars
<1> DEFINE c == current_thread
<1> PICK k \in SyncCall("broadcast") : current[k.lock] = c /\ WakeCall(k.object, TRUE, NoFrame)
  BY DEF cv_broadcast
<1> DEFINE l == k.lock
           v == k.object
<1>0. /\ OuterStep /\ c \in Tids /\ current_thread' = c /\ Alive(c) /\ pc \in [Tids -> Labels]
      /\ frame \in [Tids -> Frames] /\ pc[c] = "user" /\ state[c] # "Sleep" /\ None \notin Objects
  <2>1. SyncUser /\ pc[c] = "user"
    BY DEF SyncUser, cv_broadcast, At
  <2> QED BY <2>1, InCall
<1>1. l \in Locks /\ v \in Cvs /\ v \notin Locks /\ None \notin Cvs
  BY SyncArgument, SyncAssumption DEF Objects
<1>2. /\ current[l] = c /\ UNCHANGED <<state, wq, current>>
      /\ pc'[c] = "wakeup" /\ frame'[c] = [NoFrame EXCEPT !.queue = v, !.all = TRUE]
      /\ \A t \in Tids \ {c} : frame'[t] = frame[t]
  BY <1>0 DEF cv_broadcast, WakeCall, SetFrame, Enter, Goto
<1>3. frame'[c].queue = v /\ frame'[c].all /\ frame'[c].cond = None /\ frame'[c].after = "return"
  BY <1>2 DEF NoFrame
<1>4. \A o : ~ WakingAll(o) /\ ~ GoingToWait(o)
  BY <1>0 DEF WakingAll, GoingToWait
<1>5. \A o : WakingAll(o)' <=> o = v
  BY <1>0, <1>2, <1>3 DEF WakingAll, MyFrame
<1>6. \A x \in Cvs : ~ GoingToWait(x)'
  BY <1>0, <1>1, <1>2, <1>3 DEF GoingToWait, MyFrame
<1>7. \A t \in Tids : \A o : EntryOf(t, o)' <=> EntryOf(t, o)
  BY <1>0, <1>2, AwakeEntries
<1>8. UNCHANGED <<Living, Elsewhere>>
  BY <1>2, <1>7, LivingKept, ElsewhereKept DEF Alive
<1>9. UNCHANGED BlockedOn
  BY <1>1, <1>4, <1>5, <1>7, BlockedKept
<1>10. \A x \in Cvs \ {v} : Lines'[x] = Lines[x]
  BY <1>2, <1>4, <1>5, <1>6, LineValue, LineValueNext
<1>11. Lines'[v] = <<>>
  BY <1>1, <1>5, <1>6, LineValueNext
<1>12. M!Runs(c)
  BY <1>0, <1>4, RunningRuns
<1>13. CASE Lines[v] = <<>>
  <2>1. UNCHANGED Lines
    BY <1>10, <1>11, <1>13, LinesKept
  <2> QED BY <1>2, <1>8, <1>9, <2>1 DEF M!monitorVars
<1>14. CASE Lines[v] # <<>>
  <2>1. Lines' = [Lines EXCEPT ![v] = <<>>]
    BY <1>1, <1>10, <1>11, LineAt
  <2> HIDE DEF c, l, v
  <2> QED BY <1>0, <1>1, <1>2, <1>8, <1>9, <1>12, <1>14, <2>1, Signals
<1> QED BY <1>13, <1>14

LEMMA SleepRefines ==
  ASSUME SyncInv, SyncInv', SleepOK, HolderOK, CallsOK, ~ overflowed, ~ overflowed', thread_sleep
  PROVE  M!Next \/ UNCHANGED M!monitorVars
<1> DEFINE c == current_thread
           q == frame[c].queue
<1>0. /\ OuterStep /\ c \in Tids /\ current_thread' = c /\ Alive(c)
      /\ pc \in [Tids -> Labels] /\ frame \in [Tids -> Frames] /\ frame[c] \in Frames
      /\ wq \in [Objects -> Seq(Tids)] /\ current \in [Locks -> Tids \cup {-1}]
      /\ state \in [Tids -> {"Destroyed", "Running", "Sleep"}]
      /\ MyFrame = frame[c] /\ FrameOK(frame[c]) /\ PlaceOK
      /\ pc[c] = "sleep" /\ state[c] # "Sleep" /\ None \notin Objects
      /\ Locks \cap Cvs = {} /\ Queues \cap Locks = {} /\ Queues \cap Cvs = {}
  <2>1. SyncLibrary /\ pc[c] = "sleep"
    BY DEF SyncLibrary, thread_sleep, At
  <2> QED BY <2>1, InCall
<1>1. /\ q \in Objects /\ (q \in Locks => current[q] # -1)
      /\ frame[c].after # "return" => frame[c].mutex \in Locks
      /\ frame[c].after \in {"cv_sleep", "cv_woken"} => frame[c].cond \in Cvs
  BY <1>0 DEF SyncInv, FramesOK
<1>2. /\ wq'[q] = Append(wq[q], c) /\ \A o \in Objects \ {q} : wq'[o] = wq[o]
      /\ UNCHANGED <<frame, current>> /\ state' = [state EXCEPT ![c] = "Sleep"]
      /\ back'[c] = "slept" /\ \A t \in Tids \ {c} : back'[t] = back[t]
      /\ pc'[c] = "yield"
  <2>1. wq' = [wq EXCEPT ![q] = Pushed(wq[q], c)] /\ Len(wq[q]) # QCap
    BY <1>0 DEF thread_sleep, MyQueue, Overflows
  <2>2. wq'[q] = Append(wq[q], c) /\ \A o \in Objects \ {q} : wq'[o] = wq[o]
    BY <1>0, <1>1, <2>1 DEF Pushed
  <2>3. back'[c] = "slept" /\ \A t \in Tids \ {c} : back'[t] = back[t]
    BY <1>0 DEF thread_sleep, SyncInv, SyncTypeOK
  <2> QED BY <1>0, <2>2, <2>3 DEF thread_sleep, Goto
<1>3. \A t \in Tids : \A o : EntryOf(t, o)' <=> EntryOf(t, o) \/ (t = c /\ o = q)
  BY <1>0, <1>2 DEF EntryOf
<1>4. \A o : ~ EntryOf(c, o)
  BY <1>0 DEF EntryOf
<1>5. \A o : ~ WakingAll(o) /\ ~ WakingAll(o)' /\ ~ GoingToWait(o)'
  BY <1>0, <1>2 DEF WakingAll, GoingToWait
<1>6. \A o : GoingToWait(o) <=> frame[c].cond = o
  BY <1>0 DEF GoingToWait
<1>7. UNCHANGED Living
  <2>1. \A t \in Tids : Alive(t)' <=> Alive(t)
    BY <1>0, <1>2 DEF Alive
  <2> QED BY <2>1, LivingKept
<1>8. frame[c].after \in {"return", "acquire", "cv_woken"}
  BY <1>0 DEF CallsOK, Frames
<1>9. /\ frame[c].after = "return" => q \in Queues /\ frame[c].cond = None
      /\ frame[c].after = "acquire" => q \in Locks /\ q = frame[c].mutex /\ frame[c].cond = None
      /\ frame[c].after = "cv_woken" => q \in Cvs /\ q = frame[c].cond
  BY <1>0, <1>1 DEF FrameOK, PlaceOK
<1>10. ASSUME frame[c].cond = None PROVE \A v \in Cvs : ~ GoingToWait(v)
  BY <1>0, <1>6, <1>10 DEF Objects
<1>11. q \notin Queues => UNCHANGED Elsewhere
  BY <1>3, ElsewhereKept
<1>12. q \notin Locks => UNCHANGED BlockedOn
  BY <1>3, <1>5, BlockedKept
<1>13. ASSUME q \notin Cvs, frame[c].cond = None PROVE UNCHANGED Lines
  <2>1. \A v \in Cvs : Lines'[v] = wq'[v] /\ Lines[v] = wq[v]
    BY <1>5, <1>10, <1>13, LineValue, LineValueNext
  <2>2. \A v \in Cvs : v \in Objects \ {q}
    BY <1>13 DEF Objects
  <2> QED BY <1>2, <2>1, <2>2, LinesKept
<1>14. frame[c].cond = None => M!Runs(c)
  BY <1>0, <1>10, RunningRuns
<1>15. CASE frame[c].after = "return"
  <2>1. q \in Queues /\ q \notin Locks /\ q \notin Cvs /\ frame[c].cond = None
    BY <1>0, <1>9, <1>15
  <2>2. Elsewhere' = Elsewhere \cup {c}
    BY <1>0, <1>3, <2>1 DEF Elsewhere
  <2> HIDE DEF c, q
  <2> QED BY <1>0, <1>2, <1>7, <1>12, <1>13, <1>14, <2>1, <2>2, Leaves
<1>16. CASE frame[c].after = "acquire"
  <2>1. /\ q \in Locks /\ q \notin Queues /\ q \notin Cvs /\ frame[c].cond = None
        /\ q = frame[c].mutex
    BY <1>0, <1>9, <1>16
  <2>2. current[q] \notin {-1, c}
    BY <1>0, <1>1, <2>1 DEF HolderOK
  <2>3. BlockedOn' = [BlockedOn EXCEPT ![q] = BlockedOn[q] \cup {c}]
    <3> DEFINE S == {t \in Tids : EntryOf(t, q)} \cup {c}
    <3>1. S \in SUBSET Tids /\ BlockedOn[q] = {t \in Tids : EntryOf(t, q)}
      BY <1>0, <1>5, <2>1 DEF BlockedOn
    <3>2. BlockedOn' = [BlockedOn EXCEPT ![q] = S]
      BY <1>0, <1>3, <1>5, <2>1, <3>1, BlockedAt
    <3> QED BY <3>1, <3>2
  <2> HIDE DEF c, q
  <2> QED BY <1>0, <1>2, <1>7, <1>11, <1>13, <1>14, <2>1, <2>2, <2>3, Blocks
<1>17. CASE frame[c].after = "cv_woken"
  <2>1. q \in Cvs /\ q \notin Queues /\ q \notin Locks /\ q = frame[c].cond
    BY <1>0, <1>9, <1>17
  <2>2. \A v \in Cvs \ {q} : Lines'[v] = Lines[v]
    <3> SUFFICES ASSUME NEW v \in Cvs, v # q PROVE Lines'[v] = Lines[v]
      OBVIOUS
    <3>1. Lines'[v] = wq'[v] /\ Lines[v] = wq[v]
      BY <1>5, <1>6, <2>1, LineValue, LineValueNext
    <3>2. v \in Objects
      BY DEF Objects
    <3> QED BY <1>2, <3>1, <3>2
  <2>3. Lines'[q] = Lines[q]
    BY <1>2, <1>5, <1>6, <2>1, LineValue, LineValueNext
  <2>4. UNCHANGED Lines
    BY <2>2, <2>3, LinesKept
  <2> QED BY <1>2, <1>7, <1>11, <1>12, <2>1, <2>4 DEF M!monitorVars
<1> QED BY <1>8, <1>15, <1>16, <1>17

(* A thread u that sleeps on queue q is woken, or wakes alone: where no    *)
(* call stands for more than it has done, its entry is gone and that is    *)
(* all.                                                                    *)
LEMMA LeavesQueue ==
  ASSUME NEW u \in Tids, NEW q \in Objects, EntryOf(u, q),
         \A t \in Tids : \A o : EntryOf(t, o)' <=> EntryOf(t, o) /\ t # u,
         \A o : WakingAll(o)' <=> WakingAll(o)
  PROVE  /\ q \notin Locks \/ WakingAll(q) => BlockedOn' = BlockedOn
         /\ q \in Locks /\ ~ WakingAll(q) => BlockedOn' = [BlockedOn EXCEPT ![q] = BlockedOn[q] \ {u}]
         /\ q \notin Queues => Elsewhere' = Elsewhere
         /\ q \in Queues => u \in Elsewhere /\ Elsewhere' = Elsewhere \ {u}
<1>1. \A o : o # q => ~ EntryOf(u, o)
  BY DEF EntryOf
<1>2. \A t \in Tids : \A o : o # q => (EntryOf(t, o)' <=> EntryOf(t, o))
  BY <1>1
<1>3. q \notin Locks \/ WakingAll(q) => BlockedOn' = BlockedOn
  BY <1>2, BlockedKept
<1>4. ASSUME q \in Locks, ~ WakingAll(q) PROVE BlockedOn' = [BlockedOn EXCEPT ![q] = BlockedOn[q] \ {u}]
  <2> DEFINE S == BlockedOn[q] \ {u}
  <2>1. S \in SUBSET Tids /\ \A t \in Tids : t \in S <=> EntryOf(t, q) /\ t # u
    BY <1>4 DEF BlockedOn
  <2> HIDE DEF S
  <2>2. \A t \in Tids : (EntryOf(t, q) /\ ~ WakingAll(q))' <=> t \in S
    BY <1>4, <2>1
  <2>3. BlockedOn' = [BlockedOn EXCEPT ![q] = S]
    BY <1>2, <1>4, <2>1, <2>2, BlockedAt
  <2> QED BY <2>3 DEF S
<1>5. q \notin Queues => Elsewhere' = Elsewhere
  BY <1>2, ElsewhereKept
<1>6. q \in Queues => u \in Elsewhere /\ Elsewhere' = Elsewhere \ {u}
  BY <1>1 DEF Elsewhere
<1> QED BY <1>3, <1>4, <1>5, <1>6

LEMMA AloneAgainRefines ==
  ASSUME SyncInv, SyncInv', SleepOK, SleeperQueued, CallsOK, ~ overflowed, slept_alone
  PROVE  M!Next
<1> DEFINE c == current_thread
           q == frame[c].queue
<1>0. /\ OuterStep /\ c \in Tids /\ current_thread' = c /\ Alive(c)
      /\ pc \in [Tids -> Labels] /\ frame \in [Tids -> Frames] /\ frame[c] \in Frames
      /\ wq \in [Objects -> Seq(Tids)]
      /\ state \in [Tids -> {"Destroyed", "Running", "Sleep"}]
      /\ MyFrame = frame[c] /\ pc[c] = "slept" /\ ret[c] = THREAD_NONE
      /\ Locks \cap Cvs = {} /\ Queues \cap Locks = {} /\ Queues \cap Cvs = {}
      /\ q \in Objects
  <2>1. SyncLibrary /\ pc[c] = "slept" /\ ret[c] = THREAD_NONE
    BY DEF SyncLibrary, slept_alone, At
  <2> QED BY <2>1, InCall DEF SyncInv, FramesOK
<1>1. EntryOf(c, q) /\ wq[q] # <<>> /\ wq[q][Len(wq[q])] = c
  BY <1>0, SleepParts DEF Comeback, JustQueued, EntryOf, MyQueue
<1>2. /\ wq' = [wq EXCEPT ![q] = SubSeq(wq[q], 1, Len(wq[q]) - 1)]
      /\ UNCHANGED current /\ state' = [state EXCEPT ![c] = "Running"]
      /\ \A t \in Tids \ {c} : frame'[t] = frame[t] /\ back'[t] = back[t]
      /\ pc'[c] = frame[c].after /\ frame[c].after \in {"return", "acquire", "cv_woken"}
  <2>1. \A t \in Tids \ {c} : frame'[t] = frame[t] /\ back'[t] = back[t]
    BY <1>0 DEF slept_alone, CallReturns, SetFrame, SyncInv, SyncTypeOK
  <2>2. pc'[c] = frame[c].after /\ frame[c].after \in {"return", "acquire", "cv_woken"}
    BY <1>0 DEF slept_alone, CallReturns, Goto, CallsOK, Frames
  <2> QED BY <1>0, <2>1, <2>2 DEF slept_alone
<1>3. \A t \in Tids : \A o : EntryOf(t, o)' <=> EntryOf(t, o) /\ t # c
  BY <1>0, <1>2 DEF EntryOf
<1>4. \A o : ~ WakingAll(o) /\ ~ WakingAll(o)' /\ ~ GoingToWait(o) /\ ~ GoingToWait(o)'
  BY <1>0, <1>2 DEF WakingAll, GoingToWait
<1>5. UNCHANGED Living
  <2>1. \A t \in Tids : Alive(t)' <=> Alive(t)
    BY <1>0, <1>2 DEF Alive
  <2> QED BY <2>1, LivingKept
<1>6. M!Deadlock
  BY <1>0, AllStopped
<1>7. \A v \in Cvs : Lines'[v] = wq'[v] /\ Lines[v] = wq[v]
  BY <1>4, LineValue, LineValueNext
<1>8. q \notin Cvs => UNCHANGED Lines
  <2>1. \A v \in Cvs : v \in Objects
    BY DEF Objects
  <2> QED BY <1>2, <1>7, <2>1, LinesKept
<1>9. /\ q \notin Locks => BlockedOn' = BlockedOn
      /\ q \in Locks => BlockedOn' = [BlockedOn EXCEPT ![q] = BlockedOn[q] \ {c}]
      /\ q \notin Queues => Elsewhere' = Elsewhere
      /\ q \in Queues => c \in Elsewhere /\ Elsewhere' = Elsewhere \ {c}
  BY <1>0, <1>1, <1>3, <1>4, LeavesQueue
<1>10. CASE q \in Queues
  <2> HIDE DEF c, q
  <2> QED BY <1>0, <1>2, <1>5, <1>8, <1>9, <1>10, ComesBack
<1>11. CASE q \in Locks
  <2>1. c \in BlockedOn[q]
    BY <1>0, <1>1, <1>4, <1>11 DEF BlockedOn
  <2> HIDE DEF c, q
  <2> QED BY <1>0, <1>2, <1>5, <1>6, <1>8, <1>9, <1>11, <2>1, GivesUpLock
<1>12. CASE q \in Cvs
  <2>1. \A v \in Cvs \ {q} : Lines'[v] = Lines[v]
    <3>1. \A v \in Cvs : v \in Objects
      BY DEF Objects
    <3> QED BY <1>0, <1>2, <1>7, <3>1
  <2>2. Lines'[q] = SubSeq(Lines[q], 1, Len(Lines[q]) - 1)
    BY <1>0, <1>2, <1>7, <1>12
  <2>3. Lines' = [Lines EXCEPT ![q] = SubSeq(Lines[q], 1, Len(Lines[q]) - 1)]
    BY <1>12, <2>1, <2>2, LineAt
  <2>4. Lines[q] # <<>> /\ Lines[q][Len(Lines[q])] = c
    BY <1>1, <1>7, <1>12
  <2> HIDE DEF c, q
  <2> QED BY <1>0, <1>2, <1>5, <1>6, <1>9, <1>12, <2>3, <2>4, GivesUpWait
<1> QED BY <1>0, <1>10, <1>11, <1>12 DEF Objects

LEMMA WakeRefines ==
  ASSUME SyncInv, SyncInv', SleepOK, CallsOK, ~ overflowed, ~ overflowed', wake
  PROVE  M!Next \/ UNCHANGED M!monitorVars
<1> DEFINE c == current_thread
           q == frame[c].queue
           u == Head(wq[q])
<1>0. /\ OuterStep /\ c \in Tids /\ current_thread' = c /\ Alive(c)
      /\ pc \in [Tids -> Labels] /\ frame \in [Tids -> Frames] /\ frame[c] \in Frames
      /\ wq \in [Objects -> Seq(Tids)]
      /\ state \in [Tids -> {"Destroyed", "Running", "Sleep"}]
      /\ MyFrame = frame[c] /\ FrameOK(frame[c]) /\ PlaceOK
      /\ pc[c] = "wakeup" /\ state[c] # "Sleep"
      /\ \A v \in Cvs : GoingToWait(v) => ~ WakingAll(v)
      /\ Locks \cap Cvs = {} /\ Queues \cap Locks = {} /\ Queues \cap Cvs = {} /\ None \notin Objects
  <2>1. SyncLibrary /\ pc[c] = "wakeup"
    BY DEF SyncLibrary, wake, At
  <2> QED BY <2>1, InCall
<1>1. /\ q \in Objects /\ (q \in Locks => frame[c].all)
      /\ frame[c].after # "return" => frame[c].mutex \in Locks
      /\ frame[c].after \in {"return", "cv_sleep"}
  BY <1>0 DEF SyncInv, FramesOK, PlaceOK
<1>2. wq[q] # <<>> /\ u \in Tids /\ EntryOf(u, q) /\ u # c
  <2>1. wq[q] # <<>> /\ wq[q] \in Seq(Tids)
    BY <1>0, <1>1 DEF wake, MyQueue
  <2>2. 1 \in 1 .. Len(wq[q]) /\ u = wq[q][1] /\ wq[q][1] \in Tids
    BY <2>1
  <2>3. EntryOf(wq[q][1], q)
    BY <1>1, <2>2, SleepParts DEF Entries
  <2> HIDE DEF u, c, q
  <2>4. u # c
    BY <1>0, <2>2, <2>3 DEF EntryOf
  <2> QED BY <2>1, <2>2, <2>3, <2>4
<1>3. /\ wq' = [wq EXCEPT ![q] = Tail(wq[q])]
      /\ UNCHANGED <<current, back>> /\ state' = [state EXCEPT ![u] = "Running"]
      /\ \A t \in Tids \ {c} : frame'[t] = frame[t]
      /\ frame[c].all => UNCHANGED <<pc, frame>>
      /\ ~ frame[c].all => pc'[c] = frame[c].after
  BY <1>0 DEF wake, MyQueue, CallReturns, SetFrame, Goto
<1>4. \A t \in Tids : \A o : EntryOf(t, o)' <=> EntryOf(t, o) /\ t # u
  <2> HIDE DEF u
  <2> SUFFICES ASSUME NEW t \in Tids, NEW o PROVE EntryOf(t, o)' <=> EntryOf(t, o) /\ t # u
    OBVIOUS
  <2>1. CASE t = c
    <3>1. state'[c] # "Sleep"
      BY <1>0, <1>3
    <3> QED BY <1>0, <2>1, <3>1 DEF EntryOf
  <2>2. CASE t # c
    BY <1>0, <1>3, <2>2 DEF EntryOf
  <2> QED BY <2>1, <2>2
<1>5. UNCHANGED Living
  <2>1. state[u] = "Sleep"
    BY <1>2 DEF EntryOf
  <2> HIDE DEF u
  <2>2. \A t \in Tids : Alive(t)' <=> Alive(t)
    BY <1>0, <1>3, <2>1 DEF Alive
  <2> QED BY <2>2, LivingKept
<1>6. \A v \in Cvs : v \in Objects
  BY DEF Objects
<1>7. CASE frame[c].all
  <2>1. \A o : /\ WakingAll(o)' <=> WakingAll(o)
               /\ WakingAll(o) <=> o = q
               /\ GoingToWait(o)' <=> GoingToWait(o)
    BY <1>0, <1>3, <1>7 DEF WakingAll, GoingToWait, MyFrame
  <2>2. \A v \in Cvs : Lines'[v] = Lines[v]
    <3> SUFFICES ASSUME NEW v \in Cvs PROVE Lines'[v] = Lines[v]
      OBVIOUS
    <3>1. v # q => wq'[v] = wq[v]
      BY <1>0, <1>3, <1>6
    <3>2. CASE GoingToWait(v)
      <4>1. ~ WakingAll(v) /\ ~ WakingAll(v)' /\ GoingToWait(v)' /\ v # q
        BY <1>0, <2>1, <3>2
      <4>2. Lines[v] = Append(wq[v], c)
        BY <3>2, <4>1, LineValue
      <4>3. Lines'[v] = Append(wq'[v], c)
        BY <1>0, <4>1, LineValueNext
      <4> QED BY <3>1, <4>1, <4>2, <4>3
    <3>3. CASE ~ GoingToWait(v)
      BY <2>1, <3>1, <3>3, LineValue, LineValueNext
    <3> QED BY <3>2, <3>3
  <2>3. UNCHANGED Lines
    BY <2>2, LinesKept
  <2>4. /\ BlockedOn' = BlockedOn
        /\ q \notin Queues => Elsewhere' = Elsewhere
        /\ q \in Queues => u \in Elsewhere /\ Elsewhere' = Elsewhere \ {u}
    <3> HIDE DEF u
    <3> QED BY <1>1, <1>2, <1>4, <2>1, LeavesQueue
  <2> HIDE DEF c, q, u
  <2> QED BY <1>2, <1>3, <1>5, <2>3, <2>4, ComesBack DEF M!monitorVars
<1>8. CASE ~ frame[c].all
  <2>1. q \notin Locks
    BY <1>1, <1>8
  <2>2. frame[c].after = "return" /\ frame[c].cond = None
    BY <1>0, <1>1, <2>1 DEF FrameOK
  <2>3. \A o : ~ WakingAll(o) /\ ~ WakingAll(o)'
    BY <1>0, <1>3, <1>8, <2>2 DEF WakingAll
  <2>4. \A v : ~ GoingToWait(v) /\ ~ GoingToWait(v)'
    BY <1>0, <1>3, <1>8, <2>2 DEF GoingToWait
  <2>5. \A v \in Cvs : Lines'[v] = wq'[v] /\ Lines[v] = wq[v]
    BY <2>3, <2>4, LineValue, LineValueNext
  <2>6. /\ BlockedOn' = BlockedOn
        /\ q \notin Queues => Elsewhere' = Elsewhere
        /\ q \in Queues => u \in Elsewhere /\ Elsewhere' = Elsewhere \ {u}
    <3> HIDE DEF u
    <3> QED BY <1>1, <1>2, <1>4, <2>1, <2>3, LeavesQueue
  <2>7. CASE q \in Queues
    <3>1. UNCHANGED Lines
      BY <1>0, <1>3, <1>6, <2>5, <2>7, LinesKept
    <3> HIDE DEF c, q, u
    <3> QED BY <1>2, <1>3, <1>5, <2>6, <2>7, <3>1, ComesBack
  <2>8. CASE q \in Cvs
    <3>1. PICK l \in Locks : current[l] = c
      BY <1>0, <2>8 DEF PlaceOK
    <3>2. M!Runs(c)
      BY <1>0, <2>4, RunningRuns
    <3>3. Lines'[q] = Tail(Lines[q]) /\ Lines[q] # <<>>
      BY <1>0, <1>1, <1>2, <1>3, <2>5, <2>8
    <3>4. \A v \in Cvs \ {q} : Lines'[v] = Lines[v]
      BY <1>0, <1>3, <1>6, <2>5
    <3>5. Lines' = [Lines EXCEPT ![q] = Tail(Lines[q])]
      BY <2>8, <3>3, <3>4, LineAt
    <3>6. UNCHANGED Elsewhere
      BY <1>0, <2>6, <2>8
    <3> HIDE DEF c, q, u
    <3> QED BY <1>0, <1>3, <1>5, <2>6, <2>8, <3>1, <3>2, <3>3, <3>5, <3>6, Signals
  <2> QED BY <1>1, <2>1, <2>7, <2>8 DEF Objects
<1> QED BY <1>7, <1>8

LEMMA StepRefines ==
  ASSUME OrderlyProgram, NobodyEnds, SyncInv, SleepOK, HolderOK, NobodyDies, SleeperQueued, CallsOK,
         [SyncNext]_allVars
  PROVE  [M!Next \/ overflowed']_(M!monitorVars)
<1> SUFFICES ASSUME ~ overflowed' PROVE M!Next \/ UNCHANGED M!monitorVars
  OBVIOUS
<1>1. ~ overflowed /\ SyncInv'
  BY FullOnce, StepSync
<1>2. CASE Alone
  BY <1>1, <1>2, AloneRefines
<1>3. CASE SyncLibrary
  BY <1>1, <1>3, SleepRefines, AloneAgainRefines, WakeRefines, AcquireRefines, InnerCalls DEF SyncLibrary
<1>4. CASE SyncUser
  BY <1>1, <1>4, LockReleaseRefines, WaitRefines, BroadcastRefines, PlainCalls DEF SyncUser
<1>5. CASE UNCHANGED allVars
  BY <1>5 DEF allVars, schedVars, syncVars, M!monitorVars, Living, Alive, BlockedOn, Lines, Elsewhere,
     EntryOf, WakingAll, GoingToWait, MyFrame
<1> QED BY <1>2, <1>3, <1>4, <1>5 DEF SyncNext

LEMMA StepCalls ==
  ASSUME OrderlyProgram, NobodyEnds, SyncInv, SleepOK, NobodyDies, NoLostThread, CallsOK,
         [SyncNext]_allVars
  PROVE  CallsOK'
<1>1. CASE overflowed
  BY <1>1, FullOnce DEF CallsOK
<1>2. CASE ~ overflowed
  <2>1. CASE UNCHANGED allVars
    BY <2>1 DEF allVars, schedVars, syncVars, CallsOK, FrameOK, PlaceOK, MyFrame
  <2> QED BY <1>2, <2>1, AloneKeepsCalls, CallKeepsCalls DEF SyncNext
<1> QED BY <1>1, <1>2

LEMMA InitCalls == SyncInit => CallsOK
  BY SchedulerAssumption
     DEF SyncInit, Init, CallsOK, FrameOK, PlaceOK, MyFrame, NoFrame, Tids

LEMMA InitRefines == SyncInit => M!Init
<1> SUFFICES ASSUME SyncInit PROVE M!Init
  OBVIOUS
<1>1. /\ 0 \in Tids /\ current_thread = 0 /\ pc[0] = "user"
      /\ \A t \in Tids : state[t] = IF t = 0 THEN "Running" ELSE "Destroyed"
      /\ current = [l \in Locks |-> -1] /\ wq = [o \in Objects |-> <<>>]
  BY SchedulerAssumption DEF SyncInit, Init, Tids
<1>2. \A o : ~ WakingAll(o) /\ ~ GoingToWait(o)
  BY <1>1 DEF WakingAll, GoingToWait
<1>3. \A t \in Tids : \A o : ~ EntryOf(t, o)
  BY <1>1 DEF EntryOf
<1>4. Living = {0}
  BY <1>1 DEF Living, Alive
<1>5. BlockedOn = [l \in Locks |-> {}] /\ Elsewhere = {}
  BY <1>3 DEF BlockedOn, Elsewhere
<1>6. Lines = [v \in Cvs |-> <<>>]
  <2>1. \A v \in Cvs : Lines[v] = <<>>
    BY <1>1, <1>2, InitSync, LineValue DEF Objects
  <2>2. Lines = [v \in Cvs |-> Lines[v]]
    BY DEF Lines
  <2> QED BY <2>1, <2>2
<1> QED BY <1>1, <1>4, <1>5, <1>6 DEF M!Init

(* Locks and condition variables keep the promise of Monitor in an orderly *)
(* program in which nobody ends, whatever its threads, objects and calls:  *)
(* every step is one of the monitor or changes nothing that the monitor    *)
(* sees, until a queue has been full.  cv_wait gives up the lock and waits *)
(* at once, although lock_release, thread_sleep and the switch are steps   *)
(* of their own, and only a thread that finds everyone else asleep gives   *)
(* up waiting.                                                             *)
THEOREM MonitorIsImplemented ==
  ASSUME OrderlyProgram, NobodyEnds PROVE SyncSpec => MonitorImplements
<1> DEFINE Inv == SyncInv /\ SleepOK /\ SleeperQueued /\ NoLostThread
           IInv == NobodyDies /\ HolderOK /\ CallsOK
<1>0. Disciplined
  BY DEF OrderlyProgram
<1>1. SyncSpec => []Inv
  BY SyncInvAlways, QueuesHoldSleepers, SleepersAreQueued, WokenIsNotLost, PTL DEF WokenNotLost
<1>2. SyncInit => IInv /\ M!Init
  BY InitHolder, InitCalls, InitRefines
<1>3. Inv /\ IInv /\ [SyncNext]_allVars => IInv'
  BY <1>0, StepHolder, StepCalls
<1>4. Inv /\ IInv /\ [SyncNext]_allVars => [M!Next \/ overflowed']_(M!monitorVars)
  BY StepRefines
<1> QED BY <1>1, <1>2, <1>3, <1>4, PTL DEF SyncSpec, MonitorImplements
=============================================================================
