-------------------------- MODULE SchedulerProofs --------------------------
(***************************************************************************)
(* Proofs about Scheduler, for any number of threads, any size of the      *)
(* ready queue and any program (any set Calls), with or without            *)
(* preemption and with or without a failing malloc.                        *)
(*                                                                         *)
(* TypeOK /\ DispatchOK is inductive; on top of it ControlOK, which says   *)
(* where every thread, running or suspended, is in its library call and on *)
(* whose stack it runs.  What the exits, the stacks and the signal mask    *)
(* promise follows from ControlOK and one small strengthening each.  That  *)
(* no runnable thread is lost and none sleeps without a waker needs the    *)
(* types alone.                                                            *)
(***************************************************************************)
EXTENDS Scheduler, TLAPS

(* The labels of other modules are none of those of this one. *)
LEMMA LabelsApart == \A l \in OuterLabels : l \notin OwnReturns \cup OwnLabels
  BY SchedulerAssumption

LEMMA InitType == Init => TypeOK
  BY SchedulerAssumption DEF Init, TypeOK, Tids, Labels, ReturnLabels, OwnLabels, OwnReturns, KILLED, THREAD_ANY

(* The arguments of the program's calls are integers. *)
LEMMA CallArgument ==
  ASSUME NEW op, NEW c \in Call(op), current_thread \in Tids PROVE c \in Int
  BY SchedulerAssumption DEF Call

(* queue_push keeps the ready queue a bounded sequence of threads; so does *)
(* taking its first entries off.                                           *)
LEMMA PushedType ==
  ASSUME NEW q \in Seq(Tids), Len(q) <= QCap, NEW t \in Tids
  PROVE  Pushed(q, t) \in Seq(Tids) /\ Len(Pushed(q, t)) <= QCap
  BY SchedulerAssumption DEF Pushed

LEMMA SubSeqType ==
  ASSUME NEW q \in Seq(Tids), Len(q) <= QCap, NEW i \in 1 .. Len(q)
  PROVE  /\ SubSeq(q, i + 1, Len(q)) \in Seq(Tids)
         /\ Len(SubSeq(q, i + 1, Len(q))) = Len(q) - i
         /\ Len(SubSeq(q, i + 1, Len(q))) <= QCap
<1>1. SubSeq(q, i + 1, Len(q)) \in Seq(Tids)
  OBVIOUS
<1>2. Len(SubSeq(q, i + 1, Len(q))) = Len(q) - i
  OBVIOUS
<1> QED BY <1>1, <1>2, SchedulerAssumption

LEMMA GotoType ==
  ASSUME TypeOK, NEW label \in Labels, Goto(label) PROVE pc' \in [Tids -> Labels]
  BY DEF TypeOK, Goto

(* Entering the library keeps the types of what it writes. *)
LEMMA EnterType ==
  ASSUME TypeOK, NEW label \in Labels, Enter(label)
  PROVE  pc' \in [Tids -> Labels] /\ sig' \in [Tids -> BOOLEAN] /\ intr' \in BOOLEAN
<1>1. pc' \in [Tids -> Labels]
  BY DEF TypeOK, Enter, Goto
<1>2. sig' \in [Tids -> BOOLEAN]
  BY DEF TypeOK, Enter
<1>3. intr' \in BOOLEAN
  BY DEF Enter
<1> QED BY <1>1, <1>2, <1>3

(* Every step keeps the types. Only handle_death needs more than the       *)
(* types: the thread it destroys must be one.                              *)
LEMMA StepType == TypeOK /\ DispatchOK /\ [Next]_schedVars => TypeOK'
<1> SUFFICES ASSUME TypeOK, DispatchOK, [Next]_schedVars PROVE TypeOK'
  OBVIOUS
<1> USE LabelsApart DEF TypeOK, At, Goto, table, admin, locals, history, Labels, ReturnLabels, OwnLabels, OwnReturns
<1>1. CASE Return
  BY <1>1 DEF Return, LeaveLocals, THREAD_ANY
<1>2. CASE sigreturn
  BY <1>2 DEF sigreturn, LeaveLocals, THREAD_ANY
<1>3. CASE thread_stub
  BY <1>3 DEF thread_stub
<1>4. ASSUME NEW v \in Int, NEW q \in Seq(Tids), Len(q) <= QCap, YieldReturns(v, q)
      PROVE  TypeOK'
  BY <1>4 DEF YieldReturns, Answer
<1>5. CASE yield_self
  <2>1. current_thread \in Int BY DEF Tids
  <2> QED BY <1>4, <1>5, <2>1 DEF yield_self
<1>6. CASE yield_none
  <2>1. <<>> \in Seq(Tids) /\ Len(<<>>) <= QCap
    BY SchedulerAssumption
  <2>2. YieldReturns(THREAD_NONE, <<>>) /\ THREAD_NONE \in Int
    BY <1>6 DEF yield_none, THREAD_NONE
  <2> QED BY <1>4, <2>1, <2>2
<1>7. CASE yield_invalid
  <2>1. YieldReturns(THREAD_INVALID, thread_queue) /\ THREAD_INVALID \in Int
    BY <1>7 DEF yield_invalid, THREAD_INVALID
  <2> QED BY <1>4, <2>1
<1>8. ASSUME NEW t \in Tids, NEW q \in Seq(Tids), Len(q) <= QCap, SwitchTo(t, q)
      PROVE  TypeOK'
  <2>1. thread_queue' \in Seq(Tids) /\ Len(thread_queue') <= QCap
    BY <1>8, PushedType DEF SwitchTo
  <2>2. refused' \subseteq Tids /\ overflowed' \in BOOLEAN
    BY <1>8 DEF SwitchTo, Refused, Overflows
  <2>3. t \in Int
    BY DEF Tids
  <2> QED BY <1>8, <2>1, <2>2, <2>3 DEF SwitchTo
<1>9. CASE yield_any
  <2>1. PICK i \in 1 .. Len(thread_queue) :
          SwitchTo(thread_queue[i], SubSeq(thread_queue, i + 1, Len(thread_queue)))
    BY <1>9 DEF yield_any
  <2>2. thread_queue[i] \in Tids
    OBVIOUS
  <2>3. /\ SubSeq(thread_queue, i + 1, Len(thread_queue)) \in Seq(Tids)
        /\ Len(SubSeq(thread_queue, i + 1, Len(thread_queue))) <= QCap
    BY SubSeqType
  <2> QED BY <1>8, <2>1, <2>2, <2>3
<1>10. CASE yield_to
  BY <1>8, <1>10 DEF yield_to, Available
<1>11. CASE resumed
  BY <1>11 DEF resumed, Answer
<1>12. CASE admin_mode
  <2>1. pc' \in [Tids -> Labels] /\ back' \in [Tids -> ReturnLabels]
    BY <1>12 DEF admin_mode
  <2>2. tid' \in [Tids -> Int]
    BY <1>12 DEF admin_mode, Tids
  <2> QED BY <1>12, <2>1, <2>2 DEF admin_mode
<1>13. CASE admin_next
  <2>1. pc' \in [Tids -> Labels] /\ back' \in [Tids -> ReturnLabels]
    BY <1>13 DEF admin_next
  <2>2. want' \in [Tids -> Int]
    BY <1>13 DEF admin_next, THREAD_ANY
  <2>3. administrative_mode' \in BOOLEAN /\ thread_to_destroy' \in Tids \cup {-1}
    BY <1>13 DEF admin_next
  <2> QED BY <1>13, <2>1, <2>2, <2>3 DEF admin_next
<1>14. ASSUME NEW how \in {"exited", "failed", "aborted", "undefined"}, Stop(how)
       PROVE  TypeOK'
  BY <1>14 DEF Stop
<1>15. CASE admin_none
  BY <1>14, <1>15 DEF admin_none
<1>16. CASE assert_waiter \/ exit_none \/ create_no_memory \/ assert_interrupts
  BY <1>14, <1>16 DEF assert_waiter, exit_none, create_no_memory, assert_interrupts
<1>17. CASE kill_call
  <2> PICK t \in Call("kill") : tid' = [tid EXCEPT ![current_thread] = t]
    BY <1>17 DEF kill_call
  <2>1. tid' \in [Tids -> Int]
    BY CallArgument
  <2>2. pc' \in [Tids -> Labels] /\ sig' \in [Tids -> BOOLEAN] /\ intr' \in BOOLEAN
    BY <1>17, EnterType DEF kill_call
  <2>3. back' \in [Tids -> ReturnLabels]
    BY <1>17 DEF kill_call
  <2> QED BY <1>17, <2>1, <2>2, <2>3 DEF kill_call
<1>18. CASE thread_kill
  BY <1>18 DEF thread_kill
<1>19. CASE kill_invalid
  BY <1>19 DEF kill_invalid, Answer, THREAD_INVALID
<1>20. CASE killed
  BY <1>20 DEF killed, Answer
<1>21. CASE handle_death
  <2>1. state' \in [Tids -> {"Destroyed", "Running", "Sleep"}]
    BY <1>21 DEF handle_death
  <2>2. want' \in [Tids -> Int]
    <3>1. waiter[tid[current_thread]] \in Int
      BY <1>21 DEF handle_death, DispatchOK, Tids
    <3> QED BY <1>21, <3>1 DEF handle_death
  <2>3. pc' \in [Tids -> Labels]
    <3>1. "yield" \in Labels /\ back[current_thread] \in Labels
      OBVIOUS
    <3>2. Goto("yield") \/ Goto(back[current_thread])
      BY <1>21 DEF handle_death
    <3> QED BY <3>1, <3>2, GotoType
  <2> QED BY <1>21, <2>1, <2>2, <2>3 DEF handle_death
<1>22. CASE exit_next
  BY <1>22 DEF exit_next, THREAD_ANY
<1>23. CASE waited
  BY <1>23 DEF waited, Answer
<1>24. CASE Mask
  BY <1>24 DEF Mask
<1>25. CASE interrupt_handler
  <2>1. pc' \in [Tids -> Labels] /\ back' \in [Tids -> ReturnLabels]
    BY <1>25 DEF interrupt_handler
  <2>2. want' \in [Tids -> Int]
    BY <1>25 DEF interrupt_handler, THREAD_ANY
  <2>3. intr' \in BOOLEAN
    BY <1>25 DEF interrupt_handler
  <2> QED BY <1>25, <2>1, <2>2, <2>3 DEF interrupt_handler
<1>26. CASE thread_create
  <2>1. CASE create_no_more
    <3>1. pc' \in [Tids -> Labels] /\ sig' \in [Tids -> BOOLEAN] /\ intr' \in BOOLEAN
      BY <2>1, EnterType DEF create_no_more
    <3>2. ret' \in [Tids -> Int]
      BY <2>1 DEF create_no_more, Answer, THREAD_NOMORE
    <3> QED BY <2>1, <3>1, <3>2 DEF create_no_more
  <2>2. CASE \E t \in Tids : create_thread(t)
    <3> PICK t \in Tids : create_thread(t)
      BY <2>2
    <3>1. thread_queue' \in Seq(Tids) /\ Len(thread_queue') <= QCap
      BY PushedType DEF create_thread
    <3>2. /\ state' \in [Tids -> {"Destroyed", "Running", "Sleep"}]
          /\ waiter' \in [Tids -> Tids \cup {-1}]
          /\ exit_code' \in [Tids -> Int]
      BY DEF create_thread, NewEntry, KILLED
    <3>3. refused' \subseteq Tids /\ overflowed' \in BOOLEAN
      BY DEF create_thread, Refused, Overflows
    <3>4. tid' \in [Tids -> Int] /\ want' \in [Tids -> Int] /\ ret' \in [Tids -> Int]
      BY DEF create_thread, THREAD_ANY, Tids
    <3> QED BY <3>1, <3>2, <3>3, <3>4 DEF create_thread
  <2> QED BY <1>26, <2>1, <2>2 DEF thread_create
<1>27. CASE yield_call
  <2> PICK w \in Call("yield") :
        /\ want' = [want EXCEPT ![current_thread] = w]
        /\ back' = [back EXCEPT ![current_thread] = "return"]
    BY <1>27 DEF yield_call
  <2>1. want' \in [Tids -> Int] /\ back' \in [Tids -> ReturnLabels]
    BY CallArgument
  <2>2. pc' \in [Tids -> Labels] /\ sig' \in [Tids -> BOOLEAN] /\ intr' \in BOOLEAN
    BY <1>27, EnterType DEF yield_call
  <2> QED BY <1>27, <2>1, <2>2 DEF yield_call
<1>28. CASE thread_exit
  <2>1. 0 \in Tids
    BY SchedulerAssumption DEF Tids
  <2> PICK code \in Call("exit") : exit_code' = [exit_code EXCEPT ![current_thread] = code]
    BY <1>28 DEF thread_exit
  <2>2. exit_code' \in [Tids -> Int]
    BY CallArgument
  <2>3. pc' \in [Tids -> Labels] /\ sig' \in [Tids -> BOOLEAN] /\ intr' \in BOOLEAN
    BY <1>28, <2>1, EnterType DEF thread_exit
  <2>4. on_stack' \in Tids
    BY <1>28, <2>1 DEF thread_exit
  <2> QED BY <1>28, <2>2, <2>3, <2>4 DEF thread_exit
<1>29. CASE exit_main
  <2> PICK code \in Call("exit") : exit_code' = [exit_code EXCEPT ![current_thread] = code]
    BY <1>29 DEF exit_main
  <2>1. exit_code' \in [Tids -> Int]
    BY CallArgument
  <2>2. pc' \in [Tids -> Labels] /\ sig' \in [Tids -> BOOLEAN] /\ intr' \in BOOLEAN
    BY <1>29, EnterType DEF exit_main
  <2>3. tid' \in [Tids -> Int] /\ back' \in [Tids -> ReturnLabels]
    BY <1>29 DEF exit_main, Tids
  <2> QED BY <1>29, <2>1, <2>2, <2>3 DEF exit_main
<1>30. CASE thread_wait
  <2> PICK t \in Call("wait") : wait_invalid(t) \/ wait_exited(t) \/ wait_sleep(t)
    BY <1>30 DEF thread_wait
  <2>1. t \in Int
    BY CallArgument
  <2>2. CASE wait_invalid(t)
    <3>1. pc' \in [Tids -> Labels] /\ sig' \in [Tids -> BOOLEAN] /\ intr' \in BOOLEAN
      BY <2>2, EnterType DEF wait_invalid
    <3>2. ret' \in [Tids -> Int]
      BY <2>2 DEF wait_invalid, Answer, THREAD_INVALID
    <3> QED BY <2>2, <3>1, <3>2 DEF wait_invalid
  <2>3. CASE wait_exited(t)
    <3>1. pc' \in [Tids -> Labels] /\ sig' \in [Tids -> BOOLEAN] /\ intr' \in BOOLEAN
      BY <2>3, EnterType DEF wait_exited
    <3>2. tid' \in [Tids -> Int]
      BY <2>1, <2>3 DEF wait_exited
    <3> QED BY <2>3, <3>1, <3>2 DEF wait_exited
  <2>4. CASE wait_sleep(t)
    <3>1. pc' \in [Tids -> Labels] /\ sig' \in [Tids -> BOOLEAN] /\ intr' \in BOOLEAN
      BY <2>4, EnterType DEF wait_sleep
    <3>2. /\ state' \in [Tids -> {"Destroyed", "Running", "Sleep"}]
          /\ waiter' \in [Tids -> Tids \cup {-1}]
      BY <2>4 DEF wait_sleep
    <3>3. tid' \in [Tids -> Int] /\ want' \in [Tids -> Int]
      BY <2>1, <2>4 DEF wait_sleep, THREAD_ANY
    <3>4. back' \in [Tids -> ReturnLabels]
      BY <2>4 DEF wait_sleep
    <3> QED BY <2>4, <3>1, <3>2, <3>3, <3>4 DEF wait_sleep
  <2> QED BY <2>2, <2>3, <2>4
<1>31. CASE UNCHANGED schedVars
  BY <1>31 DEF schedVars
<1> QED
  BY <1>1, <1>2, <1>3, <1>5, <1>6, <1>7, <1>9, <1>10, <1>11, <1>12, <1>13, <1>15,
     <1>16, <1>17, <1>18, <1>19, <1>20, <1>21, <1>22, <1>23, <1>24, <1>25, <1>26,
     <1>27, <1>28, <1>29, <1>30, <1>31 DEF Next, Library, Yielding, User, Ended

(* DispatchOK: who may be resumed where; with the types, inductive. *)
LEMMA InitDispatch == Init => DispatchOK
  BY SchedulerAssumption DEF Init, DispatchOK, Tids

(* A step that leaves the processor with its thread and moves that thread  *)
(* to a label other than "death".                                          *)
LEMMA GotoDispatch ==
  ASSUME TypeOK, DispatchOK, NEW label \in Labels \ {"death"}, Goto(label),
         UNCHANGED current_thread
  PROVE  DispatchOK'
  BY DEF TypeOK, DispatchOK, Goto

LEMMA StepDispatch == TypeOK /\ DispatchOK /\ [Next]_schedVars => DispatchOK'
<1> SUFFICES ASSUME TypeOK, DispatchOK, [Next]_schedVars PROVE DispatchOK'
  OBVIOUS
<1> USE LabelsApart DEF Labels, ReturnLabels, OwnLabels, OwnReturns
<1>1. CASE Return \/ sigreturn \/ thread_stub \/ admin_mode \/ admin_next
  BY <1>1, GotoDispatch DEF Return, sigreturn, thread_stub, admin_mode, admin_next
<1>2. CASE kill_invalid \/ killed \/ exit_next \/ waited \/ interrupt_handler
  BY <1>2, GotoDispatch DEF kill_invalid, killed, exit_next, waited, interrupt_handler
<1>3. CASE yield_call \/ kill_call \/ thread_wait
  BY <1>3, GotoDispatch DEF yield_call, kill_call, thread_wait, wait_invalid,
     wait_exited, wait_sleep, Enter
<1>4. back[current_thread] \in Labels \ {"death"}
  BY DEF TypeOK
<1>5. CASE yield_self \/ yield_none \/ yield_invalid \/ resumed
  BY <1>4, <1>5, GotoDispatch DEF yield_self, yield_none, yield_invalid, YieldReturns, resumed
<1>6. ASSUME NEW t \in Tids \ {current_thread}, NEW q, SwitchTo(t, q) PROVE DispatchOK'
  BY <1>6 DEF SwitchTo, TypeOK, DispatchOK
<1>7. CASE yield_any
  <2> PICK i \in 1 .. Len(thread_queue) :
        /\ Runnable(thread_queue[i])
        /\ SwitchTo(thread_queue[i], SubSeq(thread_queue, i + 1, Len(thread_queue)))
    BY <1>7 DEF yield_any, Picks
  <2>1. thread_queue[i] \in Tids \ {current_thread}
    BY DEF TypeOK, Runnable
  <2> QED BY <2>1, <1>6
<1>8. CASE yield_to
  BY <1>6, <1>8 DEF yield_to, Available
<1>9. CASE admin_none \/ assert_waiter \/ exit_none \/ create_no_memory \/ assert_interrupts
  BY <1>9 DEF admin_none, assert_waiter, exit_none, create_no_memory, assert_interrupts,
     Stop, locals, DispatchOK
<1>10. CASE thread_kill
  BY <1>10 DEF thread_kill, MayDie, Available, locals, Goto, TypeOK, DispatchOK
<1>11. CASE handle_death
  <2>1. Goto("yield") \/ Goto(back[current_thread])
    BY <1>11 DEF handle_death
  <2> QED BY <1>4, <1>11, <2>1, GotoDispatch DEF handle_death
<1>12. CASE Mask
  BY <1>12 DEF Mask, locals, DispatchOK
<1>13. CASE thread_create
  <2>1. CASE create_no_more
    BY <1>13, <2>1, GotoDispatch DEF create_no_more, Enter
  <2>2. ASSUME NEW t \in Tids, create_thread(t) PROVE DispatchOK'
    BY <2>2 DEF create_thread, TypeOK, DispatchOK
  <2> QED BY <1>13, <2>1, <2>2 DEF thread_create
<1>14. CASE thread_exit
  <2>1. pc[0] = "resumed"
    BY <1>14, SchedulerAssumption DEF thread_exit, DispatchOK, Tids
  <2> QED BY <1>14, <2>1, GotoDispatch DEF thread_exit, Enter
<1>15. CASE exit_main
  BY <1>15 DEF exit_main, Enter, Goto, TypeOK, DispatchOK
<1>16. CASE UNCHANGED schedVars
  BY <1>16 DEF schedVars, DispatchOK
<1> QED
  BY <1>1, <1>2, <1>3, <1>5, <1>7, <1>8, <1>9, <1>10, <1>11, <1>12, <1>13, <1>14,
     <1>15, <1>16 DEF Next, Library, Yielding, User, Ended

(* Whatever the program calls, the thread table, the ready queue, the      *)
(* saved contexts and the locals of the library calls of thread.c keep     *)
(* their types; in particular the ready queue never exceeds its array, and *)
(* waiter and current_thread index the thread table.                       *)
THEOREM TypeCorrect == Spec => []TypeOK
<1>1. Init => TypeOK /\ DispatchOK
  BY InitType, InitDispatch
<1>2. TypeOK /\ DispatchOK /\ [Next]_schedVars => (TypeOK /\ DispatchOK)'
  BY StepType, StepDispatch
<1> QED BY <1>1, <1>2, PTL DEF Spec

------------------------------------------------------------------------------
(* ControlOK is inductive with TypeOK. *)
LEMMA InitControl == Init => ControlOK
<1>1. Init => SuspendedOK /\ AdminOK /\ WaiterOK
  BY SchedulerAssumption DEF Init, SuspendedOK, AdminOK, WaiterOK, Alive, Tids
<1>2. Init => PathOK
  BY SchedulerAssumption DEF Init, PathOK, Alive, OnOwnStack, LiveReturns, Tids
<1> QED BY <1>1, <1>2, InitDispatch DEF ControlOK

(* thread_wait refuses the caller as its own target, and a new thread has  *)
(* no waiter: no thread comes to wait for itself.                          *)
LEMMA StepWaiter == TypeOK /\ WaiterOK /\ [Next]_schedVars => WaiterOK'
<1> SUFFICES ASSUME TypeOK, WaiterOK, [Next]_schedVars PROVE WaiterOK'
  OBVIOUS
<1>1. ASSUME UNCHANGED waiter PROVE WaiterOK'
  BY <1>1 DEF WaiterOK
<1>2. CASE Library
  BY <1>1, <1>2 DEF Library, Return, sigreturn, thread_stub, Yielding, yield_self, yield_any,
     yield_none, yield_to, yield_invalid, YieldReturns, SwitchTo, resumed, admin_mode,
     admin_next, admin_none, thread_kill, kill_invalid, killed, assert_waiter, exit_next,
     exit_none, waited, handle_death, Stop, table
<1>3. CASE Mask \/ create_no_memory \/ assert_interrupts \/ yield_call \/ kill_call
           \/ thread_exit \/ exit_main \/ interrupt_handler \/ Ended
  BY <1>1, <1>3 DEF Mask, create_no_memory, assert_interrupts, yield_call, kill_call,
     thread_exit, exit_main, interrupt_handler, Ended, Stop, table, schedVars
<1>4. CASE thread_create
  <2>1. CASE create_no_more
    BY <1>1, <2>1 DEF create_no_more, table
  <2>2. ASSUME NEW t \in Tids, create_thread(t) PROVE WaiterOK'
    BY <2>2 DEF create_thread, NewEntry, TypeOK, WaiterOK, Tids
  <2> QED BY <1>4, <2>1, <2>2 DEF thread_create
<1>5. CASE thread_wait
  <2> PICK t \in Call("wait") : wait_invalid(t) \/ wait_exited(t) \/ wait_sleep(t)
    BY <1>5 DEF thread_wait
  <2>1. CASE wait_invalid(t) \/ wait_exited(t)
    BY <1>1, <2>1 DEF wait_invalid, wait_exited, table
  <2>2. CASE wait_sleep(t)
    BY <2>2 DEF wait_sleep, WaitRefused, TypeOK, WaiterOK
  <2> QED BY <2>1, <2>2
<1>6. CASE UNCHANGED schedVars
  BY <1>1, <1>6 DEF schedVars
<1> QED
  BY <1>2, <1>3, <1>4, <1>5, <1>6 DEF Next, User

(* A step that leaves the processor, the stacks and the states alone, and  *)
(* writes only locals of the running thread.                               *)
LEMMA KeepsSuspended ==
  ASSUME SuspendedOK, UNCHANGED <<state, ctx, current_thread>>,
         \A t \in Tids \ {current_thread} : pc'[t] = pc[t] /\ back'[t] = back[t]
  PROVE  SuspendedOK'
  BY DEF SuspendedOK, Alive

(* How each step of the library moves control; YieldReturns and SwitchTo   *)
(* are what the branches of thread_yield have in common.                   *)
LEMMA StepControl == TypeOK /\ ControlOK /\ [Next]_schedVars => (SuspendedOK /\ AdminOK /\ PathOK)'
<1> SUFFICES ASSUME TypeOK, ControlOK, [Next]_schedVars PROVE (SuspendedOK /\ AdminOK /\ PathOK)'
  OBVIOUS
<1> DEFINE c == current_thread
<1>0. c \in Tids /\ pc \in [Tids -> Labels] /\ back \in [Tids -> ReturnLabels]
  BY DEF TypeOK
<1> USE LabelsApart DEF At, Goto, table, admin, locals, history, ControlOK, LiveReturns, OwnLabels, OwnReturns
<1>1. CASE Return
  <2>1. SuspendedOK'
    BY <1>0, <1>1, KeepsSuspended DEF Return, LeaveLocals
  <2>2. AdminOK'
    BY <1>0, <1>1 DEF Return, AdminOK
  <2>3. PathOK'
    BY <1>0, <1>1 DEF Return, LeaveLocals, PathOK, OnOwnStack, Alive
  <2> QED BY <2>1, <2>2, <2>3
<1>2. CASE sigreturn
  <2>1. SuspendedOK'
    BY <1>0, <1>2, KeepsSuspended DEF sigreturn, LeaveLocals
  <2>2. AdminOK'
    BY <1>0, <1>2 DEF sigreturn, AdminOK
  <2>3. PathOK'
    BY <1>0, <1>2 DEF sigreturn, LeaveLocals, PathOK, OnOwnStack, Alive
  <2> QED BY <2>1, <2>2, <2>3
<1>3. CASE thread_stub
  <2>1. SuspendedOK'
    BY <1>0, <1>3, KeepsSuspended DEF thread_stub
  <2>2. AdminOK'
    BY <1>0, <1>3 DEF thread_stub, AdminOK
  <2>3. PathOK'
    BY <1>0, <1>3 DEF thread_stub, PathOK, OnOwnStack, Alive
  <2> QED BY <2>1, <2>2, <2>3
<1>4. ASSUME NEW v, NEW q, pc[c] = "yield", YieldReturns(v, q),
             want[c] = THREAD_ANY => v = THREAD_NONE,
             want[c] = THREAD_ANY \/ ~ Available(want[c]) \/ want[c] = c
      PROVE  (SuspendedOK /\ AdminOK /\ PathOK)'
  <2>1. SuspendedOK'
    BY <1>0, <1>4, KeepsSuspended DEF YieldReturns
  <2>2. AdminOK'
    BY <1>0, <1>4 DEF YieldReturns, AdminOK
  <2>3. PathOK'
    <3>1. \/ OnOwnStack(c) /\ back[c] \in LiveReturns
          \/ /\ Dismantled(c) /\ back[c] = (IF c = 0 THEN "exit_none" ELSE "admin_none")
             /\ want[c] = THREAD_ANY
      BY <1>0, <1>4 DEF PathOK, Available, THREAD_ANY, Tids
    <3>2. ret' = [ret EXCEPT ![c] = v] /\ ret \in [Tids -> Int]
      BY <1>4 DEF YieldReturns, Answer, TypeOK
    <3> QED BY <1>0, <1>4, <3>1, <3>2 DEF YieldReturns, PathOK, OnOwnStack, Dismantled, Alive
  <2> QED BY <2>1, <2>2, <2>3
<1>5. CASE yield_self
  <2>1. want[c] \in {THREAD_SELF, c} /\ YieldReturns(c, thread_queue) /\ pc[c] = "yield"
    BY <1>5 DEF yield_self
  <2>2. want[c] # THREAD_ANY /\ (~ Available(want[c]) \/ want[c] = c)
    BY <1>0, <2>1 DEF Available, THREAD_SELF, THREAD_ANY, Tids
  <2> QED BY <1>4, <2>1, <2>2
<1>6. CASE yield_none
  BY <1>4, <1>6 DEF yield_none
<1>7. CASE yield_invalid
  BY <1>4, <1>7 DEF yield_invalid
<1>8. ASSUME NEW t \in Tids \ {c}, NEW q, pc[c] = "yield", Alive(t), SwitchTo(t, q)
      PROVE  (SuspendedOK /\ AdminOK /\ PathOK)'
  <2>1. /\ pc' = [pc EXCEPT ![c] = "resumed"] /\ ctx' = [ctx EXCEPT ![c] = on_stack]
        /\ current_thread' = t /\ on_stack' = ctx[t] /\ ctx \in [Tids -> Tids]
        /\ UNCHANGED <<state, back, administrative_mode>>
    BY <1>8 DEF SwitchTo, TypeOK
  <2>2. /\ Alive(c) => on_stack = c /\ back[c] \in LiveReturns
        /\ c = 0 => on_stack = c
    BY <1>8 DEF PathOK, OnOwnStack, Dismantled
  <2>3. pc[t] \in {"stub", "resumed"} /\ ctx[t] = t /\ back[t] \in LiveReturns
        /\ (pc[t] = "stub" => back[t] = "return")
    BY <1>8 DEF SuspendedOK, DispatchOK
  <2>4. ~ administrative_mode
    BY <1>8 DEF AdminOK
  <2>5. SuspendedOK'
    BY <1>0, <2>1, <2>2 DEF SuspendedOK, Alive
  <2>6. AdminOK'
    BY <2>1, <2>4 DEF AdminOK
  <2>7. PathOK'
    BY <1>0, <1>8, <2>1, <2>3 DEF PathOK, OnOwnStack, Alive
  <2> QED BY <2>5, <2>6, <2>7
<1>9. CASE yield_any
  <2> PICK i \in 1 .. Len(thread_queue) :
        /\ Runnable(thread_queue[i])
        /\ SwitchTo(thread_queue[i], SubSeq(thread_queue, i + 1, Len(thread_queue)))
    BY <1>9 DEF yield_any, Picks
  <2>1. thread_queue[i] \in Tids \ {c} /\ Alive(thread_queue[i])
    BY DEF TypeOK, Runnable, Alive
  <2>2. pc[c] = "yield"
    BY <1>9 DEF yield_any
  <2> QED BY <2>1, <2>2, <1>8
<1>10. CASE yield_to
  BY <1>8, <1>10 DEF yield_to, Available, Alive
<1>11. CASE resumed
  <2>1. SuspendedOK'
    BY <1>0, <1>11, KeepsSuspended DEF resumed
  <2>2. AdminOK'
    BY <1>0, <1>11 DEF resumed, AdminOK
  <2>3. PathOK'
    BY <1>0, <1>11 DEF resumed, PathOK, OnOwnStack, Alive
  <2> QED BY <2>1, <2>2, <2>3
<1>12. CASE admin_mode
  <2>0. tid' = [tid EXCEPT ![c] = c] /\ tid \in [Tids -> Int]
    BY <1>12 DEF admin_mode, TypeOK
  <2>1. SuspendedOK'
    BY <1>0, <1>12, KeepsSuspended DEF admin_mode
  <2>2. AdminOK'
    BY <1>0, <1>12, <2>0 DEF admin_mode, AdminOK, Alive
  <2>3. PathOK'
    BY <1>0, <1>12 DEF admin_mode, PathOK
  <2> QED BY <2>1, <2>2, <2>3
<1>13. CASE admin_next
  <2>1. SuspendedOK'
    BY <1>0, <1>13, KeepsSuspended DEF admin_next
  <2>2. AdminOK'
    BY <1>0, <1>13 DEF admin_next, AdminOK
  <2>3. PathOK'
    <3>1. want' = [want EXCEPT ![c] = THREAD_ANY] /\ want \in [Tids -> Int]
      BY <1>13 DEF admin_next, TypeOK
    <3> QED BY <1>0, <1>13, <3>1 DEF admin_next, PathOK, OnOwnStack, Alive, Dismantled
  <2> QED BY <2>1, <2>2, <2>3
<1>14. CASE admin_none \/ assert_waiter \/ exit_none \/ create_no_memory \/ assert_interrupts
  <2>1. UNCHANGED <<state, current_thread, pc, ctx, back, tid, want, ret, on_stack,
                    administrative_mode, thread_to_destroy>>
    BY <1>14 DEF admin_none, assert_waiter, exit_none, create_no_memory, assert_interrupts, Stop
  <2> QED BY <2>1 DEF SuspendedOK, AdminOK, PathOK, OnOwnStack, Dismantled, Alive
<1>15. CASE kill_call
  <2>1. SuspendedOK'
    BY <1>0, <1>15, KeepsSuspended DEF kill_call, Enter
  <2>2. AdminOK'
    BY <1>0, <1>15 DEF kill_call, AdminOK, Enter
  <2>3. PathOK'
    BY <1>0, <1>15 DEF kill_call, PathOK, OnOwnStack, Alive, Enter, AdminOK
  <2> QED BY <2>1, <2>2, <2>3
<1>16. CASE thread_kill
  <2>1. SuspendedOK'
    BY <1>0, <1>16, KeepsSuspended DEF thread_kill
  <2>2. AdminOK'
    BY <1>16 DEF thread_kill, AdminOK
  <2>3. /\ Alive(c) /\ Alive(tid[c])
        /\ \/ back[c] = "killed" /\ tid[c] # c /\ on_stack = c
           \/ back[c] = "admin" /\ tid[c] = c /\ c # 0 /\ on_stack = 0
    BY <1>16 DEF thread_kill, MayDie, Available, AdminOK, PathOK, OnOwnStack, Alive
  <2>4. PathOK'
    BY <1>0, <1>16, <2>3 DEF thread_kill, PathOK, Alive
  <2> QED BY <2>1, <2>2, <2>4
<1>17. CASE kill_invalid
  <2>1. ~ administrative_mode
    BY <1>0, <1>17 DEF kill_invalid, MayDie, Available, AdminOK, Alive
  <2>2. SuspendedOK'
    BY <1>0, <1>17, KeepsSuspended DEF kill_invalid
  <2>3. AdminOK'
    BY <1>17, <2>1 DEF kill_invalid, AdminOK
  <2>4. PathOK'
    BY <1>0, <1>17, <2>1 DEF kill_invalid, PathOK, OnOwnStack, Alive
  <2> QED BY <2>2, <2>3, <2>4
<1>18. CASE killed
  <2>1. SuspendedOK'
    BY <1>0, <1>18, KeepsSuspended DEF killed
  <2>2. AdminOK'
    BY <1>0, <1>18 DEF killed, AdminOK
  <2>3. PathOK'
    BY <1>0, <1>18 DEF killed, PathOK, OnOwnStack, Alive
  <2> QED BY <2>1, <2>2, <2>3
<1>19. CASE handle_death
  <2> DEFINE dying == tid[c]
             w == waiter[dying]
  <2>0. /\ dying \in Tids /\ w \in Tids \cup {-1} /\ w # dying
        /\ state \in [Tids -> {"Destroyed", "Running", "Sleep"}]
        /\ UNCHANGED <<current_thread, ctx, back, on_stack, administrative_mode>>
        /\ want \in [Tids -> Int] /\ pc[c] = "death"
    BY <1>19 DEF handle_death, DispatchOK, WaiterOK, TypeOK
  <2>1. /\ Alive(c) /\ Alive(dying)
        /\ \/ back[c] = "killed" /\ dying # c /\ on_stack = c
           \/ back[c] = "admin" /\ dying = c /\ c # 0 /\ on_stack = 0
           \/ back[c] = "exit" /\ dying = c /\ c = 0 /\ on_stack = 0
    BY <2>0 DEF PathOK
  <2>2. ~ administrative_mode
    BY <2>0 DEF AdminOK
  <2>3. AdminOK'
    BY <2>0, <2>2 DEF AdminOK
  <2>4. \A t \in Tids : Alive(t)' => Alive(t)
    BY <1>19, <2>0 DEF handle_death, Wakes, Alive
  <2>5. state'[dying] = "Destroyed" /\ (c # dying => state'[c] # "Destroyed")
    <3>1. CASE state' = [state EXCEPT ![dying] = "Destroyed"]
      BY <1>0, <2>0, <2>1, <3>1 DEF Alive
    <3>2. CASE state' = [state EXCEPT ![dying] = "Destroyed", ![w] = "Running"]
      BY <1>0, <2>0, <2>1, <3>2 DEF Alive
    <3> QED BY <1>19, <3>1, <3>2 DEF handle_death
  <2>6. SuspendedOK'
    BY <1>0, <1>19, <2>0, <2>4 DEF handle_death, SuspendedOK
  <2>7. ASSUME pc' = [pc EXCEPT ![c] = back[c]] PROVE PathOK'
    <3>1. pc'[c] = back[c] /\ current_thread' = c /\ on_stack' = on_stack
      BY <1>0, <2>0, <2>7
    <3>2. CASE back[c] = "killed"
      BY <2>1, <2>5, <3>1, <3>2 DEF PathOK, OnOwnStack, Alive
    <3>3. CASE back[c] = "admin"
      BY <2>1, <2>5, <3>1, <3>3 DEF PathOK, Dismantled, Alive
    <3>4. CASE back[c] = "exit"
      BY <2>1, <2>5, <3>1, <3>4 DEF PathOK, Dismantled, Alive
    <3> QED BY <2>1, <3>2, <3>3, <3>4
  <2>8. ASSUME Wakes(w), state' = [state EXCEPT ![dying] = "Destroyed", ![w] = "Running"],
               want' = [want EXCEPT ![c] = w], pc' = [pc EXCEPT ![c] = "yield"]
        PROVE  PathOK'
    <3>1. w \in Tids /\ state'[w] = "Running" /\ want'[c] = w /\ pc'[c] = "yield"
          /\ current_thread' = c /\ on_stack' = on_stack /\ back' = back
      BY <1>0, <2>0, <2>8 DEF Wakes
    <3>2. CASE back[c] = "killed"
      BY <2>1, <2>5, <3>1, <3>2 DEF PathOK, OnOwnStack, Alive
    <3>3. CASE back[c] \in {"admin", "exit"}
      BY <2>0, <2>1, <2>5, <3>1, <3>3 DEF PathOK, Dismantled, Alive
    <3> QED BY <2>1, <3>2, <3>3
  <2>9. PathOK'
    BY <1>19, <2>7, <2>8 DEF handle_death
  <2> QED BY <2>3, <2>6, <2>9
<1>20. CASE exit_next
  <2>1. SuspendedOK'
    BY <1>0, <1>20, KeepsSuspended DEF exit_next
  <2>2. AdminOK'
    BY <1>0, <1>20 DEF exit_next, AdminOK
  <2>3. PathOK'
    <3>1. want' = [want EXCEPT ![c] = THREAD_ANY] /\ want \in [Tids -> Int]
      BY <1>20 DEF exit_next, TypeOK
    <3> QED BY <1>0, <1>20, <3>1 DEF exit_next, PathOK, OnOwnStack, Alive, Dismantled
  <2> QED BY <2>1, <2>2, <2>3
<1>21. CASE waited
  <2>1. SuspendedOK'
    BY <1>0, <1>21, KeepsSuspended DEF waited
  <2>2. AdminOK'
    BY <1>0, <1>21 DEF waited, AdminOK
  <2>3. PathOK'
    BY <1>0, <1>21 DEF waited, PathOK, OnOwnStack, Alive
  <2> QED BY <2>1, <2>2, <2>3
<1>22. CASE Mask
  <2>1. UNCHANGED <<state, current_thread, pc, ctx, back, tid, want, ret, on_stack,
                    administrative_mode, thread_to_destroy>>
    BY <1>22 DEF Mask
  <2> QED BY <2>1 DEF SuspendedOK, AdminOK, PathOK, OnOwnStack, Dismantled, Alive
<1>23. CASE interrupt_handler
  <2>1. SuspendedOK'
    BY <1>0, <1>23, KeepsSuspended DEF interrupt_handler
  <2>2. AdminOK'
    BY <1>0, <1>23 DEF interrupt_handler, AdminOK
  <2>3. PathOK'
    BY <1>0, <1>23 DEF interrupt_handler, PathOK, OnOwnStack, Alive
  <2> QED BY <2>1, <2>2, <2>3
<1>24. CASE yield_call
  <2>1. SuspendedOK'
    BY <1>0, <1>24, KeepsSuspended DEF yield_call, Enter
  <2>2. AdminOK'
    BY <1>0, <1>24 DEF yield_call, AdminOK, Enter
  <2>3. PathOK'
    BY <1>0, <1>24 DEF yield_call, PathOK, OnOwnStack, Alive, Enter
  <2> QED BY <2>1, <2>2, <2>3
<1>25. CASE thread_create
  <2>0. pc[c] = "user" /\ Alive(c) /\ on_stack = c /\ ~ administrative_mode
    BY <1>25 DEF thread_create, PathOK, OnOwnStack, AdminOK
  <2>1. CASE create_no_more
    <3>1. SuspendedOK'
      BY <1>0, <2>1, KeepsSuspended DEF create_no_more, Enter
    <3>2. AdminOK'
      BY <2>0, <2>1 DEF create_no_more, AdminOK
    <3>3. PathOK'
      BY <1>0, <2>0, <2>1 DEF create_no_more, Enter, PathOK, OnOwnStack, Alive
    <3> QED BY <3>1, <3>2, <3>3
  <2>2. ASSUME NEW t \in Tids, create_thread(t) PROVE (SuspendedOK /\ AdminOK /\ PathOK)'
    <3>1. /\ t # c /\ state' = [state EXCEPT ![t] = "Running"]
          /\ pc' = [pc EXCEPT ![t] = "stub", ![c] = "return"]
          /\ back' = [back EXCEPT ![t] = "return"] /\ ctx' = [ctx EXCEPT ![t] = t]
          /\ UNCHANGED <<current_thread, on_stack, administrative_mode>>
          /\ state \in [Tids -> {"Destroyed", "Running", "Sleep"}] /\ ctx \in [Tids -> Tids]
      BY <2>0, <2>2 DEF create_thread, NewEntry, Alive, TypeOK
    <3>2. SuspendedOK'
      BY <1>0, <3>1 DEF SuspendedOK, Alive
    <3>3. AdminOK'
      BY <2>0, <3>1 DEF AdminOK
    <3>4. PathOK'
      BY <1>0, <2>0, <3>1 DEF PathOK, OnOwnStack, Alive
    <3> QED BY <3>2, <3>3, <3>4
  <2> QED BY <1>25, <2>1, <2>2 DEF thread_create
<1>26. CASE thread_exit
  <2>0. pc[0] = "resumed" /\ ctx[0] = 0 /\ pc[c] = "user" /\ c # 0 /\ Alive(c)
    BY <1>26, SchedulerAssumption DEF thread_exit, DispatchOK, SuspendedOK, PathOK, OnOwnStack, Tids
  <2>1. SuspendedOK'
    BY <1>0, <1>26, KeepsSuspended DEF thread_exit, Enter
  <2>2. AdminOK'
    BY <1>0, <1>26, <2>0 DEF thread_exit, Enter, AdminOK, Alive
  <2>3. PathOK'
    BY <1>0, <1>26, <2>0 DEF thread_exit, Enter, PathOK
  <2> QED BY <2>1, <2>2, <2>3
<1>27. CASE exit_main
  <2>0. tid'[c] = c /\ back'[c] = "exit" /\ pc'[c] = "death" /\ c = 0
        /\ OnOwnStack(c) /\ ~ administrative_mode
    BY <1>0, <1>27 DEF exit_main, Enter, PathOK, AdminOK, TypeOK
  <2>1. SuspendedOK'
    BY <1>0, <1>27, KeepsSuspended DEF exit_main, Enter
  <2>2. AdminOK'
    BY <1>27, <2>0 DEF exit_main, AdminOK
  <2>3. PathOK'
    BY <1>27, <2>0 DEF exit_main, PathOK, OnOwnStack, Alive
  <2> QED BY <2>1, <2>2, <2>3
<1>28. CASE thread_wait
  <2>0. OnOwnStack(c) /\ ~ administrative_mode
    BY <1>28 DEF thread_wait, wait_invalid, wait_exited, wait_sleep, wait_call, PathOK, AdminOK
  <2> PICK t \in Call("wait") : wait_invalid(t) \/ wait_exited(t) \/ wait_sleep(t)
    BY <1>28 DEF thread_wait
  <2>1. CASE wait_invalid(t)
    <3>1. SuspendedOK'
      BY <1>0, <2>1, KeepsSuspended DEF wait_invalid, Enter
    <3>2. AdminOK' /\ PathOK'
      BY <1>0, <2>0, <2>1 DEF wait_invalid, Enter, AdminOK, PathOK, OnOwnStack, Alive
    <3> QED BY <3>1, <3>2
  <2>2. CASE wait_exited(t)
    <3>1. SuspendedOK'
      BY <1>0, <2>2, KeepsSuspended DEF wait_exited, Enter
    <3>2. AdminOK' /\ PathOK'
      BY <1>0, <2>0, <2>2 DEF wait_exited, Enter, AdminOK, PathOK, OnOwnStack, Alive
    <3> QED BY <3>1, <3>2
  <2>3. CASE wait_sleep(t)
    <3>1. /\ state' = [state EXCEPT ![c] = "Sleep"] /\ pc' = [pc EXCEPT ![c] = "yield"]
          /\ back' = [back EXCEPT ![c] = "waited"]
          /\ UNCHANGED <<current_thread, on_stack, administrative_mode, ctx>>
          /\ state \in [Tids -> {"Destroyed", "Running", "Sleep"}]
      BY <2>3 DEF wait_sleep, Enter, TypeOK
    <3>2. SuspendedOK'
      BY <1>0, <3>1 DEF SuspendedOK, Alive
    <3>3. AdminOK' /\ PathOK'
      BY <1>0, <2>0, <3>1 DEF AdminOK, PathOK, OnOwnStack, Alive
    <3> QED BY <3>2, <3>3
  <2> QED BY <2>1, <2>2, <2>3
<1>29. CASE UNCHANGED schedVars
  BY <1>29 DEF schedVars, SuspendedOK, AdminOK, PathOK, OnOwnStack, Dismantled, Alive
<1> QED
  BY <1>1, <1>2, <1>3, <1>5, <1>6, <1>7, <1>9, <1>10, <1>11, <1>12, <1>13, <1>14, <1>15,
     <1>16, <1>17, <1>18, <1>19, <1>20, <1>21, <1>22, <1>23, <1>24, <1>25, <1>26, <1>27,
     <1>28, <1>29 DEF Next, Library, Yielding, User, Ended

(* Control passes from thread to thread only through contexts saved in     *)
(* thread_yield or made by thread_create: a thread that is alive is        *)
(* suspended on its own stack in a call that returns to live code, the one *)
(* that has the processor runs on its own stack unless it is leaving, and  *)
(* administrative mode lasts only from thread_exit to the thread_kill of   *)
(* the same thread on the stack of thread 0.                               *)
THEOREM ControlPassesSafely == Spec => []ControlOK
<1>1. TypeOK /\ ControlOK /\ [Next]_schedVars => ControlOK'
  BY StepDispatch, StepWaiter, StepControl DEF ControlOK
<1> QED BY <1>1, InitControl, TypeCorrect, PTL DEF Spec

LEMMA DeadFollows == TypeOK /\ ControlOK => DeadNeverRuns
  BY DEF TypeOK, ControlOK, AdminOK, PathOK, OnOwnStack, Alive, LiveReturns, Labels,
     ReturnLabels, OwnLabels, OwnReturns, DeadNeverRuns

(* After handle_death a thread runs no code of the program: what the       *)
(* library still does in its name is to look for the next thread, in       *)
(* admin_mode or at the end of thread_exit.                                *)
THEOREM DeadThreadsDoNotRun == Spec => []DeadNeverRuns
  BY DeadFollows, TypeCorrect, ControlPassesSafely, PTL

LEMMA AssertionsFollow == ControlOK => Assertions
  BY DEF ControlOK, AdminOK, PathOK, Dismantled, Alive, At, Assertions

(* The assertions of thread_yield and admin_mode about the exiting thread  *)
(* (lines 285, 287, 294 and 342 of thread.c) hold in every program.        *)
THEOREM ExitAssertionsHold == Spec => []Assertions
  BY AssertionsFollow, ControlPassesSafely, PTL

------------------------------------------------------------------------------
(* The second part of StackLifetime, from which the first follows. *)
Dying(t) == pc[current_thread] = "death" /\ tid[current_thread] = t
StackTable == \A t \in Tids \ {0} : t \in stacks <=> Alive(t) /\ ~ Dying(t)

(* A step that neither allocates nor frees a stack, nor begins or ends     *)
(* handle_death.                                                           *)
LEMMA KeepsStacks ==
  ASSUME StackTable, UNCHANGED <<stacks, state>>,
         pc[current_thread] # "death", pc'[current_thread'] # "death"
  PROVE  StackTable'
  BY DEF StackTable, Alive, Dying

(* A stack is allocated in thread_create with the state, and freed in      *)
(* thread_kill just before handle_death changes the state.                 *)
LEMMA StepStacks == TypeOK /\ ControlOK /\ StackTable /\ [Next]_schedVars => StackTable'
<1> SUFFICES ASSUME TypeOK, ControlOK, StackTable, [Next]_schedVars PROVE StackTable'
  OBVIOUS
<1> DEFINE c == current_thread
<1>0. /\ c \in Tids /\ pc \in [Tids -> Labels] /\ back \in [Tids -> ReturnLabels]
      /\ state \in [Tids -> {"Destroyed", "Running", "Sleep"}] /\ tid \in [Tids -> Int]
  BY DEF TypeOK
<1> USE LabelsApart DEF At, Goto, table, locals, ReturnLabels, OwnReturns, OwnLabels
<1>1. CASE Return \/ sigreturn \/ thread_stub \/ resumed \/ admin_mode \/ admin_next
  BY <1>0, <1>1, KeepsStacks DEF Return, sigreturn, thread_stub, resumed, admin_mode, admin_next
<1>2. CASE yield_self \/ yield_none \/ yield_invalid
  BY <1>0, <1>2, KeepsStacks DEF yield_self, yield_none, yield_invalid, YieldReturns
<1>3. ASSUME NEW t \in Tids \ {c}, NEW q, pc[c] = "yield", SwitchTo(t, q) PROVE StackTable'
  <2>1. pc[t] # "death" /\ pc'[t] = pc[t]
    BY <1>0, <1>3 DEF SwitchTo, ControlOK, DispatchOK
  <2> QED BY <1>3, <2>1, KeepsStacks DEF SwitchTo
<1>4. CASE yield_any
  <2> PICK i \in 1 .. Len(thread_queue) :
        /\ Runnable(thread_queue[i])
        /\ SwitchTo(thread_queue[i], SubSeq(thread_queue, i + 1, Len(thread_queue)))
    BY <1>4 DEF yield_any, Picks
  <2>1. thread_queue[i] \in Tids \ {c}
    BY DEF TypeOK, Runnable
  <2>2. pc[c] = "yield"
    BY <1>4 DEF yield_any
  <2> QED BY <2>1, <2>2, <1>3
<1>5. CASE yield_to
  BY <1>3, <1>5 DEF yield_to, Available
<1>6. CASE admin_none \/ assert_waiter \/ exit_none \/ create_no_memory \/ assert_interrupts
  BY <1>6 DEF admin_none, assert_waiter, exit_none, create_no_memory, assert_interrupts, Stop,
     StackTable, Alive, Dying
<1>7. CASE kill_invalid \/ killed \/ exit_next \/ waited \/ interrupt_handler
  BY <1>0, <1>7, KeepsStacks DEF kill_invalid, killed, exit_next, waited, interrupt_handler
<1>8. CASE Mask \/ yield_call \/ kill_call
  BY <1>0, <1>8, KeepsStacks DEF Mask, yield_call, kill_call, Enter
<1>9. CASE thread_kill
  <2>1. pc[c] # "death" /\ pc'[c] = "death" /\ current_thread' = c /\ tid' = tid
        /\ state' = state /\ stacks' = stacks \ {tid[c]}
    BY <1>0, <1>9 DEF thread_kill
  <2> QED BY <2>1 DEF StackTable, Alive, Dying
<1>10. CASE handle_death
  <2>1. /\ pc[c] = "death" /\ pc'[c] # "death"
        /\ UNCHANGED <<current_thread, stacks>>
    BY <1>0, <1>10 DEF handle_death
  <2>2. \A t \in Tids : state'[t] # "Destroyed" <=> state[t] # "Destroyed" /\ t # tid[c]
    <3> DEFINE dying == tid[c]
               w == waiter[dying]
    <3>1. dying \in Tids /\ state[dying] # "Destroyed" /\ w # dying
      BY <2>1 DEF ControlOK, DispatchOK, PathOK, WaiterOK, Alive
    <3>2. CASE state' = [state EXCEPT ![dying] = "Destroyed"]
      BY <1>0, <3>1, <3>2
    <3>3. CASE Wakes(w) /\ state' = [state EXCEPT ![dying] = "Destroyed", ![w] = "Running"]
      BY <1>0, <3>1, <3>3 DEF Wakes
    <3> QED BY <1>10, <3>2, <3>3 DEF handle_death
  <2> QED BY <2>1, <2>2 DEF StackTable, Alive, Dying
<1>11. CASE thread_create
  <2>0. pc[c] = "user" /\ Alive(c)
    BY <1>11 DEF thread_create, ControlOK, PathOK, OnOwnStack
  <2>1. CASE create_no_more
    BY <1>0, <2>0, <2>1, KeepsStacks DEF create_no_more, Enter
  <2>2. ASSUME NEW t \in Tids, create_thread(t) PROVE StackTable'
    <3>1. /\ t # c /\ state' = [state EXCEPT ![t] = "Running"] /\ stacks' = stacks \cup {t}
          /\ pc'[c] = "return" /\ current_thread' = c
      BY <1>0, <2>0, <2>2 DEF create_thread, NewEntry, Alive
    <3> QED BY <1>0, <2>0, <3>1 DEF StackTable, Alive, Dying
  <2> QED BY <1>11, <2>1, <2>2 DEF thread_create
<1>12. CASE thread_exit
  <2>1. pc[0] = "resumed"
    BY <1>12, SchedulerAssumption DEF thread_exit, ControlOK, DispatchOK, Tids
  <2> QED BY <1>0, <1>12, <2>1, KeepsStacks DEF thread_exit, Enter
<1>13. CASE exit_main
  <2>1. pc[c] # "death" /\ tid'[c] = 0 /\ UNCHANGED <<current_thread, state, stacks>>
    BY <1>0, <1>13 DEF exit_main
  <2> QED BY <2>1 DEF StackTable, Alive, Dying
<1>14. CASE thread_wait
  <2> PICK t \in Call("wait") : wait_invalid(t) \/ wait_exited(t) \/ wait_sleep(t)
    BY <1>14 DEF thread_wait
  <2>1. CASE wait_invalid(t) \/ wait_exited(t)
    BY <1>0, <2>1, KeepsStacks DEF wait_invalid, wait_exited, wait_call, Enter
  <2>2. CASE wait_sleep(t)
    <3>1. /\ pc[c] = "user" /\ pc'[c] = "yield" /\ UNCHANGED <<current_thread, stacks>>
          /\ state' = [state EXCEPT ![c] = "Sleep"]
      BY <1>0, <2>2 DEF wait_sleep, wait_call, Enter
    <3>2. Alive(c)
      BY <3>1 DEF ControlOK, PathOK, OnOwnStack
    <3> QED BY <1>0, <3>1, <3>2 DEF StackTable, Alive, Dying
  <2> QED BY <2>1, <2>2
<1>15. CASE UNCHANGED schedVars
  BY <1>15 DEF schedVars, StackTable, Alive, Dying
<1> QED
  BY <1>1, <1>2, <1>4, <1>5, <1>6, <1>7, <1>8, <1>9, <1>10, <1>11, <1>12, <1>13, <1>14,
     <1>15 DEF Next, Library, Yielding, User, Ended

LEMMA InitStacks == Init => StackTable
  BY DEF Init, StackTable, Alive

LEMMA StacksFollow == TypeOK /\ ControlOK /\ StackTable => StackLifetime
<1> SUFFICES ASSUME TypeOK, ControlOK, StackTable PROVE StackLifetime
  OBVIOUS
<1>1. on_stack = 0 \/ OnOwnStack(current_thread)
  BY DEF TypeOK, ControlOK, AdminOK, PathOK, Dismantled, OnOwnStack, LiveReturns, Labels, ReturnLabels,
     OwnLabels, OwnReturns
<1>2. OnOwnStack(current_thread) /\ current_thread # 0 => current_thread \in stacks
  BY DEF TypeOK, ControlOK, PathOK, OnOwnStack, StackTable, Dying
<1> QED BY <1>1, <1>2 DEF StackLifetime, StackTable, Alive, Dying, OnOwnStack

(* thread_kill never frees the stack that the processor runs on, although  *)
(* a thread that exits is killed by its own call: it goes on on the stack  *)
(* of thread 0. No stack is freed twice and none is leaked.                *)
THEOREM StacksOutliveTheirUse == Spec => []StackLifetime
  BY InitStacks, StepStacks, StacksFollow, TypeCorrect, ControlPassesSafely, PTL DEF Spec

------------------------------------------------------------------------------
(* thread_wait is the only call that puts a thread to sleep, and           *)
(* handle_death wakes the waiter of a thread when the thread dies.         *)
LEMMA StepSleeper == TypeOK /\ SleeperHasWaker /\ [Next]_schedVars => SleeperHasWaker'
<1> SUFFICES ASSUME TypeOK, SleeperHasWaker, [Next]_schedVars PROVE SleeperHasWaker'
  OBVIOUS
<1>1. ASSUME UNCHANGED <<state, waiter>> PROVE SleeperHasWaker'
  BY <1>1 DEF SleeperHasWaker
<1>2. CASE Return \/ sigreturn \/ thread_stub \/ Yielding \/ resumed \/ admin_mode
           \/ admin_next \/ admin_none
  BY <1>1, <1>2 DEF Return, sigreturn, thread_stub, Yielding, yield_self, yield_any,
     yield_none, yield_to, yield_invalid, YieldReturns, SwitchTo, resumed, admin_mode,
     admin_next, admin_none, Stop, table
<1>3. CASE thread_kill \/ kill_invalid \/ killed \/ assert_waiter \/ exit_next
           \/ exit_none \/ waited \/ interrupt_handler \/ Ended
  BY <1>1, <1>3 DEF thread_kill, kill_invalid, killed, assert_waiter, exit_next,
     exit_none, waited, interrupt_handler, Ended, schedVars, Stop, table
<1>4. CASE Mask \/ create_no_memory \/ assert_interrupts \/ yield_call \/ kill_call
           \/ thread_exit \/ exit_main
  BY <1>1, <1>4 DEF Mask, create_no_memory, assert_interrupts, yield_call, kill_call,
     thread_exit, exit_main, Stop, table
<1>5. CASE handle_death
  <2> DEFINE dying == tid[current_thread]
             w == waiter[dying]
  <2>1. UNCHANGED waiter
    BY <1>5 DEF handle_death
  <2>2. \A t \in Tids : state'[t] = "Sleep" => state[t] = "Sleep" /\ t # w /\ t # dying
    <3>1. CASE w # -1 => state[w] = "Destroyed"
      <4>1. state' = [state EXCEPT ![dying] = "Destroyed"]
        BY <1>5, <3>1 DEF handle_death, Wakes
      <4> QED BY <3>1, <4>1 DEF TypeOK, Tids
    <3>2. CASE Wakes(w)
      <4>1. state' = [state EXCEPT ![dying] = "Destroyed", ![w] = "Running"]
        BY <1>5, <3>2 DEF handle_death, Wakes
      <4> QED BY <4>1 DEF TypeOK
    <3> QED BY <1>5, <3>1, <3>2 DEF handle_death
  <2>3. \A u \in Tids \ {dying} : state[u] # "Destroyed" => state'[u] # "Destroyed"
    BY <1>5 DEF handle_death, TypeOK
  <2> QED BY <2>1, <2>2, <2>3 DEF SleeperHasWaker
<1>6. CASE thread_create
  <2>1. CASE create_no_more
    BY <1>1, <2>1 DEF create_no_more, table
  <2>2. ASSUME NEW t \in Tids, create_thread(t) PROVE SleeperHasWaker'
    BY <2>2 DEF create_thread, NewEntry, TypeOK, SleeperHasWaker
  <2> QED BY <1>6, <2>1, <2>2 DEF thread_create
<1>7. CASE thread_wait
  <2> PICK t \in Call("wait") : wait_invalid(t) \/ wait_exited(t) \/ wait_sleep(t)
    BY <1>7 DEF thread_wait
  <2>1. CASE wait_invalid(t) \/ wait_exited(t)
    BY <1>1, <2>1 DEF wait_invalid, wait_exited, table
  <2>2. CASE wait_sleep(t)
    <3>1. t \in Tids /\ t # current_thread /\ state[t] # "Destroyed" /\ waiter[t] = -1
      BY <2>2 DEF wait_sleep, WaitRefused
    <3>2. state' = [state EXCEPT ![current_thread] = "Sleep"]
          /\ waiter' = [waiter EXCEPT ![t] = current_thread]
      BY <2>2 DEF wait_sleep
    <3>3. ASSUME NEW s \in Tids, state'[s] = "Sleep"
          PROVE  \E u \in Tids : state'[u] # "Destroyed" /\ waiter'[u] = s
      <4>1. CASE s = current_thread
        BY <3>1, <3>2, <4>1 DEF TypeOK
      <4>2. CASE s # current_thread
        <5>1. PICK u \in Tids : state[u] # "Destroyed" /\ waiter[u] = s
          BY <3>2, <3>3, <4>2 DEF SleeperHasWaker, TypeOK
        <5>2. u # t
          BY <3>1, <5>1 DEF Tids
        <5> QED BY <3>2, <5>1, <5>2 DEF TypeOK
      <4> QED BY <4>1, <4>2
    <3> QED BY <3>3 DEF SleeperHasWaker
  <2> QED BY <2>1, <2>2
<1>8. CASE UNCHANGED schedVars
  BY <1>1, <1>8 DEF schedVars
<1> QED
  BY <1>2, <1>3, <1>4, <1>5, <1>6, <1>7, <1>8 DEF Next, Library, User

(* A thread that sleeps in thread_wait is the recorded waiter of a thread  *)
(* that is alive: deaths, kills and the reuse of thread control blocks     *)
(* never leave it with nobody to wake it.                                  *)
THEOREM NobodySleepsForever == Spec => []SleeperHasWaker
<1>1. Init => SleeperHasWaker
  BY DEF Init, SleeperHasWaker
<1>2. TypeOK /\ SleeperHasWaker /\ [Next]_schedVars => SleeperHasWaker'
  BY StepSleeper
<1> QED BY <1>1, <1>2, TypeCorrect, PTL DEF Spec

------------------------------------------------------------------------------
(* queue_push loses no entry; the thread it is given is queued or refused. *)
LEMMA PushedMembers ==
  ASSUME NEW q \in Seq(Tids), NEW t \in Tids,
         NEW s \in Tids, \E i \in 1 .. Len(q) : q[i] = s
  PROVE  \E i \in 1 .. Len(Pushed(q, t)) : Pushed(q, t)[i] = s
  BY DEF Pushed

LEMMA PushedOrRefused ==
  ASSUME NEW q \in Seq(Tids), NEW t \in Tids
  PROVE  (\E i \in 1 .. Len(Pushed(q, t)) : Pushed(q, t)[i] = t) \/ t \in Refused(q, t)
<1>1. CASE Len(q) = QCap
  BY <1>1 DEF Refused
<1>2. CASE Len(q) # QCap
  <2>1. Pushed(q, t) = Append(q, t)
    BY <1>2 DEF Pushed
  <2>2. Len(Append(q, t)) \in 1 .. Len(Append(q, t)) /\ Append(q, t)[Len(Append(q, t))] = t
    OBVIOUS
  <2> QED BY <2>1, <2>2
<1> QED BY <1>1, <1>2

(* What a switch to t does to the runnable threads, when q keeps them all  *)
(* apart from t.                                                           *)
LEMMA SwitchLosesNobody ==
  ASSUME TypeOK, NoLostThread, NEW t \in Tids \ {current_thread}, NEW q \in Seq(Tids),
         SwitchTo(t, q), ~ \E s \in Tids \ {t} : YieldingTo(s),
         \A s \in Tids : Runnable(s) /\ Queued(s) /\ s # t => \E i \in 1 .. Len(q) : q[i] = s
  PROVE  NoLostThread'
<1> SUFFICES ASSUME NEW s \in Tids, state'[s] = "Running", s # current_thread'
             PROVE  (Queued(s) \/ s \in refused)'
  BY DEF NoLostThread
<1>1. state' = state /\ current_thread' = t /\ thread_queue' = Pushed(q, current_thread)
      /\ refused' = Refused(q, current_thread) \ {t} /\ current_thread \in Tids
  BY DEF SwitchTo, table, TypeOK
<1>2. CASE s = current_thread
  BY <1>1, <1>2, PushedOrRefused DEF Queued
<1>3. CASE s # current_thread
  <2>1. Queued(s) \/ s \in refused
    BY <1>1, <1>3 DEF NoLostThread
  <2>2. CASE s \in refused
    BY <1>1, <1>3, <2>2 DEF Refused
  <2>3. CASE Queued(s)
    <3>1. \E i \in 1 .. Len(q) : q[i] = s
      BY <1>1, <1>3, <2>3 DEF Runnable
    <3> QED BY <1>1, <3>1, PushedMembers DEF Queued
  <2> QED BY <2>1, <2>2, <2>3
<1> QED BY <1>2, <1>3

(* Entries leave the ready queue only in thread_yield, which throws away   *)
(* those of threads that cannot run; a thread becomes runnable only in     *)
(* thread_create, which queues it, and in handle_death, which yields to    *)
(* it.                                                                     *)
LEMMA StepNoLost == TypeOK /\ NoLostThread /\ [Next]_schedVars => NoLostThread'
<1> SUFFICES ASSUME TypeOK, NoLostThread, [Next]_schedVars PROVE NoLostThread'
  OBVIOUS
<1>1. ASSUME UNCHANGED <<state, thread_queue, current_thread, refused>>,
             pc[current_thread] # "yield"
      PROVE  NoLostThread'
  BY <1>1 DEF NoLostThread, Queued, YieldingTo
<1>2. CASE Return \/ sigreturn \/ thread_stub \/ resumed \/ admin_mode \/ admin_next
  BY <1>1, <1>2 DEF Return, sigreturn, thread_stub, resumed, admin_mode, admin_next, At,
     table, history
<1>3. CASE thread_kill \/ kill_invalid \/ killed \/ exit_next \/ waited \/ interrupt_handler
  BY <1>1, <1>3 DEF thread_kill, kill_invalid, killed, exit_next, waited,
     interrupt_handler, At, table, history
<1>4. CASE Mask \/ yield_call \/ kill_call \/ thread_exit \/ exit_main
  BY <1>1, <1>4 DEF Mask, yield_call, kill_call, thread_exit, exit_main, At, table, history
<1>5. CASE admin_none \/ assert_waiter \/ exit_none \/ create_no_memory \/ assert_interrupts
  BY <1>1, <1>5 DEF admin_none, assert_waiter, exit_none, create_no_memory,
     assert_interrupts, Stop, At, table, history
<1>6. ASSUME NEW v, want[current_thread] \notin {t \in Tids \ {current_thread} : state[t] = "Running"},
             YieldReturns(v, thread_queue)
      PROVE  NoLostThread'
  BY <1>6 DEF YieldReturns, NoLostThread, Queued, YieldingTo, table, history
<1>7. CASE yield_self
  BY <1>6, <1>7 DEF yield_self, THREAD_SELF, Tids
<1>8. CASE yield_invalid
  BY <1>6, <1>8 DEF yield_invalid, Available
<1>9. CASE yield_none
  <2>1. \A t \in Tids : Runnable(t) => ~ Queued(t) /\ ~ YieldingTo(t)
    BY <1>9 DEF yield_none, Queued, YieldingTo, THREAD_ANY, Tids
  <2>2. \A t \in Tids : Runnable(t) => t \in refused
    BY <2>1 DEF NoLostThread, Runnable
  <2> QED BY <1>9, <2>2 DEF yield_none, YieldReturns, NoLostThread, Runnable, table, history
<1>10. CASE yield_any
  <2> PICK i \in 1 .. Len(thread_queue) :
        /\ Picks(i)
        /\ SwitchTo(thread_queue[i], SubSeq(thread_queue, i + 1, Len(thread_queue)))
    BY <1>10 DEF yield_any
  <2> DEFINE t == thread_queue[i]
             q == SubSeq(thread_queue, i + 1, Len(thread_queue))
  <2>1. t \in Tids \ {current_thread}
    <3>1. t \in Tids
      BY DEF TypeOK
    <3> QED BY <3>1 DEF Picks, Runnable
  <2>2. q \in Seq(Tids) /\ Len(q) = Len(thread_queue) - i
    BY SubSeqType DEF TypeOK
  <2>3. \A s \in Tids : ~ YieldingTo(s)
    BY <1>10 DEF yield_any, YieldingTo, THREAD_ANY, Tids
  <2>4. ASSUME NEW s \in Tids, Runnable(s), Queued(s), s # t
        PROVE  \E j \in 1 .. Len(q) : q[j] = s
    <3>1. PICK j \in 1 .. Len(thread_queue) : thread_queue[j] = s
      BY <2>4 DEF Queued
    <3>2. j > i
      BY <2>4, <3>1 DEF Picks
    <3>3. j - i \in 1 .. Len(q) /\ q[j - i] = thread_queue[j]
      BY <2>2, <3>2 DEF TypeOK
    <3> QED BY <3>1, <3>3
  <2> QED BY <2>1, <2>2, <2>3, <2>4, SwitchLosesNobody
<1>11. CASE yield_to
  <2> DEFINE t == want[current_thread]
  <2>1. t \in Tids \ {current_thread} /\ SwitchTo(t, thread_queue)
    BY <1>11 DEF yield_to, Available
  <2>2. \A s \in Tids \ {t} : ~ YieldingTo(s)
    BY DEF YieldingTo
  <2> QED BY <2>1, <2>2, SwitchLosesNobody DEF TypeOK, Queued
<1>12. CASE handle_death
  <2>1. \A t \in Tids : state'[t] = "Running" =>
          state[t] = "Running" \/ (pc'[current_thread] = "yield" /\ want'[current_thread] = t)
    <3> DEFINE dying == tid[current_thread]
               w == waiter[dying]
    <3>0. state \in [Tids -> {"Destroyed", "Running", "Sleep"}]
          /\ pc \in [Tids -> Labels] /\ want \in [Tids -> Int] /\ current_thread \in Tids
      BY DEF TypeOK
    <3>1. CASE state' = [state EXCEPT ![dying] = "Destroyed"]
      BY <3>0, <3>1
    <3>2. CASE /\ state' = [state EXCEPT ![dying] = "Destroyed", ![w] = "Running"]
               /\ want' = [want EXCEPT ![current_thread] = w]
               /\ Goto("yield")
      BY <3>0, <3>2 DEF Goto
    <3> QED BY <1>12, <3>1, <3>2 DEF handle_death
  <2>2. UNCHANGED <<thread_queue, current_thread, refused>> /\ pc[current_thread] = "death"
    BY <1>12 DEF handle_death, At, history
  <2> QED BY <2>1, <2>2 DEF NoLostThread, Queued, YieldingTo
<1>13. CASE thread_create
  <2>1. pc[current_thread] = "user"
    BY <1>13 DEF thread_create, At
  <2>2. CASE create_no_more
    BY <1>1, <2>1, <2>2 DEF create_no_more, table, history
  <2>3. ASSUME NEW t \in Tids, create_thread(t) PROVE NoLostThread'
    <3> SUFFICES ASSUME NEW s \in Tids, state'[s] = "Running", s # current_thread'
                 PROVE  (Queued(s) \/ s \in refused)'
      BY DEF NoLostThread
    <3>1. thread_queue' = Pushed(thread_queue, t) /\ refused' = Refused(thread_queue, t)
          /\ current_thread' = current_thread /\ thread_queue \in Seq(Tids)
      BY <2>3 DEF create_thread, TypeOK
    <3>2. CASE s = t
      BY <3>1, <3>2, PushedOrRefused DEF Queued
    <3>3. CASE s # t
      <4>1. state[s] = "Running"
        BY <2>3, <3>3 DEF create_thread, NewEntry, TypeOK
      <4>2. Queued(s) \/ s \in refused
        BY <2>1, <3>1, <4>1 DEF NoLostThread, YieldingTo
      <4>3. CASE Queued(s)
        BY <3>1, <4>3, PushedMembers DEF Queued
      <4>4. CASE s \in refused
        BY <3>1, <3>3, <4>4 DEF Refused
      <4> QED BY <4>2, <4>3, <4>4
    <3> QED BY <3>2, <3>3
  <2> QED BY <1>13, <2>2, <2>3 DEF thread_create
<1>14. CASE thread_wait
  <2> PICK t \in Call("wait") : wait_invalid(t) \/ wait_exited(t) \/ wait_sleep(t)
    BY <1>14 DEF thread_wait
  <2>1. CASE wait_invalid(t) \/ wait_exited(t)
    BY <1>1, <2>1 DEF wait_invalid, wait_exited, wait_call, At, table, history
  <2>2. CASE wait_sleep(t)
    <3>1. /\ \A s \in Tids : state'[s] = "Running" => state[s] = "Running"
          /\ pc[current_thread] = "user"
          /\ UNCHANGED <<thread_queue, current_thread, refused>>
      BY <2>2 DEF wait_sleep, wait_call, At, TypeOK, history
    <3> QED BY <3>1 DEF NoLostThread, Queued, YieldingTo
  <2> QED BY <2>1, <2>2
<1>15. CASE UNCHANGED schedVars
  BY <1>15 DEF schedVars, NoLostThread, Queued, YieldingTo
<1> QED
  BY <1>2, <1>3, <1>4, <1>5, <1>7, <1>8, <1>9, <1>10, <1>11, <1>12, <1>13, <1>14,
     <1>15 DEF Next, Library, Yielding, User, Ended

(* A runnable thread is in the ready queue, or about to be switched to, or *)
(* was turned away by a full ready queue: no thread that could run is      *)
(* forgotten for any other reason.                                         *)
THEOREM NobodyIsLost == Spec => []NoLostThread
<1>1. Init => NoLostThread
  BY DEF Init, NoLostThread
<1>2. TypeOK /\ NoLostThread /\ [Next]_schedVars => NoLostThread'
  BY StepNoLost
<1> QED BY <1>1, <1>2, TypeCorrect, PTL DEF Spec
------------------------------------------------------------------------------
(* When thread_yield has told a thread that is leaving that there is no    *)
(* other thread, there is none but those a full queue turned away.         *)
NoneLeft == \A t \in Tids : state[t] = "Running" => t \in refused
ExitIsLast == status = "exited" \/ pc[current_thread] = "admin_none" => NoneLeft

(* A step that does not get to the end of admin_mode. *)
LEMMA KeepsExit ==
  ASSUME ExitIsLast, status' = status, status = "running", pc'[current_thread'] # "admin_none"
  PROVE  ExitIsLast'
  BY DEF ExitIsLast

(* thread_yield answers THREAD_NONE only when it has emptied the ready     *)
(* queue; by NoLostThread no runnable thread is then left.                 *)
LEMMA StepExit ==
  TypeOK /\ ControlOK /\ NoLostThread /\ ExitIsLast /\ [Next]_schedVars => ExitIsLast'
<1> SUFFICES ASSUME TypeOK, ControlOK, NoLostThread, ExitIsLast, [Next]_schedVars
             PROVE  ExitIsLast'
  OBVIOUS
<1> DEFINE c == current_thread
<1>0. c \in Tids /\ pc \in [Tids -> Labels] /\ back \in [Tids -> ReturnLabels]
  BY DEF TypeOK
<1> USE LabelsApart DEF At, Goto, table, admin, locals, history, ReturnLabels, OwnReturns, OwnLabels
<1>1. CASE Return \/ sigreturn \/ thread_stub \/ admin_mode \/ admin_next
  BY <1>0, <1>1, KeepsExit DEF Return, sigreturn, thread_stub, admin_mode, admin_next
<1>2. CASE resumed
  <2>1. back[c] # "admin_none"
    BY <1>2 DEF resumed, ControlOK, PathOK, LiveReturns
  <2> QED BY <1>0, <1>2, <2>1, KeepsExit DEF resumed
<1>3. CASE yield_self \/ yield_invalid
  <2>1. want[c] # THREAD_ANY /\ pc[c] = "yield"
    BY <1>0, <1>3 DEF yield_self, yield_invalid, THREAD_SELF, THREAD_ANY, Tids
  <2>2. back[c] # "admin_none"
    BY <2>1 DEF ControlOK, PathOK, LiveReturns
  <2> QED BY <1>0, <1>3, <2>2, KeepsExit DEF yield_self, yield_invalid, YieldReturns
<1>4. CASE yield_none
  <2>1. CASE back[c] = "admin_none"
    <3>1. state[c] = "Destroyed"
      BY <1>4, <2>1 DEF yield_none, ControlOK, PathOK, Dismantled, Alive, LiveReturns
    <3>2. \A t \in Tids \ {c} : state[t] = "Running" => ~ Queued(t) /\ ~ YieldingTo(t)
      BY <1>4 DEF yield_none, Runnable, Queued, YieldingTo, THREAD_ANY, Tids
    <3>3. NoneLeft
      BY <3>1, <3>2 DEF NoneLeft, NoLostThread
    <3> QED BY <1>4, <3>3 DEF yield_none, YieldReturns, ExitIsLast, NoneLeft
  <2>2. CASE back[c] # "admin_none"
    BY <1>0, <1>4, <2>2, KeepsExit DEF yield_none, YieldReturns
  <2> QED BY <2>1, <2>2
<1>5. ASSUME NEW t \in Tids \ {c}, NEW q, status = "running", SwitchTo(t, q) PROVE ExitIsLast'
  <2>1. pc'[t] # "admin_none"
    BY <1>0, <1>5 DEF SwitchTo, ControlOK, DispatchOK
  <2> QED BY <1>5, <2>1, KeepsExit DEF SwitchTo
<1>6. CASE yield_any
  <2> PICK i \in 1 .. Len(thread_queue) :
        /\ Runnable(thread_queue[i])
        /\ SwitchTo(thread_queue[i], SubSeq(thread_queue, i + 1, Len(thread_queue)))
    BY <1>6 DEF yield_any, Picks
  <2>1. thread_queue[i] \in Tids \ {c}
    BY DEF TypeOK, Runnable
  <2>2. status = "running"
    BY <1>6 DEF yield_any
  <2> QED BY <2>1, <2>2, <1>5
<1>7. CASE yield_to
  BY <1>5, <1>7 DEF yield_to, Available
<1>8. CASE admin_none \/ assert_waiter \/ exit_none \/ create_no_memory \/ assert_interrupts
  BY <1>8 DEF admin_none, assert_waiter, exit_none, create_no_memory, assert_interrupts, Stop,
     ExitIsLast, NoneLeft
<1>9. CASE thread_kill \/ kill_invalid \/ killed \/ exit_next \/ waited \/ interrupt_handler
  BY <1>0, <1>9, KeepsExit DEF thread_kill, kill_invalid, killed, exit_next, waited, interrupt_handler
<1>10. CASE Mask \/ yield_call \/ kill_call \/ exit_main
  BY <1>0, <1>10, KeepsExit DEF Mask, yield_call, kill_call, exit_main, Enter
<1>11. CASE handle_death
  <2>1. back[c] # "admin_none"
    BY <1>11 DEF handle_death, ControlOK, PathOK
  <2>2. pc'[c] # "admin_none" /\ UNCHANGED <<current_thread, status>> /\ status = "running"
    BY <1>0, <1>11, <2>1 DEF handle_death
  <2> QED BY <2>2, KeepsExit
<1>12. CASE thread_create
  <2>1. CASE create_no_more
    BY <1>0, <1>12, <2>1, KeepsExit DEF thread_create, create_no_more, Enter
  <2>2. ASSUME NEW t \in Tids, create_thread(t) PROVE ExitIsLast'
    BY <1>0, <1>12, <2>2, KeepsExit DEF thread_create, create_thread
  <2> QED BY <1>12, <2>1, <2>2 DEF thread_create
<1>13. CASE thread_exit
  <2>1. pc[0] = "resumed"
    BY <1>13, SchedulerAssumption DEF thread_exit, ControlOK, DispatchOK, Tids
  <2> QED BY <1>0, <1>13, <2>1, KeepsExit DEF thread_exit, Enter
<1>14. CASE thread_wait
  BY <1>0, <1>14, KeepsExit DEF thread_wait, wait_invalid, wait_exited, wait_sleep, wait_call, Enter
<1>15. CASE UNCHANGED schedVars
  BY <1>15 DEF schedVars, ExitIsLast, NoneLeft
<1> QED
  BY <1>1, <1>2, <1>3, <1>4, <1>6, <1>7, <1>8, <1>9, <1>10, <1>11, <1>12, <1>13, <1>14,
     <1>15 DEF Next, Library, Yielding, User, Ended

LEMMA InitExit == Init => ExitIsLast
  BY SchedulerAssumption DEF Init, ExitIsLast, Tids

LEMMA ExitFollows == ExitIsLast => ExitOnlyWhenNoneRunnable
  BY DEF ExitIsLast, NoneLeft, ExitOnlyWhenNoneRunnable

(* thread_exit ends the process, whichever thread calls it, only when no   *)
(* thread could run any more, save those that a full ready queue turned    *)
(* away.                                                                   *)
THEOREM LastExitIsLast == Spec => []ExitOnlyWhenNoneRunnable
  BY InitExit, StepExit, ExitFollows, TypeCorrect, ControlPassesSafely, NobodyIsLost, PTL DEF Spec
------------------------------------------------------------------------------
(* What each thread's frames hold of the mask its user code expects: a     *)
(* call that returns restores it, a handler and a new thread unblock.      *)
MaskOf(t) ==
  Alive(t) =>
    /\ pc[t] # "user" => (sig[t] <=> t \notin masked)
    /\ pc[t] = "user" => sig[t]
    /\ pc[t] \in {"stub", "handler"} \/ back[t] = "handler" => t \notin masked
MaskOfProcessor ==
  IF pc[current_thread] = "user" THEN intr <=> current_thread \notin masked ELSE ~ intr
MaskOK == (\A t \in Tids : MaskOf(t)) /\ MaskOfProcessor

(* A step of a thread in library code that goes on in library code, on its *)
(* own behalf or as the thread it has switched to.                         *)
LEMMA KeepsMask ==
  ASSUME TypeOK, MaskOK, UNCHANGED <<sig, masked, intr>>,
         pc[current_thread] # "user", pc'[current_thread'] # "user",
         \A t \in Tids : Alive(t)' =>
           /\ Alive(t)
           /\ pc'[t] = "user" <=> pc[t] = "user"
           /\ pc'[t] \in {"stub", "handler"} \/ back'[t] = "handler" =>
                pc[t] \in {"stub", "handler"} \/ back[t] = "handler"
  PROVE  MaskOK'
<1>1. ~ intr
  BY DEF MaskOK, MaskOfProcessor
<1>2. MaskOfProcessor'
  BY <1>1 DEF MaskOfProcessor
<1>3. ASSUME NEW t \in Tids PROVE MaskOf(t)'
  BY DEF MaskOK, MaskOf
<1> QED BY <1>2, <1>3 DEF MaskOK

(* A call from user code that blocks the signal and goes on in library     *)
(* code, with no frame of the handler below it.                            *)
LEMMA EntersMask ==
  ASSUME TypeOK, ControlOK, MaskOK, UNCHANGED <<masked, current_thread>>,
         pc[current_thread] = "user",
         NEW label \in Labels \ {"user", "stub", "handler"}, Enter(label),
         \A t \in Tids : Alive(t)' => Alive(t),
         \A t \in Tids : back'[t] = "handler" => back[t] = "handler"
  PROVE  MaskOK'
<1> DEFINE c == current_thread
<1>0. c \in Tids /\ pc \in [Tids -> Labels] /\ sig \in [Tids -> BOOLEAN] /\ intr \in BOOLEAN
  BY DEF TypeOK
<1>1. intr <=> c \notin masked
  BY DEF MaskOK, MaskOfProcessor
<1>2. Alive(c) /\ back[c] = "return"
  BY DEF ControlOK, PathOK, OnOwnStack
<1>3. MaskOfProcessor'
  BY <1>0 DEF Enter, Goto, MaskOfProcessor
<1>4. MaskOf(c)'
  <2>1. pc'[c] = label /\ sig'[c] = intr /\ back'[c] # "handler"
    BY <1>0, <1>2 DEF Enter, Goto
  <2> QED BY <1>1, <2>1 DEF MaskOf
<1>5. ASSUME NEW t \in Tids \ {c} PROVE MaskOf(t)'
  <2>1. pc'[t] = pc[t] /\ sig'[t] = sig[t]
    BY <1>0 DEF Enter, Goto
  <2> QED BY <2>1 DEF MaskOK, MaskOf
<1> QED BY <1>3, <1>4, <1>5 DEF MaskOK

(* The last step of a call: the mask the caller had is put back. *)
LEMMA LeavesMask ==
  ASSUME TypeOK, ControlOK, MaskOK, UNCHANGED <<masked, current_thread, state>>,
         Goto("user"), LeaveLocals(current_thread),
         intr' <=> current_thread \notin masked
  PROVE  MaskOK'
<1> DEFINE c == current_thread
<1>0. /\ c \in Tids /\ pc \in [Tids -> Labels] /\ sig \in [Tids -> BOOLEAN]
      /\ back \in [Tids -> ReturnLabels]
  BY DEF TypeOK
<1>1. MaskOfProcessor'
  BY <1>0 DEF Goto, MaskOfProcessor
<1>2. MaskOf(c)'
  BY <1>0 DEF Goto, LeaveLocals, MaskOf
<1>3. ASSUME NEW t \in Tids \ {c} PROVE MaskOf(t)'
  <2>1. pc'[t] = pc[t] /\ sig'[t] = sig[t] /\ back'[t] = back[t]
    BY <1>0 DEF Goto, LeaveLocals
  <2> QED BY <2>1 DEF MaskOK, MaskOf, Alive
<1> QED BY <1>1, <1>2, <1>3 DEF MaskOK

(* Each call saves the mask in a local of its own frame and restores it    *)
(* when the thread is resumed, perhaps much later.                         *)
LEMMA StepMask == TypeOK /\ ControlOK /\ MaskOK /\ [Next]_schedVars => MaskOK'
<1> SUFFICES ASSUME TypeOK, ControlOK, MaskOK, [Next]_schedVars PROVE MaskOK'
  OBVIOUS
<1> DEFINE c == current_thread
<1>0. c \in Tids /\ pc \in [Tids -> Labels] /\ back \in [Tids -> ReturnLabels]
  BY DEF TypeOK
<1>a. /\ pc[c] \in LiveReturns \cup {"stub", "user"} => Alive(c)
      /\ pc[c] \in {"stub", "user"} => back[c] = "return"
  BY DEF ControlOK, PathOK, OnOwnStack
<1> USE LabelsApart DEF At, Goto, table, locals, history, ReturnLabels, OwnReturns, OwnLabels
<1>1. CASE Return
  BY <1>0, <1>a, <1>1, LeavesMask DEF Return, MaskOK, MaskOf, LiveReturns
<1>2. CASE sigreturn
  BY <1>0, <1>a, <1>2, LeavesMask DEF sigreturn, MaskOK, MaskOf, LiveReturns
<1>3. CASE thread_stub
  <2>1. c \notin masked /\ sig[c] /\ Alive(c)
    BY <1>0, <1>a, <1>3 DEF thread_stub, MaskOK, MaskOf
  <2>2. /\ pc' = [pc EXCEPT ![c] = "user"] /\ intr' = TRUE
        /\ UNCHANGED <<state, sig, back, masked, current_thread>>
    BY <1>3 DEF thread_stub
  <2>3. MaskOfProcessor'
    BY <1>0, <2>1, <2>2 DEF MaskOfProcessor
  <2>4. ASSUME NEW t \in Tids PROVE MaskOf(t)'
    BY <1>0, <2>1, <2>2 DEF MaskOK, MaskOf, Alive
  <2> QED BY <2>3, <2>4 DEF MaskOK
<1>4. ASSUME NEW v, NEW q, pc[c] = "yield", YieldReturns(v, q) PROVE MaskOK'
  BY <1>0, <1>4, KeepsMask DEF YieldReturns, Alive
<1>5. CASE yield_self
  BY <1>4, <1>5 DEF yield_self
<1>6. CASE yield_none
  BY <1>4, <1>6 DEF yield_none
<1>7. CASE yield_invalid
  BY <1>4, <1>7 DEF yield_invalid
<1>8. ASSUME NEW t \in Tids \ {c}, NEW q, pc[c] = "yield", SwitchTo(t, q) PROVE MaskOK'
  <2>1. pc'[t] # "user" /\ current_thread' = t
    BY <1>0, <1>8 DEF SwitchTo, ControlOK, DispatchOK
  <2>2. pc' = [pc EXCEPT ![c] = "resumed"] /\ UNCHANGED <<state, back, sig, masked, intr>>
    BY <1>8 DEF SwitchTo
  <2> QED BY <1>0, <1>8, <2>1, <2>2, KeepsMask DEF Alive
<1>9. CASE yield_any
  <2> PICK i \in 1 .. Len(thread_queue) :
        /\ Runnable(thread_queue[i])
        /\ SwitchTo(thread_queue[i], SubSeq(thread_queue, i + 1, Len(thread_queue)))
    BY <1>9 DEF yield_any, Picks
  <2>1. thread_queue[i] \in Tids \ {c}
    BY DEF TypeOK, Runnable
  <2>2. pc[c] = "yield"
    BY <1>9 DEF yield_any
  <2> QED BY <2>1, <2>2, <1>8
<1>10. CASE yield_to
  BY <1>8, <1>10 DEF yield_to, Available
<1>11. CASE resumed
  BY <1>0, <1>11, KeepsMask DEF resumed, Alive
<1>12. CASE admin_mode
  BY <1>0, <1>12, KeepsMask DEF admin_mode, Alive
<1>13. CASE admin_next
  BY <1>0, <1>13, KeepsMask DEF admin_next, Alive
<1>14. CASE admin_none \/ assert_waiter \/ exit_none \/ create_no_memory \/ assert_interrupts
  BY <1>14 DEF admin_none, assert_waiter, exit_none, create_no_memory, assert_interrupts, Stop,
     MaskOK, MaskOf, MaskOfProcessor, Alive
<1>15. CASE thread_kill
  BY <1>0, <1>15, KeepsMask DEF thread_kill, Alive
<1>16. CASE kill_invalid
  BY <1>0, <1>16, KeepsMask DEF kill_invalid, Alive
<1>17. CASE killed
  BY <1>0, <1>17, KeepsMask DEF killed, Alive
<1>18. CASE handle_death
  <2>1. /\ pc[c] = "death" /\ pc'[c] \in {"yield", back[c]}
        /\ \A t \in Tids \ {c} : pc'[t] = pc[t]
        /\ UNCHANGED <<current_thread, sig, masked, intr, back>>
    BY <1>0, <1>18 DEF handle_death
  <2>2. \A t \in Tids : Alive(t)' => Alive(t)
    BY <1>18 DEF handle_death, Wakes, Alive, TypeOK
  <2>3. pc'[c] # "user"
    BY <1>0, <2>1
  <2> QED BY <1>0, <2>1, <2>2, <2>3, KeepsMask
<1>19. CASE exit_next
  BY <1>0, <1>19, KeepsMask DEF exit_next, Alive
<1>20. CASE waited
  BY <1>0, <1>20, KeepsMask DEF waited, Alive
<1>21. CASE Mask
  <2>1. /\ pc[c] = "user" /\ intr' = ~ intr
        /\ masked' = IF intr THEN masked \cup {c} ELSE masked \ {c}
        /\ UNCHANGED <<state, pc, sig, back, current_thread>>
    BY <1>21 DEF Mask
  <2>2. intr \in BOOLEAN /\ back[c] = "return"
    BY <1>a, <2>1 DEF TypeOK
  <2>3. MaskOfProcessor'
    BY <2>1, <2>2 DEF MaskOK, MaskOfProcessor
  <2>4. ASSUME NEW t \in Tids PROVE MaskOf(t)'
    BY <2>1, <2>2 DEF MaskOK, MaskOf, Alive
  <2> QED BY <2>3, <2>4 DEF MaskOK
<1>22. CASE interrupt_handler
  <2>1. /\ pc[c] = "user" /\ intr /\ intr' = FALSE /\ pc' = [pc EXCEPT ![c] = "yield"]
        /\ back' = [back EXCEPT ![c] = "handler"]
        /\ UNCHANGED <<state, sig, masked, current_thread>>
    BY <1>22 DEF interrupt_handler
  <2>2. c \notin masked /\ sig[c]
    BY <1>a, <2>1, <1>0 DEF MaskOK, MaskOf, MaskOfProcessor
  <2>3. MaskOfProcessor'
    BY <1>0, <2>1 DEF MaskOfProcessor
  <2>4. ASSUME NEW t \in Tids PROVE MaskOf(t)'
    BY <1>0, <2>1, <2>2 DEF MaskOK, MaskOf, Alive
  <2> QED BY <2>3, <2>4 DEF MaskOK
<1>23. CASE yield_call
  BY <1>0, <1>23, EntersMask DEF yield_call, Alive, Labels
<1>24. CASE kill_call
  BY <1>0, <1>24, EntersMask DEF kill_call, Alive, Labels
<1>25. CASE thread_create
  <2>1. CASE create_no_more
    BY <1>25, <2>1, EntersMask DEF thread_create, create_no_more, Alive, Labels
  <2>2. ASSUME NEW t \in Tids, create_thread(t) PROVE MaskOK'
    <3>0. pc[c] = "user" /\ intr
      BY <1>25 DEF thread_create
    <3>1. Alive(c) /\ t # c
      BY <1>a, <2>2, <3>0 DEF create_thread, Alive
    <3>2. /\ state' = [state EXCEPT ![t] = "Running"] /\ intr' = FALSE
          /\ pc' = [pc EXCEPT ![t] = "stub", ![c] = "return"]
          /\ sig' = [sig EXCEPT ![t] = TRUE, ![c] = intr]
          /\ back' = [back EXCEPT ![t] = "return"]
          /\ masked' = masked \ {t} /\ current_thread' = c
          /\ state \in [Tids -> {"Destroyed", "Running", "Sleep"}]
          /\ sig \in [Tids -> BOOLEAN]
      BY <2>2 DEF create_thread, NewEntry, TypeOK
    <3>3. MaskOfProcessor'
      BY <1>0, <3>2 DEF MaskOfProcessor
    <3>4. MaskOf(t)'
      BY <1>0, <3>1, <3>2 DEF MaskOf
    <3>5. MaskOf(c)'
      <4>1. c \notin masked /\ back[c] = "return"
        BY <1>a, <3>0 DEF MaskOK, MaskOfProcessor
      <4> QED BY <1>0, <3>0, <3>1, <3>2, <4>1 DEF MaskOf
    <3>6. ASSUME NEW s \in Tids \ {t, c} PROVE MaskOf(s)'
      BY <1>0, <3>2 DEF MaskOK, MaskOf, Alive
    <3> QED BY <3>2, <3>3, <3>4, <3>5, <3>6 DEF MaskOK
  <2> QED BY <1>25, <2>1, <2>2 DEF thread_create
<1>26. CASE thread_exit
  <2>1. pc[0] = "resumed"
    BY <1>26, SchedulerAssumption DEF thread_exit, ControlOK, DispatchOK, Tids
  <2> QED BY <1>0, <1>26, <2>1, EntersMask DEF thread_exit, Alive, Labels
<1>27. CASE exit_main
  BY <1>0, <1>27, EntersMask DEF exit_main, Alive, Labels
<1>28. CASE thread_wait
  <2> PICK t \in Call("wait") : wait_invalid(t) \/ wait_exited(t) \/ wait_sleep(t)
    BY <1>28 DEF thread_wait
  <2>1. CASE wait_invalid(t) \/ wait_exited(t)
    BY <2>1, EntersMask DEF wait_invalid, wait_exited, wait_call, Alive, Labels
  <2>2. CASE wait_sleep(t)
    <3>1. \A s \in Tids : Alive(s)' => Alive(s)
      BY <1>0, <1>a, <2>2 DEF wait_sleep, wait_call, Alive
    <3> QED BY <1>0, <2>2, <3>1, EntersMask DEF wait_sleep, wait_call, Labels
  <2> QED BY <2>1, <2>2
<1>29. CASE UNCHANGED schedVars
  BY <1>29 DEF schedVars, MaskOK, MaskOf, MaskOfProcessor, Alive
<1> QED
  BY <1>1, <1>2, <1>3, <1>5, <1>6, <1>7, <1>9, <1>10, <1>11, <1>12, <1>13, <1>14, <1>15,
     <1>16, <1>17, <1>18, <1>19, <1>20, <1>21, <1>22, <1>23, <1>24, <1>25, <1>26, <1>27,
     <1>28, <1>29 DEF Next, Library, Yielding, User, Ended

LEMMA InitMask == Init => MaskOK
  BY SchedulerAssumption DEF Init, MaskOK, MaskOf, MaskOfProcessor, Tids

LEMMA MaskFollows == MaskOK => MaskPreserved
  BY DEF MaskOK, MaskOfProcessor, MaskPreserved

(* Across calls, switches, preemption and exits, library code runs with    *)
(* the timer signal blocked, and user code finds it blocked exactly if the *)
(* thread blocked it itself.                                               *)
THEOREM MaskIsPreserved == Spec => []MaskPreserved
  BY InitMask, StepMask, MaskFollows, TypeCorrect, ControlPassesSafely, PTL DEF Spec
============================================================================
