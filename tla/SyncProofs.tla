----------------------------- MODULE SyncProofs -----------------------------
(***************************************************************************)
(* Proofs about Sync, for any number of threads, any size of the queues,   *)
(* any set of locks, condition variables and wait queues and any program   *)
(* (any sets Calls and SyncCalls), disciplined or not.                     *)
(*                                                                         *)
(* A step of SyncSpec is one of Scheduler, for which the lemmas of         *)
(* SchedulerProofs hold with the labels of Sync as OuterLabels, or one of  *)
(* the synchronisation calls, of which OuterStep says all that the         *)
(* scheduler's invariants need.                                            *)
(***************************************************************************)
EXTENDS Sync, SchedulerProofs

(* The types of what the synchronisation calls write of Scheduler's state. *)
OuterTypes ==
  /\ state' \in [Tids -> {"Destroyed", "Running", "Sleep"}]
  /\ thread_queue' \in Seq(Tids) /\ Len(thread_queue') <= QCap
  /\ intr' \in BOOLEAN /\ sig' \in [Tids -> BOOLEAN]
  /\ want' \in [Tids -> Int] /\ ret' \in [Tids -> Int]
  /\ refused' \subseteq Tids /\ overflowed' \in BOOLEAN

(* Their steps are those of a live thread, which stays on the processor:   *)
(* it enters a call with the signal blocked, goes on in it, gives up the   *)
(* processor in thread_sleep only, or comes to the end of the call.  They  *)
(* create and destroy no thread.                                           *)
OuterStep ==
  LET c == current_thread IN
  /\ UNCHANGED <<waiter, exit_code, current_thread, admin, on_stack, ctx, tid, stacks, masked>>
  /\ status = "running" /\ status' \in {"running", "aborted", "failed", "undefined"}
  /\ pc[c] \in SyncLabels \cup {"user"}
  /\ pc' = [pc EXCEPT ![c] = pc'[c]] /\ pc'[c] \in SyncLabels \cup {"user", "return", "yield"}
  /\ back' = [back EXCEPT ![c] = back'[c]] /\ back'[c] \in {back[c], "slept"}
  /\ IF pc[c] = "user" /\ pc'[c] # "user" THEN sig' = [sig EXCEPT ![c] = intr] /\ ~ intr'
                                           ELSE UNCHANGED <<intr, sig>>
  /\ pc'[c] = "user" => pc[c] = "user" /\ UNCHANGED back
  /\ pc'[c] = "yield" => back'[c] = "slept" /\ want'[c] = THREAD_ANY
  /\ \A t \in Tids : Alive(t)' <=> Alive(t)

LEMMA SyncLabel == SyncLabels \subseteq Labels
  BY SyncAssumption DEF Labels, ReturnLabels

LEMMA OuterType ==
  ASSUME SyncTypeOK, OuterStep, OuterTypes
  PROVE  TypeOK' /\ (back \in [Tids -> OwnReturns \cup {"slept"}])'
<1> USE DEF SyncTypeOK
<1>1. pc' \in [Tids -> Labels]
  BY SyncLabel DEF TypeOK, OuterStep, Labels, ReturnLabels, OwnReturns, OwnLabels
<1>2. back' \in [Tids -> OwnReturns \cup {"slept"}]
  BY DEF TypeOK, OuterStep, SyncTypeOK
<1>3. back' \in [Tids -> ReturnLabels]
  BY <1>2, SyncAssumption DEF ReturnLabels, SyncLabels
<1> QED BY <1>1, <1>2, <1>3 DEF TypeOK, OuterTypes, OuterStep, admin

(* A thread in library code that has the processor stays alive on its own  *)
(* stack, and nothing else of ControlOK is touched.                        *)
LEMMA OuterControl ==
  ASSUME SyncTypeOK, ControlOK, OuterStep PROVE ControlOK'
<1> DEFINE c == current_thread
<1>0. /\ c \in Tids /\ pc \in [Tids -> Labels] /\ back \in [Tids -> ReturnLabels]
      /\ OuterLabels = SyncLabels
  BY SyncAssumption DEF SyncTypeOK, TypeOK
<1>1. OnOwnStack(c)
  BY <1>0 DEF OuterStep, ControlOK, PathOK, LiveReturns
<1>2. ~ administrative_mode
  BY <1>0, LabelsApart DEF OuterStep, ControlOK, AdminOK, OwnLabels, OwnReturns
<1>3. pc[c] = "user" => back[c] = "return"
  BY DEF ControlOK, PathOK
<1>4. DispatchOK'
  BY <1>0 DEF OuterStep, ControlOK, DispatchOK, SyncLabels
<1>5. SuspendedOK'
  BY <1>0 DEF OuterStep, ControlOK, SuspendedOK
<1>6. AdminOK'
  BY <1>2 DEF OuterStep, AdminOK, admin
<1>7. PathOK'
  BY <1>0, <1>1, <1>2, <1>3 DEF OuterStep, PathOK, OnOwnStack, LiveReturns, SyncLabels, admin
<1>8. WaiterOK'
  BY DEF OuterStep, ControlOK, WaiterOK
<1> QED BY <1>4, <1>5, <1>6, <1>7, <1>8 DEF ControlOK

(* What is said of each synchronisation call. *)
StepOK == OuterStep /\ OuterTypes /\ ObjectsOK'

LEMMA NoFrameType == NoFrame \in Frames
  BY DEF NoFrame, Frames

LEMMA SetFrameType ==
  ASSUME ObjectsOK, NEW f \in Frames, SetFrame(f) PROVE frame' \in [Tids -> Frames]
  BY DEF ObjectsOK, SetFrame

(* A call begins: the signal is blocked, and nothing else written but      *)
(* what is stated.                                                         *)
LEMMA EnterStep ==
  ASSUME SyncTypeOK, At("user"), NEW label \in SyncLabels \cup {"return"}, Enter(label),
         UNCHANGED <<others, state, thread_queue, want, back, refused, overflowed>>,
         ret' \in [Tids -> Int]
  PROVE  OuterStep /\ OuterTypes
<1>0. current_thread \in Tids /\ pc \in [Tids -> Labels] /\ sig \in [Tids -> BOOLEAN]
      /\ back \in [Tids -> ReturnLabels] /\ intr \in BOOLEAN
  BY DEF SyncTypeOK, TypeOK
<1>1. pc'[current_thread] = label /\ label # "user" /\ label # "yield"
  BY <1>0 DEF Enter, Goto, SyncLabels
<1>2. UNCHANGED <<waiter, exit_code, current_thread, admin, on_stack, ctx, tid, stacks,
                  masked, state, back, status>>
  BY DEF others
<1>3. /\ pc' = [pc EXCEPT ![current_thread] = label] /\ pc[current_thread] = "user"
      /\ sig' = [sig EXCEPT ![current_thread] = intr] /\ ~ intr' /\ status = "running"
  BY DEF Enter, Goto, At
<1>4. OuterStep
  <2>1. pc' = [pc EXCEPT ![current_thread] = pc'[current_thread]]
    BY <1>1, <1>3
  <2>2. back' = [back EXCEPT ![current_thread] = back'[current_thread]]
    BY <1>0, <1>2
  <2>3. \A t \in Tids : Alive(t)' <=> Alive(t)
    BY <1>2 DEF Alive
  <2> QED BY <1>0, <1>1, <1>2, <1>3, <2>1, <2>2, <2>3 DEF OuterStep
<1>5. OuterTypes
  BY <1>0 DEF SyncTypeOK, TypeOK, OuterTypes, Enter
<1> QED BY <1>4, <1>5

(* A call goes on without a switch. *)
LEMMA GoOnStep ==
  ASSUME SyncTypeOK, status = "running", pc[current_thread] \in SyncLabels,
         NEW label \in SyncLabels \cup {"return"}, Goto(label),
         UNCHANGED <<others, intr, sig, want, back>>,
         state' \in [Tids -> {"Destroyed", "Running", "Sleep"}],
         \A t \in Tids : Alive(t)' <=> Alive(t),
         thread_queue' \in Seq(Tids), Len(thread_queue') <= QCap, ret' \in [Tids -> Int],
         refused' \subseteq Tids, overflowed' \in BOOLEAN
  PROVE  OuterStep /\ OuterTypes
<1>0. current_thread \in Tids /\ pc \in [Tids -> Labels] /\ back \in [Tids -> ReturnLabels]
  BY DEF SyncTypeOK, TypeOK
<1>1. pc'[current_thread] = label /\ label # "user" /\ label # "yield"
      /\ pc[current_thread] # "user"
  BY <1>0 DEF Goto, SyncLabels
<1>2. OuterStep
  BY <1>0, <1>1 DEF OuterStep, Goto, others
<1>3. OuterTypes
  BY DEF SyncTypeOK, TypeOK, OuterTypes
<1> QED BY <1>2, <1>3

LEMMA AbortStep ==
  ASSUME SyncTypeOK, NEW how \in {"aborted", "failed", "undefined"}, status = "running",
         pc[current_thread] \in SyncLabels \cup {"user"},
         Stop(how), UNCHANGED syncVars
  PROVE  StepOK
<1>0. current_thread \in Tids /\ pc \in [Tids -> Labels] /\ back \in [Tids -> ReturnLabels]
  BY DEF SyncTypeOK, TypeOK
<1>1. OuterStep
  BY <1>0 DEF OuterStep, Stop, table, locals, history, Alive, SyncLabels
<1>2. OuterTypes
  BY DEF SyncTypeOK, TypeOK, OuterTypes, Stop, table, locals, history
<1>3. ObjectsOK'
  BY DEF SyncTypeOK, ObjectsOK, syncVars
<1> QED BY <1>1, <1>2, <1>3 DEF StepOK

(* The arguments of the program's calls are objects of the right kinds. *)
LEMMA SyncArgument ==
  ASSUME NEW op, NEW c \in SyncCall(op)
  PROVE  /\ op \in {"make", "destroy"} => c.object \in Objects
         /\ op = "sleep" => c.object \in Queues \cup {None}
         /\ op \in {"wakeup", "wakeup_all"} => c.object \in Queues
         /\ op \in {"wait", "signal", "broadcast"} => c.object \in Cvs
         /\ op \in {"acquire", "release", "wait", "signal", "broadcast"} => c.lock \in Locks
  BY SyncAssumption DEF SyncCall

LEMMA CallReturnsStep ==
  ASSUME SyncTypeOK, CallReturns
  PROVE  /\ Goto(MyFrame.after) /\ MyFrame.after \in SyncLabels \cup {"return"}
         /\ frame' \in [Tids -> Frames]
<1>1. MyFrame \in Frames
  BY DEF SyncTypeOK, TypeOK, ObjectsOK, MyFrame
<1>2. frame' \in [Tids -> Frames]
  BY <1>1, NoFrameType, SetFrameType DEF CallReturns, SyncTypeOK
<1> QED BY <1>1, <1>2 DEF CallReturns, Frames, SyncLabels

(* queue_pop and queue_pop_last take the first and the last entry of a     *)
(* wait queue away, and no other.                                          *)
In(q, t) == \E i \in 1 .. Len(q) : q[i] = t

LEMMA TailEntries ==
  ASSUME NEW q \in Seq(Tids), q # <<>>, Len(q) <= QCap
  PROVE  /\ Tail(q) \in Seq(Tids) /\ Len(Tail(q)) <= QCap /\ Head(q) \in Tids
         /\ \A t : In(q, t) /\ t # Head(q) => In(Tail(q), t)
<1>1. Len(q) \in Nat \ {0} /\ Tail(q) \in Seq(Tids) /\ Len(Tail(q)) = Len(q) - 1 /\ Head(q) = q[1]
  OBVIOUS
<1>2. \A i \in 1 .. Len(Tail(q)) : Tail(q)[i] = q[i + 1]
  OBVIOUS
<1>3. ASSUME NEW t, In(q, t), t # Head(q) PROVE In(Tail(q), t)
  <2>1. PICK i \in 1 .. Len(q) : q[i] = t
    BY <1>3 DEF In
  <2>2. i - 1 \in 1 .. Len(Tail(q)) /\ (i - 1) + 1 = i
    BY <1>1, <1>3, <2>1
  <2> QED BY <1>2, <2>1, <2>2 DEF In
<1> QED BY <1>1, <1>3, SchedulerAssumption

LEMMA PrefixEntries ==
  ASSUME NEW q \in Seq(Tids), NEW n \in Nat, n <= Len(q)
  PROVE  /\ SubSeq(q, 1, n) \in Seq(Tids) /\ Len(SubSeq(q, 1, n)) = n
         /\ \A i \in 1 .. n : SubSeq(q, 1, n)[i] = q[i]
<1>1. SubSeq(q, 1, n) \in Seq(Tids)
  OBVIOUS
<1>2. Len(SubSeq(q, 1, n)) = n
  OBVIOUS
<1>3. \A i \in 1 .. n : SubSeq(q, 1, n)[i] = q[i]
  OBVIOUS
<1> QED BY <1>1, <1>2, <1>3

LEMMA FrontEntries ==
  ASSUME NEW q \in Seq(Tids), q # <<>>, Len(q) <= QCap, NEW n, n = Len(q) - 1
  PROVE  /\ SubSeq(q, 1, n) \in Seq(Tids) /\ Len(SubSeq(q, 1, n)) <= QCap
         /\ \A t : In(q, t) /\ t # q[Len(q)] => In(SubSeq(q, 1, n), t)
<1>1. n \in Nat /\ n < Len(q)
  OBVIOUS
<1>2. /\ SubSeq(q, 1, n) \in Seq(Tids) /\ Len(SubSeq(q, 1, n)) = n
      /\ \A i \in 1 .. n : SubSeq(q, 1, n)[i] = q[i]
  BY <1>1, PrefixEntries
<1>3. ASSUME NEW t, In(q, t), t # q[Len(q)] PROVE In(SubSeq(q, 1, n), t)
  BY <1>1, <1>2, <1>3 DEF In
<1> QED BY <1>1, <1>2, <1>3, SchedulerAssumption

LEMMA QueueType ==
  ASSUME ObjectsOK, NEW o \in Objects, NEW q \in Seq(Tids), Len(q) <= QCap,
         wq' = [wq EXCEPT ![o] = q]
  PROVE  wq' \in [Objects -> Seq(Tids)] /\ \A x \in Objects : Len(wq'[x]) <= QCap
  BY DEF ObjectsOK

(* A wakeup begins. *)
LEMMA WakeCallStep ==
  ASSUME SyncTypeOK, At("user"), NEW o \in Objects, NEW all \in BOOLEAN, NEW f \in Frames,
         WakeCall(o, all, f)
  PROVE  OuterStep /\ OuterTypes /\ frame' \in [Tids -> Frames]
<1>1. ret' \in [Tids -> Int]
  BY DEF SyncTypeOK, TypeOK, WakeCall, Answer
<1>2. OuterStep /\ OuterTypes
  BY <1>1, EnterStep DEF WakeCall, SyncLabels
<1>3. [f EXCEPT !.queue = o, !.all = all] \in Frames
  BY DEF Frames
<1> QED BY <1>2, <1>3, SetFrameType DEF WakeCall, SyncTypeOK

(* The objects keep their types when a lock is given up. *)
LEMMA ReleaseStep ==
  ASSUME SyncTypeOK, At("user"), NEW l \in Locks, NEW f \in Frames, Release(l, f)
  PROVE  StepOK
<1>1. l \in Objects
  BY DEF Objects
<1>2. OuterStep /\ OuterTypes /\ frame' \in [Tids -> Frames]
  BY <1>1, WakeCallStep DEF Release
<1>3. ObjectsOK'
  BY <1>2 DEF SyncTypeOK, ObjectsOK, Release, WakeCall
<1> QED BY <1>2, <1>3 DEF StepOK

(* What the program's calls do first. *)
LEMMA UserStep == SyncTypeOK /\ SyncUser => StepOK
<1> SUFFICES ASSUME SyncTypeOK, SyncUser PROVE StepOK
  OBVIOUS
<1>0. TypeOK /\ ObjectsOK /\ current_thread \in Tids
  BY DEF SyncTypeOK, TypeOK
<1>1. ASSUME At("user"), UNCHANGED <<schedVars, wq, current, frame, inside>>,
             life' \in [Objects -> {"absent", "made", "freed"}],
             destroying' \in [Locks -> SUBSET Tids]
      PROVE  StepOK
  <2>1. OuterStep
    BY <1>0, <1>1 DEF TypeOK, schedVars, At, OuterStep, admin, Alive
  <2>2. OuterTypes
    BY <1>0, <1>1 DEF TypeOK, schedVars, OuterTypes
  <2> QED BY <1>0, <1>1, <2>1, <2>2 DEF ObjectsOK, StepOK
<1>2. CASE make
  BY <1>0, <1>1, <1>2 DEF make, ObjectsOK
<1>3. CASE destroy
  BY <1>0, <1>1, <1>3 DEF destroy, ObjectsOK
<1>4. CASE lock_destroy \/ free_lock
  <2>1. ASSUME NEW l \in Locks,
               \/ destroying' = [destroying EXCEPT ![l] = @ \cup {current_thread}]
               \/ destroying' = [destroying EXCEPT ![l] = @ \ {current_thread}]
        PROVE  destroying' \in [Locks -> SUBSET Tids]
    <3>1. /\ destroying[l] \cup {current_thread} \in SUBSET Tids
          /\ destroying[l] \ {current_thread} \in SUBSET Tids
      BY <1>0 DEF ObjectsOK
    <3> QED BY <1>0, <2>1, <3>1 DEF ObjectsOK
  <2>2. destroying' \in [Locks -> SUBSET Tids]
    BY <1>4, <2>1 DEF lock_destroy, free_lock
  <2>3. life' \in [Objects -> {"absent", "made", "freed"}]
    BY <1>0, <1>4 DEF lock_destroy, free_lock, ObjectsOK
  <2> QED BY <1>1, <1>4, <2>2, <2>3 DEF lock_destroy, free_lock
<1>5. CASE destroy_held \/ make_no_memory \/ free_again \/ assert_holder
  <2>1. At("user") /\ UNCHANGED syncVars
        /\ \E how \in {"aborted", "failed", "undefined"} : Stop(how)
    BY <1>5 DEF destroy_held, make_no_memory, free_again, assert_holder, Abort
  <2> QED BY <2>1, AbortStep DEF At
<1>6. CASE sleep_invalid
  <2>1. ret' \in [Tids -> Int]
    BY <1>0, <1>6 DEF sleep_invalid, Answer, TypeOK, THREAD_INVALID
  <2>2. OuterStep /\ OuterTypes
    BY <1>6, <2>1, EnterStep DEF sleep_invalid
  <2> QED BY <1>0, <1>6, <2>2 DEF sleep_invalid, syncVars, ObjectsOK, StepOK
<1>7. CASE sleep_call
  <2> PICK c \in SyncCall("sleep") : c.object # None /\ SetFrame([NoFrame EXCEPT !.queue = c.object])
    BY <1>7 DEF sleep_call
  <2>1. [NoFrame EXCEPT !.queue = c.object] \in Frames
    BY SyncArgument, NoFrameType DEF Frames, Objects
  <2>2. OuterStep /\ OuterTypes
    BY <1>0, <1>7, EnterStep DEF sleep_call, TypeOK, SyncLabels
  <2>3. ObjectsOK'
    BY <1>0, <1>7, <2>1, SetFrameType DEF sleep_call, ObjectsOK, objects
  <2> QED BY <2>2, <2>3 DEF StepOK
<1>8. CASE acquire_call
  <2> PICK c \in SyncCall("acquire") : SetFrame([NoFrame EXCEPT !.mutex = c.lock])
    BY <1>8 DEF acquire_call
  <2>1. [NoFrame EXCEPT !.mutex = c.lock] \in Frames
    BY SyncArgument, NoFrameType DEF Frames
  <2>2. OuterStep /\ OuterTypes
    BY <1>0, <1>8, EnterStep DEF acquire_call, TypeOK, SyncLabels
  <2>3. ObjectsOK'
    BY <1>0, <1>8, <2>1, SetFrameType DEF acquire_call, ObjectsOK, objects
  <2> QED BY <2>2, <2>3 DEF StepOK
<1>9. ASSUME At("user"), NEW o \in Objects, NEW all \in BOOLEAN, WakeCall(o, all, NoFrame),
             UNCHANGED <<current, inside>>
      PROVE  StepOK
  <2>1. OuterStep /\ OuterTypes /\ frame' \in [Tids -> Frames]
    BY <1>9, NoFrameType, WakeCallStep
  <2>2. ObjectsOK'
    BY <1>0, <1>9, <2>1 DEF WakeCall, ObjectsOK
  <2> QED BY <2>1, <2>2 DEF StepOK
<1>10. CASE wakeup_call
  <2> PICK all \in BOOLEAN : \E c \in SyncCall(IF all THEN "wakeup_all" ELSE "wakeup") :
         WakeCall(c.object, all, NoFrame)
    BY <1>10 DEF wakeup_call
  <2> PICK c \in SyncCall(IF all THEN "wakeup_all" ELSE "wakeup") : WakeCall(c.object, all, NoFrame)
    OBVIOUS
  <2>1. c.object \in Objects
    BY SyncArgument DEF Objects
  <2> QED BY <1>9, <1>10, <2>1 DEF wakeup_call
<1>11. CASE cv_signal
  <2> PICK c \in SyncCall("signal") : WakeCall(c.object, FALSE, NoFrame)
    BY <1>11 DEF cv_signal
  <2>1. c.object \in Objects
    BY SyncArgument DEF Objects
  <2> QED BY <1>9, <1>11, <2>1 DEF cv_signal
<1>12. CASE cv_broadcast
  <2> PICK c \in SyncCall("broadcast") : WakeCall(c.object, TRUE, NoFrame)
    BY <1>12 DEF cv_broadcast
  <2>1. c.object \in Objects
    BY SyncArgument DEF Objects
  <2> QED BY <1>9, <1>12, <2>1 DEF cv_broadcast
<1>13. CASE lock_release
  <2> PICK c \in SyncCall("release") : Release(c.lock, NoFrame)
    BY <1>13 DEF lock_release
  <2> QED BY <1>13, SyncArgument, NoFrameType, ReleaseStep DEF lock_release
<1>14. CASE cv_wait
  <2> PICK c \in SyncCall("wait") :
         Release(c.lock, [NoFrame EXCEPT !.after = "cv_sleep", !.mutex = c.lock, !.cond = c.object])
    BY <1>14 DEF cv_wait
  <2>1. [NoFrame EXCEPT !.after = "cv_sleep", !.mutex = c.lock, !.cond = c.object] \in Frames
    BY SyncArgument, NoFrameType DEF Frames
  <2> QED BY <1>14, <2>1, SyncArgument, ReleaseStep DEF cv_wait
<1> QED
  BY <1>2, <1>3, <1>4, <1>5, <1>6, <1>7, <1>8, <1>10, <1>11, <1>12, <1>13, <1>14 DEF SyncUser

(* The rest of the calls. *)
LEMMA LibraryStep == SyncTypeOK /\ ControlOK /\ FramesOK /\ SyncLibrary => StepOK
<1> SUFFICES ASSUME SyncTypeOK, ControlOK, FramesOK, SyncLibrary PROVE StepOK
  OBVIOUS
<1>0. /\ TypeOK /\ ObjectsOK /\ current_thread \in Tids /\ MyFrame \in Frames
      /\ state \in [Tids -> {"Destroyed", "Running", "Sleep"}]
  BY DEF SyncTypeOK, TypeOK, ObjectsOK, MyFrame
<1>a. pc[current_thread] \in {"sleep", "slept", "wakeup"} =>
        MyFrame.queue \in Objects /\ MyQueue \in Seq(Tids) /\ Len(MyQueue) <= QCap
  BY <1>0 DEF FramesOK, ObjectsOK, MyQueue
<1>b. \E l \in SyncLabels : pc[current_thread] = l /\ status = "running"
  BY DEF SyncLibrary, thread_sleep, slept, slept_alone, slept_assert, wake, wake_dead, wake_assert,
     wake_none, lock_acquire, acquire_wait, acquire_freed, cv_sleep, cv_woken, At, SyncLabels
<1>c. Alive(current_thread)
  BY <1>b, SyncAssumption DEF ControlOK, PathOK, OnOwnStack, LiveReturns
<1>1. CASE slept_assert \/ wake_assert \/ acquire_freed
  BY <1>1, <1>b, AbortStep DEF slept_assert, wake_assert, acquire_freed, Abort
<1>2. CASE slept \/ wake_none
  <2>1. /\ CallReturns /\ UNCHANGED <<others, objects, state, thread_queue, intr, sig, want, back,
                                       ret, refused, overflowed>>
    BY <1>2 DEF slept, wake_none
  <2>2. OuterStep /\ OuterTypes
    BY <1>0, <1>b, <2>1, CallReturnsStep, GoOnStep DEF TypeOK, Alive
  <2> QED BY <1>0, <2>1, <2>2, CallReturnsStep DEF objects, ObjectsOK, StepOK
<1>3. CASE lock_acquire
  <2>1. OuterStep /\ OuterTypes
    BY <1>0, <1>3, <1>b, GoOnStep DEF lock_acquire, TypeOK, Alive
  <2>2. frame' \in [Tids -> Frames]
    BY <1>0, <1>3, NoFrameType, SetFrameType DEF lock_acquire
  <2> QED BY <1>0, <1>3, <2>1, <2>2 DEF lock_acquire, ObjectsOK, StepOK
<1>4. CASE acquire_wait
  <2>1. OuterStep /\ OuterTypes
    BY <1>0, <1>4, <1>b, GoOnStep DEF acquire_wait, TypeOK, Alive, SyncLabels
  <2>2. [MyFrame EXCEPT !.queue = MyFrame.mutex, !.after = "acquire"] \in Frames
    BY <1>0 DEF Frames, Objects
  <2>3. frame' \in [Tids -> Frames]
    BY <1>0, <1>4, <2>2, SetFrameType DEF acquire_wait
  <2> QED BY <1>0, <1>4, <2>1, <2>3 DEF acquire_wait, objects, ObjectsOK, StepOK
<1>5. CASE cv_sleep
  <2>1. OuterStep /\ OuterTypes
    BY <1>0, <1>5, <1>b, GoOnStep DEF cv_sleep, TypeOK, Alive, SyncLabels
  <2>2. [MyFrame EXCEPT !.queue = MyFrame.cond, !.after = "cv_woken"] \in Frames
    BY <1>0 DEF Frames, Objects
  <2>3. frame' \in [Tids -> Frames]
    BY <1>0, <1>5, <2>2, SetFrameType DEF cv_sleep
  <2> QED BY <1>0, <1>5, <2>1, <2>3 DEF cv_sleep, objects, ObjectsOK, StepOK
<1>6. CASE cv_woken
  <2>1. OuterStep /\ OuterTypes
    BY <1>0, <1>6, <1>b, GoOnStep DEF cv_woken, TypeOK, Alive, SyncLabels
  <2>2. [NoFrame EXCEPT !.mutex = MyFrame.mutex] \in Frames
    BY <1>0, NoFrameType DEF Frames
  <2>3. frame' \in [Tids -> Frames]
    BY <1>0, <1>6, <2>2, SetFrameType DEF cv_woken
  <2> QED BY <1>0, <1>6, <2>1, <2>3 DEF cv_woken, objects, ObjectsOK, StepOK
<1>7. CASE wake_dead
  <2>1. OuterStep
    BY <1>0, <1>7, <1>b DEF wake_dead, TypeOK, schedVars, OuterStep, admin, Alive, SyncLabels
  <2>2. OuterTypes
    BY <1>0, <1>7 DEF wake_dead, TypeOK, schedVars, OuterTypes
  <2>3. wq' \in [Objects -> Seq(Tids)] /\ \A o \in Objects : Len(wq'[o]) <= QCap
    <3>1. MyQueue # <<>> /\ wq' = [wq EXCEPT ![MyFrame.queue] = Tail(MyQueue)]
          /\ MyFrame.queue \in Objects /\ MyQueue \in Seq(Tids) /\ Len(MyQueue) <= QCap
      BY <1>7, <1>a DEF wake_dead, At, MyQueue
    <3> QED BY <1>0, <3>1, TailEntries, QueueType
  <2> QED BY <1>0, <1>7, <2>1, <2>2, <2>3 DEF wake_dead, ObjectsOK, StepOK
<1>8. CASE wake
  <2>1. /\ MyQueue # <<>> /\ wq' = [wq EXCEPT ![MyFrame.queue] = Tail(MyQueue)]
        /\ MyFrame.queue \in Objects /\ MyQueue \in Seq(Tids) /\ Len(MyQueue) <= QCap
    BY <1>8, <1>a DEF wake, At, MyQueue
  <2>2. wq' \in [Objects -> Seq(Tids)] /\ \A o \in Objects : Len(wq'[o]) <= QCap
    BY <1>0, <2>1, TailEntries, QueueType
  <2>3. Head(MyQueue) \in Tids
    BY <2>1, TailEntries
  <2>4. /\ state' \in [Tids -> {"Destroyed", "Running", "Sleep"}]
        /\ \A t \in Tids : Alive(t)' <=> Alive(t)
    BY <1>0, <1>8, <2>3 DEF wake, Alive
  <2>5. thread_queue' \in Seq(Tids) /\ Len(thread_queue') <= QCap
        /\ refused' \subseteq Tids /\ overflowed' \in BOOLEAN
    BY <1>0, <1>8, <2>3, PushedType DEF wake, TypeOK, Refused, Overflows
  <2>6. ret' \in [Tids -> Int]
    BY <1>0, <1>8 DEF wake, TypeOK, Answer
  <2>7. \E label \in SyncLabels \cup {"return"} : Goto(label)
    <3>1. CASE MyFrame.all
      BY <1>0, <1>8, <3>1 DEF wake, At, Goto, TypeOK, SyncLabels
    <3>2. CASE ~ MyFrame.all
      BY <1>8, <3>2, CallReturnsStep DEF wake
    <3> QED BY <3>1, <3>2
  <2>8. OuterStep /\ OuterTypes
    BY <1>0, <1>8, <1>b, <2>4, <2>5, <2>6, <2>7, GoOnStep DEF wake
  <2>9. frame' \in [Tids -> Frames]
    BY <1>0, <1>8, CallReturnsStep DEF wake, ObjectsOK
  <2> QED BY <1>0, <1>8, <2>2, <2>8, <2>9 DEF wake, ObjectsOK, StepOK
<1>9. CASE slept_alone
  <2>1. /\ MyQueue # <<>> /\ wq' = [wq EXCEPT ![MyFrame.queue] = SubSeq(MyQueue, 1, Len(MyQueue) - 1)]
        /\ MyFrame.queue \in Objects /\ MyQueue \in Seq(Tids) /\ Len(MyQueue) <= QCap
    BY <1>9, <1>a DEF slept_alone, At, MyQueue
  <2>2. wq' \in [Objects -> Seq(Tids)] /\ \A o \in Objects : Len(wq'[o]) <= QCap
    BY <1>0, <2>1, FrontEntries, QueueType
  <2>3. /\ state' \in [Tids -> {"Destroyed", "Running", "Sleep"}]
        /\ \A t \in Tids : Alive(t)' <=> Alive(t)
    BY <1>0, <1>9, <1>c DEF slept_alone, Alive
  <2>4. OuterStep /\ OuterTypes
    BY <1>0, <1>9, <1>b, <2>3, CallReturnsStep, GoOnStep DEF slept_alone, TypeOK
  <2> QED BY <1>0, <1>9, <2>2, <2>4, CallReturnsStep DEF slept_alone, ObjectsOK, StepOK
<1>10. CASE thread_sleep
  <2>1. MyQueue \in Seq(Tids) /\ Len(MyQueue) <= QCap
    BY <1>10, <1>a DEF thread_sleep, At
  <2>2. wq' \in [Objects -> Seq(Tids)] /\ \A o \in Objects : Len(wq'[o]) <= QCap
    BY <1>0, <1>10, <2>1, PushedType DEF thread_sleep, ObjectsOK, MyQueue
  <2>3. /\ state' \in [Tids -> {"Destroyed", "Running", "Sleep"}]
        /\ \A t \in Tids : Alive(t)' <=> Alive(t)
    BY <1>0, <1>10, <1>c DEF thread_sleep, Alive
  <2>4. want' \in [Tids -> Int] /\ want'[current_thread] = THREAD_ANY /\ overflowed' \in BOOLEAN
    BY <1>0, <1>10 DEF thread_sleep, TypeOK, THREAD_ANY, Overflows
  <2>5. /\ pc' = [pc EXCEPT ![current_thread] = "yield"] /\ back' = [back EXCEPT ![current_thread] = "slept"]
        /\ pc'[current_thread] = "yield" /\ back'[current_thread] = "slept" /\ pc[current_thread] = "sleep"
    BY <1>0, <1>10 DEF thread_sleep, TypeOK, Goto, At
  <2>6. OuterStep
    BY <1>10, <1>b, <2>3, <2>4, <2>5 DEF thread_sleep, OuterStep, others
  <2>7. OuterTypes
    BY <1>0, <1>10, <2>3, <2>4 DEF thread_sleep, OuterTypes, TypeOK
  <2> QED BY <1>0, <1>10, <2>2, <2>6, <2>7 DEF thread_sleep, ObjectsOK, StepOK
<1> QED BY <1>1, <1>2, <1>3, <1>4, <1>5, <1>6, <1>7, <1>8, <1>9, <1>10 DEF SyncLibrary

------------------------------------------------------------------------------
(* What the steps of Scheduler do to threads that are in a call of Sync.   *)
InSleep(t) == back[t] = "slept" /\ pc[t] \in {"yield", "resumed"}

(* The steps of Scheduler run no label of Sync, and come to one only where *)
(* thread_yield returns.                                                   *)
LEMMA AloneLabels ==
  ASSUME SyncTypeOK, ControlOK, status = "running", Next
  PROVE  /\ pc[current_thread] \notin SyncLabels
         /\ pc'[current_thread'] \in SyncLabels =>
              /\ current_thread' = current_thread /\ InSleep(current_thread)
              /\ pc'[current_thread] = "slept"
<1> DEFINE c == current_thread
<1>0. /\ c \in Tids /\ pc \in [Tids -> Labels] /\ back \in [Tids -> OwnReturns \cup {"slept"}]
      /\ TypeOK /\ OuterLabels = SyncLabels
  BY SyncAssumption DEF SyncTypeOK, TypeOK
<1>1. \A l \in SyncLabels : l \notin OwnReturns \cup OwnLabels
  BY LabelsApart, SyncAssumption
<1> USE DEF At, Goto, OwnReturns, OwnLabels, InSleep, SyncLabels
<1>2. CASE Return \/ sigreturn \/ thread_stub \/ admin_mode \/ admin_next
  BY <1>0, <1>2 DEF Return, sigreturn, thread_stub, admin_mode, admin_next
<1>3. CASE kill_invalid \/ killed \/ exit_next \/ waited \/ interrupt_handler \/ thread_kill
  BY <1>0, <1>3 DEF kill_invalid, killed, exit_next, waited, interrupt_handler, thread_kill
<1>4. CASE yield_call \/ kill_call \/ thread_wait \/ exit_main \/ Mask
  BY <1>0, <1>4 DEF yield_call, kill_call, thread_wait, wait_invalid, wait_exited, wait_sleep,
     wait_call, exit_main, Mask, locals, Enter
<1>5. CASE yield_self \/ yield_none \/ yield_invalid \/ resumed
  BY <1>0, <1>5 DEF yield_self, yield_none, yield_invalid, YieldReturns, resumed
<1>6. ASSUME NEW t \in Tids \ {c}, NEW q, pc[c] = "yield", SwitchTo(t, q)
      PROVE  pc[c] \notin SyncLabels /\ pc'[current_thread'] \notin SyncLabels
  BY <1>0, <1>6 DEF SwitchTo, ControlOK, DispatchOK
<1>7. CASE yield_any
  <2> PICK i \in 1 .. Len(thread_queue) :
        /\ Runnable(thread_queue[i])
        /\ SwitchTo(thread_queue[i], SubSeq(thread_queue, i + 1, Len(thread_queue)))
    BY <1>7 DEF yield_any, Picks
  <2>1. thread_queue[i] \in Tids \ {c}
    <3>1. thread_queue \in Seq(Tids)
      BY <1>0 DEF TypeOK
    <3>2. thread_queue[i] \in Tids
      BY <3>1
    <3>3. thread_queue[i] # c
      BY DEF Runnable
    <3> QED BY <3>2, <3>3
  <2>2. pc[c] = "yield"
    BY <1>7 DEF yield_any
  <2> QED BY <2>1, <2>2, <1>6
<1>8. CASE yield_to
  BY <1>6, <1>8 DEF yield_to, Available
<1>9. CASE admin_none \/ assert_waiter \/ exit_none \/ create_no_memory \/ assert_interrupts
  BY <1>0, <1>9 DEF admin_none, assert_waiter, exit_none, create_no_memory, assert_interrupts, Stop
<1>10. CASE handle_death
  <2>1. back[c] \in {"killed", "admin", "exit"} /\ (Goto("yield") \/ Goto(back[c]))
        /\ pc[c] = "death" /\ current_thread' = c
    BY <1>10 DEF handle_death, ControlOK, PathOK
  <2> QED BY <1>0, <2>1
<1>11. CASE thread_create
  <2>1. pc'[c] = "return" /\ current_thread' = c /\ pc[c] = "user"
    <3>1. CASE create_no_more
      BY <1>0, <1>11, <3>1 DEF thread_create, create_no_more, Enter
    <3>2. ASSUME NEW t \in Tids, create_thread(t), pc[c] = "user"
          PROVE  pc'[c] = "return" /\ current_thread' = c
      BY <1>0, <3>2 DEF create_thread
    <3> QED BY <1>11, <3>1, <3>2 DEF thread_create
  <2> QED BY <2>1
<1>12. CASE thread_exit
  <2>1. pc[0] = "resumed" /\ pc[c] = "user"
    BY <1>12, SchedulerAssumption DEF thread_exit, ControlOK, DispatchOK, Tids
  <2> QED BY <1>0, <1>12, <2>1 DEF thread_exit, Enter
<1>13. CASE Ended
  BY <1>13 DEF Ended
<1> QED
  BY <1>2, <1>3, <1>4, <1>5, <1>7, <1>8, <1>9, <1>10, <1>11, <1>12, <1>13 DEF Next, Library,
     Yielding, User

(* They put no thread to sleep in thread_sleep, and a full ready queue is  *)
(* never forgotten.                                                        *)
LEMMA AloneSleepers ==
  ASSUME SyncTypeOK, ControlOK, [Next]_schedVars
  PROVE  /\ overflowed => overflowed'
         /\ status' = "running" => status = "running"
         /\ \A t \in Tids : InSleep(t)' => InSleep(t) /\ (state'[t] = "Sleep" => state[t] = "Sleep")
         /\ \A t \in Tids : back'[t] \in OwnReturns \cup {back[t]}
<1> DEFINE c == current_thread
           Keeps == /\ overflowed => overflowed'
                    /\ status' = "running" => status = "running"
                    /\ \A t \in Tids : InSleep(t)' => InSleep(t) /\ (state'[t] = "Sleep" => state[t] = "Sleep")
                    /\ \A t \in Tids : back'[t] \in OwnReturns \cup {back[t]}
<1>0. /\ c \in Tids /\ pc \in [Tids -> Labels] /\ back \in [Tids -> OwnReturns \cup {"slept"}]
      /\ TypeOK /\ state \in [Tids -> {"Destroyed", "Running", "Sleep"}]
  BY DEF SyncTypeOK, TypeOK
<1>1. pc[c] = "user" => back[c] = "return"
  BY DEF ControlOK, PathOK
<1> USE DEF At, Goto, OwnReturns, OwnLabels, InSleep, table, history
<1>2. CASE Return \/ sigreturn \/ thread_stub \/ admin_mode \/ admin_next
  BY <1>0, <1>1, <1>2 DEF Return, sigreturn, thread_stub, admin_mode, admin_next, LeaveLocals, locals
<1>3. CASE kill_invalid \/ killed \/ exit_next \/ waited \/ interrupt_handler \/ thread_kill
  BY <1>0, <1>1, <1>3 DEF kill_invalid, killed, exit_next, waited, interrupt_handler, thread_kill, locals
<1>4. CASE yield_call \/ kill_call \/ exit_main \/ Mask
  BY <1>0, <1>1, <1>4 DEF yield_call, kill_call, exit_main, Mask, locals, Enter
<1>5. CASE yield_self \/ yield_none \/ yield_invalid \/ resumed
  BY <1>0, <1>5 DEF yield_self, yield_none, yield_invalid, YieldReturns, resumed
<1>6. ASSUME NEW t, NEW q, pc[c] = "yield", SwitchTo(t, q) PROVE Keeps
  BY <1>0, <1>6 DEF SwitchTo, Overflows
<1>7. CASE yield_any
  BY <1>6, <1>7 DEF yield_any
<1>8. CASE yield_to
  BY <1>6, <1>8 DEF yield_to
<1>9. CASE admin_none \/ assert_waiter \/ exit_none \/ create_no_memory \/ assert_interrupts
  BY <1>0, <1>9 DEF admin_none, assert_waiter, exit_none, create_no_memory, assert_interrupts, Stop, locals
<1>10. CASE handle_death
  <2>1. back[c] \in {"killed", "admin", "exit"} /\ (Goto("yield") \/ Goto(back[c]))
        /\ UNCHANGED <<back, overflowed, status>>
    BY <1>10 DEF handle_death, ControlOK, PathOK
  <2>2. \A t \in Tids : state'[t] = "Sleep" => state[t] = "Sleep"
    BY <1>0, <1>10 DEF handle_death
  <2> QED BY <1>0, <2>1, <2>2
<1>11. CASE create_no_more
  BY <1>0, <1>1, <1>11 DEF create_no_more, Enter
<1>12. ASSUME NEW t \in Tids, create_thread(t) PROVE Keeps
  BY <1>0, <1>12 DEF create_thread, Overflows, NewEntry
<1>13. CASE thread_create
  BY <1>11, <1>12, <1>13 DEF thread_create
<1>14. CASE thread_exit
  BY <1>0, <1>1, <1>14 DEF thread_exit, Enter
<1>15. CASE thread_wait
  <2> PICK t \in Call("wait") : wait_invalid(t) \/ wait_exited(t) \/ wait_sleep(t)
    BY <1>15 DEF thread_wait
  <2>1. CASE wait_invalid(t) \/ wait_exited(t)
    BY <1>0, <1>1, <2>1 DEF wait_invalid, wait_exited, wait_call, Enter
  <2>2. CASE wait_sleep(t)
    BY <1>0, <1>1, <2>2 DEF wait_sleep, wait_call, Enter
  <2> QED BY <2>1, <2>2
<1>16. CASE Ended \/ UNCHANGED schedVars
  BY <1>16 DEF Ended, schedVars
<1> QED
  BY <1>2, <1>3, <1>4, <1>5, <1>7, <1>8, <1>9, <1>10, <1>13, <1>14, <1>15, <1>16 DEF Next, Library,
     Yielding, User

------------------------------------------------------------------------------
(* Every step keeps the types and ControlOK; together with FramesOK they   *)
(* are inductive.                                                          *)
LEMMA AloneStep ==
  ASSUME SyncTypeOK, ControlOK, Alone PROVE SyncTypeOK' /\ ControlOK'
<1>0. TypeOK /\ ObjectsOK /\ [Next]_schedVars
  BY DEF SyncTypeOK, Alone
<1>1. TypeOK'
  BY <1>0, StepType DEF ControlOK
<1>2. ControlOK'
  BY <1>0, StepDispatch, StepWaiter, StepControl DEF ControlOK
<1>3. (back \in [Tids -> OwnReturns \cup {"slept"}])'
  <2>1. back' \in [Tids -> ReturnLabels] /\ back \in [Tids -> OwnReturns \cup {"slept"}]
    BY <1>1 DEF TypeOK, SyncTypeOK
  <2>2. \A t \in Tids : back'[t] \in OwnReturns \cup {back[t]}
    BY <1>0, AloneSleepers
  <2> QED BY <2>1, <2>2
<1>4. ObjectsOK'
  <2>1. \A l \in Locks : inside'[l] \subseteq inside[l]
    BY DEF Alone
  <2>2. inside' \in [Locks -> SUBSET Tids]
    BY <1>0 DEF Alone, ObjectsOK
  <2> QED BY <1>0, <2>2 DEF Alone, ObjectsOK
<1> QED BY <1>1, <1>2, <1>3, <1>4 DEF SyncTypeOK

LEMMA CallStep ==
  ASSUME SyncTypeOK, ControlOK, FramesOK, SyncLibrary \/ SyncUser
  PROVE  StepOK /\ SyncTypeOK' /\ ControlOK'
<1>1. StepOK
  BY UserStep, LibraryStep
<1> QED BY <1>1, OuterType, OuterControl DEF StepOK, SyncTypeOK

(* A synchronisation call writes the frame of the running thread only.     *)
LEMMA FrameStep ==
  ASSUME SyncTypeOK, FramesOK, OuterStep, NEW f \in Frames,
         frame' = [frame EXCEPT ![current_thread] = f],
         NEW at, at = pc'[current_thread],
         f.after # "return" => f.mutex \in Locks,
         f.after \in {"cv_sleep", "cv_woken"} => f.cond \in Cvs,
         at \in {"sleep", "slept", "wakeup", "yield"} => f.queue \in Objects,
         at = "acquire" => f.mutex \in Locks,
         at \in {"cv_sleep", "cv_woken"} => f.after = at,
         at = "sleep" /\ f.queue \in Locks => current'[f.queue] # -1,
         at = "wakeup" /\ f.queue \in Locks => f.all /\ current'[f.queue] = -1
  PROVE  FramesOK'
<1> DEFINE c == current_thread
<1>0. /\ c \in Tids /\ frame \in [Tids -> Frames] /\ pc \in [Tids -> Labels] /\ back \in [Tids -> ReturnLabels]
  BY DEF SyncTypeOK, TypeOK, ObjectsOK
<1>1. c' = c /\ MyFrame' = f /\ frame'[c] = f
  BY <1>0 DEF MyFrame, OuterStep
<1>2. at # "resumed"
  BY DEF OuterStep, SyncLabels
<1>3. \A t \in Tids \ {c} : pc'[t] = pc[t] /\ back'[t] = back[t] /\ frame'[t] = frame[t]
  BY <1>0 DEF OuterStep
<1> QED BY <1>0, <1>1, <1>2, <1>3 DEF FramesOK

LEMMA AloneFrames == SyncTypeOK /\ ControlOK /\ FramesOK /\ Alone => FramesOK'
<1> SUFFICES ASSUME SyncTypeOK, ControlOK, FramesOK, Alone PROVE FramesOK'
  OBVIOUS
<1>0. Next /\ UNCHANGED <<frame, current>> /\ current_thread \in Tids
  BY DEF Alone, SyncTypeOK, TypeOK
<1>1. \A t \in Tids : InSleep(t)' => InSleep(t)
  BY <1>0, AloneSleepers
<1>2. CASE status = "running" /\ pc'[current_thread'] \in SyncLabels
  <2>1. current_thread' = current_thread /\ InSleep(current_thread) /\ pc'[current_thread] = "slept"
    BY <1>0, <1>2, AloneLabels
  <2> QED BY <1>0, <1>1, <2>1 DEF FramesOK, InSleep, MyFrame
<1>3. CASE pc'[current_thread'] \notin SyncLabels
  BY <1>0, <1>1, <1>3 DEF FramesOK, InSleep, MyFrame, SyncLabels
<1>4. CASE status # "running"
  <2>1. UNCHANGED schedVars
    BY <1>0, <1>4 DEF Next, Library, User, Yielding, Return, sigreturn, thread_stub, yield_self, yield_any,
       yield_none, yield_to, yield_invalid, resumed, admin_mode, admin_next, admin_none, thread_kill,
       kill_invalid, killed, handle_death, assert_waiter, exit_next, exit_none, waited, Mask,
       thread_create, create_no_memory, assert_interrupts, yield_call, kill_call, thread_exit,
       exit_main, thread_wait, wait_invalid, wait_exited, wait_sleep, wait_call, interrupt_handler, At, Ended
  <2> QED BY <1>0, <2>1 DEF schedVars, FramesOK, MyFrame
<1> QED BY <1>2, <1>3, <1>4

(* The frames of the calls: what each leaves in its locals for the code    *)
(* that it calls.                                                          *)
LEMMA UserFrames == SyncTypeOK /\ ControlOK /\ FramesOK /\ SyncUser => FramesOK'
<1> SUFFICES ASSUME SyncTypeOK, ControlOK, FramesOK, SyncUser PROVE FramesOK'
  OBVIOUS
<1> DEFINE c == current_thread
<1>0. /\ OuterStep /\ c \in Tids /\ MyFrame \in Frames /\ pc \in [Tids -> Labels] /\ frame \in [Tids -> Frames]
      /\ current \in [Locks -> Tids \cup {-1}]
  BY CallStep DEF StepOK, SyncTypeOK, TypeOK, ObjectsOK, MyFrame
<1>a. Locks \subseteq Objects /\ Cvs \subseteq Objects /\ Queues \subseteq Objects
      /\ Locks \cap Cvs = {} /\ Locks \cap Queues = {} /\ None \notin Objects
  BY SyncAssumption DEF Objects
<1>b. NoFrame \in Frames /\ NoFrame.after = "return"
  BY NoFrameType DEF NoFrame
<1>1. ASSUME UNCHANGED frame, pc'[c] \in {"user", "return"} PROVE FramesOK'
  <2>1. frame' = [frame EXCEPT ![c] = MyFrame]
    BY <1>0, <1>1 DEF MyFrame
  <2>2. /\ MyFrame.after # "return" => MyFrame.mutex \in Locks
        /\ MyFrame.after \in {"cv_sleep", "cv_woken"} => MyFrame.cond \in Cvs
    BY <1>0 DEF FramesOK, MyFrame
  <2> QED BY <1>0, <1>1, <2>1, <2>2, FrameStep
<1>2. CASE make \/ destroy \/ lock_destroy \/ free_lock
  BY <1>0, <1>1, <1>2 DEF make, destroy, lock_destroy, free_lock, schedVars, At
<1>3. CASE destroy_held \/ make_no_memory \/ free_again \/ assert_holder
  BY <1>0, <1>1, <1>3 DEF destroy_held, make_no_memory, free_again, assert_holder, Abort, Stop, syncVars, At
<1>4. CASE sleep_invalid
  BY <1>0, <1>1, <1>4 DEF sleep_invalid, syncVars, Enter, Goto
<1>5. CASE sleep_call
  <2> PICK k \in SyncCall("sleep") : k.object # None /\ SetFrame([NoFrame EXCEPT !.queue = k.object])
    BY <1>5 DEF sleep_call
  <2> DEFINE f == [NoFrame EXCEPT !.queue = k.object]
  <2>1. k.object \in Queues
    BY SyncArgument
  <2>2. f \in Frames /\ f.after = "return" /\ f.queue = k.object
    BY <1>a, <2>1 DEF NoFrame, Frames
  <2>3. pc'[c] = "sleep"
    BY <1>0, <1>5 DEF sleep_call, Enter, Goto
  <2> HIDE DEF f
  <2> QED BY <1>a, <1>0, <2>1, <2>2, <2>3, FrameStep DEF SetFrame, f
<1>6. CASE acquire_call
  <2> PICK k \in SyncCall("acquire") : SetFrame([NoFrame EXCEPT !.mutex = k.lock])
    BY <1>6 DEF acquire_call
  <2> DEFINE f == [NoFrame EXCEPT !.mutex = k.lock]
  <2>1. k.lock \in Locks
    BY SyncArgument
  <2>2. f \in Frames /\ f.after = "return" /\ f.mutex = k.lock
    BY <2>1 DEF NoFrame, Frames
  <2>3. pc'[c] = "acquire"
    BY <1>0, <1>6 DEF acquire_call, Enter, Goto
  <2> HIDE DEF f
  <2> QED BY <1>0, <2>1, <2>2, <2>3, FrameStep DEF SetFrame, f
<1>7. ASSUME NEW o \in Cvs \cup Queues, NEW all \in BOOLEAN, WakeCall(o, all, NoFrame) PROVE FramesOK'
  <2> DEFINE f == [NoFrame EXCEPT !.queue = o, !.all = all]
  <2>1. f \in Frames /\ f.after = "return" /\ f.queue = o
    BY <1>a DEF NoFrame, Frames
  <2>2. pc'[c] = "wakeup" /\ SetFrame(f)
    BY <1>0, <1>7 DEF WakeCall, Enter, Goto
  <2>3. o \notin Locks /\ o \in Objects
    BY <1>a
  <2> HIDE DEF f
  <2> QED BY <1>0, <2>1, <2>2, <2>3, FrameStep DEF SetFrame
<1>8. CASE wakeup_call
  <2> PICK all \in BOOLEAN : \E k \in SyncCall(IF all THEN "wakeup_all" ELSE "wakeup") :
         WakeCall(k.object, all, NoFrame)
    BY <1>8 DEF wakeup_call
  <2> PICK k \in SyncCall(IF all THEN "wakeup_all" ELSE "wakeup") : WakeCall(k.object, all, NoFrame)
    OBVIOUS
  <2>1. k.object \in Cvs \cup Queues
    BY SyncArgument
  <2> QED BY <1>7, <2>1
<1>9. CASE cv_signal
  <2> PICK k \in SyncCall("signal") : WakeCall(k.object, FALSE, NoFrame)
    BY <1>9 DEF cv_signal
  <2>1. k.object \in Cvs \cup Queues
    BY SyncArgument
  <2> QED BY <1>7, <2>1
<1>10. CASE cv_broadcast
  <2> PICK k \in SyncCall("broadcast") : WakeCall(k.object, TRUE, NoFrame)
    BY <1>10 DEF cv_broadcast
  <2>1. k.object \in Cvs \cup Queues
    BY SyncArgument
  <2> QED BY <1>7, <2>1
<1>11. ASSUME NEW l \in Locks, NEW g \in Frames, Release(l, g),
              g.after # "return" => g.mutex \in Locks,
              g.after \in {"cv_sleep", "cv_woken"} => g.cond \in Cvs
       PROVE  FramesOK'
  <2> DEFINE f == [g EXCEPT !.queue = l, !.all = TRUE]
  <2>1. f \in Frames /\ f.after = g.after /\ f.mutex = g.mutex /\ f.cond = g.cond /\ f.queue = l /\ f.all
    BY <1>a DEF Frames
  <2>2. pc'[c] = "wakeup" /\ SetFrame(f) /\ current'[l] = -1
    BY <1>0, <1>11 DEF Release, WakeCall, Enter, Goto
  <2> HIDE DEF f
  <2> QED BY <1>0, <1>a, <1>11, <2>1, <2>2, FrameStep DEF SetFrame
<1>12. CASE lock_release
  <2> PICK k \in SyncCall("release") : Release(k.lock, NoFrame)
    BY <1>12 DEF lock_release
  <2> QED BY <1>11, <1>b, SyncArgument
<1>13. CASE cv_wait
  <2> PICK k \in SyncCall("wait") :
         Release(k.lock, [NoFrame EXCEPT !.after = "cv_sleep", !.mutex = k.lock, !.cond = k.object])
    BY <1>13 DEF cv_wait
  <2> DEFINE g == [NoFrame EXCEPT !.after = "cv_sleep", !.mutex = k.lock, !.cond = k.object]
  <2>1. k.lock \in Locks /\ k.object \in Cvs
    BY SyncArgument
  <2>2. g \in Frames /\ g.mutex = k.lock /\ g.cond = k.object
    BY <2>1, NoFrameType DEF NoFrame, Frames
  <2>3. Release(k.lock, g)
    OBVIOUS
  <2> HIDE DEF g
  <2> QED BY <1>11, <2>1, <2>2, <2>3
<1> QED
  BY <1>2, <1>3, <1>4, <1>5, <1>6, <1>8, <1>9, <1>10, <1>12, <1>13 DEF SyncUser

LEMMA LibraryFrames == SyncTypeOK /\ ControlOK /\ FramesOK /\ SyncLibrary => FramesOK'
<1> SUFFICES ASSUME SyncTypeOK, ControlOK, FramesOK, SyncLibrary PROVE FramesOK'
  OBVIOUS
<1> DEFINE c == current_thread
<1>0. /\ OuterStep /\ c \in Tids /\ MyFrame \in Frames /\ pc \in [Tids -> Labels] /\ frame \in [Tids -> Frames]
      /\ current \in [Locks -> Tids \cup {-1}]
  BY CallStep DEF StepOK, SyncTypeOK, TypeOK, ObjectsOK, MyFrame
<1>a. Locks \subseteq Objects /\ Cvs \subseteq Objects /\ Locks \cap Cvs = {}
  BY SyncAssumption DEF Objects
<1>b. /\ MyFrame.after # "return" => MyFrame.mutex \in Locks
      /\ MyFrame.after \in {"cv_sleep", "cv_woken"} => MyFrame.cond \in Cvs
      /\ pc[c] \in {"sleep", "slept", "wakeup"} => MyFrame.queue \in Objects
      /\ pc[c] = "acquire" => MyFrame.mutex \in Locks
      /\ pc[c] \in {"cv_sleep", "cv_woken"} => MyFrame.after = pc[c]
      /\ pc[c] = "sleep" /\ MyFrame.queue \in Locks => current[MyFrame.queue] # -1
      /\ pc[c] = "wakeup" /\ MyFrame.queue \in Locks => MyFrame.all /\ current[MyFrame.queue] = -1
  BY <1>0 DEF FramesOK, MyFrame
<1>c. NoFrame \in Frames /\ NoFrame.after = "return"
  BY NoFrameType DEF NoFrame
(* The frame is kept. *)
<1>1. ASSUME UNCHANGED <<frame, current>>, pc'[c] \in {pc[c], "yield"},
             pc'[c] = "yield" => MyFrame.queue \in Objects
      PROVE  FramesOK'
  <2>1. frame' = [frame EXCEPT ![c] = MyFrame]
    BY <1>0, <1>1 DEF MyFrame
  <2>2. pc[c] # "yield"
    BY <1>0 DEF OuterStep, SyncLabels
  <2> QED BY <1>0, <1>b, <1>1, <2>1, <2>2, FrameStep
<1>2. CASE slept_assert \/ wake_assert \/ acquire_freed
  BY <1>1, <1>2 DEF slept_assert, wake_assert, acquire_freed, Abort, Stop, syncVars, At
<1>3. CASE wake_dead
  BY <1>1, <1>3 DEF wake_dead, schedVars, At
<1>4. CASE thread_sleep
  <2>1. pc'[c] = "yield" /\ pc[c] = "sleep"
    BY <1>0, <1>4 DEF thread_sleep, Goto, At
  <2> QED BY <1>1, <1>4, <1>b, <2>1 DEF thread_sleep
(* A call returns to the caller named by the frame. *)
<1>5. ASSUME CallReturns, UNCHANGED current PROVE FramesOK'
  <2>1. pc'[c] = MyFrame.after /\ MyFrame.after \in {"return", "acquire", "cv_sleep", "cv_woken"}
    BY <1>0, <1>5 DEF CallReturns, Goto, Frames
  <2>2. CASE MyFrame.after = "return"
    BY <1>0, <1>c, <1>5, <2>1, <2>2, FrameStep DEF CallReturns, SetFrame
  <2>3. CASE MyFrame.after # "return"
    BY <1>0, <1>b, <1>5, <2>1, <2>3, FrameStep DEF CallReturns, SetFrame
  <2> QED BY <2>2, <2>3
<1>6. CASE slept \/ wake_none
  BY <1>5, <1>6 DEF slept, wake_none, objects
<1>7. CASE slept_alone
  BY <1>5, <1>7 DEF slept_alone
<1>8. CASE wake
  <2>1. CASE MyFrame.all
    BY <1>1, <1>8, <2>1, <1>0 DEF wake, At
  <2>2. CASE ~ MyFrame.all
    BY <1>5, <1>8, <2>2 DEF wake
  <2> QED BY <2>1, <2>2
<1>9. CASE lock_acquire
  <2>1. pc'[c] = "return" /\ frame' = [frame EXCEPT ![c] = NoFrame]
    BY <1>0, <1>9 DEF lock_acquire, Goto, SetFrame
  <2> QED BY <1>0, <1>c, <2>1, FrameStep
<1>10. CASE acquire_wait
  <2> DEFINE f == [MyFrame EXCEPT !.queue = MyFrame.mutex, !.after = "acquire"]
  <2>1. /\ pc'[c] = "sleep" /\ pc[c] = "acquire" /\ current' = current
        /\ current[MyFrame.mutex] # -1 /\ SetFrame(f)
    BY <1>0, <1>10 DEF acquire_wait, Goto, At, objects
  <2>2. f \in Frames /\ f.after = "acquire" /\ f.queue = MyFrame.mutex /\ f.mutex = MyFrame.mutex
    BY <1>0, <1>a, <1>b, <2>1 DEF Frames
  <2> HIDE DEF f
  <2> QED BY <1>0, <1>a, <1>b, <2>1, <2>2, FrameStep DEF SetFrame
<1>11. CASE cv_sleep
  <2> DEFINE f == [MyFrame EXCEPT !.queue = MyFrame.cond, !.after = "cv_woken"]
  <2>1. pc'[c] = "sleep" /\ pc[c] = "cv_sleep" /\ SetFrame(f)
    BY <1>0, <1>11 DEF cv_sleep, Goto, At
  <2>2. MyFrame.cond \in Cvs /\ MyFrame.mutex \in Locks
    BY <1>b, <2>1
  <2>3. /\ f \in Frames /\ f.after = "cv_woken" /\ f.queue = MyFrame.cond
        /\ f.mutex = MyFrame.mutex /\ f.cond = MyFrame.cond
    BY <1>0, <1>a, <2>2 DEF Frames
  <2>4. MyFrame.cond \notin Locks /\ MyFrame.cond \in Objects
    BY <1>a, <2>2
  <2> HIDE DEF f
  <2> QED BY <1>0, <2>1, <2>2, <2>3, <2>4, FrameStep DEF SetFrame
<1>12. CASE cv_woken
  <2> DEFINE f == [NoFrame EXCEPT !.mutex = MyFrame.mutex]
  <2>1. pc'[c] = "acquire" /\ pc[c] = "cv_woken" /\ SetFrame(f)
    BY <1>0, <1>12 DEF cv_woken, Goto, At
  <2>2. MyFrame.mutex \in Locks
    BY <1>b, <2>1
  <2>3. f \in Frames /\ f.after = "return" /\ f.mutex = MyFrame.mutex
    BY <2>2 DEF NoFrame, Frames
  <2> HIDE DEF f
  <2> QED BY <1>0, <2>1, <2>2, <2>3, FrameStep DEF SetFrame
<1> QED
  BY <1>2, <1>3, <1>4, <1>6, <1>7, <1>8, <1>9, <1>10, <1>11, <1>12 DEF SyncLibrary

(* The calls, their locals and the objects keep their types, and control   *)
(* passes between threads as Scheduler alone has it: the synchronisation   *)
(* calls give up the processor in thread_sleep only.                       *)
SyncInv == SyncTypeOK /\ ControlOK /\ FramesOK

LEMMA InitSync == SyncInit => SyncInv
<1> SUFFICES ASSUME SyncInit PROVE SyncInv
  OBVIOUS
<1>1. TypeOK /\ ControlOK
  BY InitType, InitControl DEF SyncInit
<1>2. back \in [Tids -> OwnReturns \cup {"slept"}]
  BY DEF SyncInit, Init, OwnReturns
<1>3. ObjectsOK
  BY NoFrameType, SchedulerAssumption DEF SyncInit, ObjectsOK
<1>4. FramesOK
  BY SchedulerAssumption DEF SyncInit, Init, FramesOK, NoFrame, MyFrame, Tids
<1> QED BY <1>1, <1>2, <1>3, <1>4 DEF SyncInv, SyncTypeOK

LEMMA StepSync == SyncInv /\ [SyncNext]_allVars => SyncInv'
<1> SUFFICES ASSUME SyncInv, [SyncNext]_allVars PROVE SyncInv'
  OBVIOUS
<1>1. CASE Alone
  BY <1>1, AloneStep, AloneFrames DEF SyncInv
<1>2. CASE SyncLibrary \/ SyncUser
  BY <1>2, CallStep, LibraryFrames, UserFrames DEF SyncInv
<1>3. CASE UNCHANGED allVars
  <2>1. UNCHANGED <<schedVars, wq, current, life, destroying, frame, inside>>
    BY <1>3 DEF allVars, syncVars
  <2>2. ControlOK'
    BY <2>1, StepDispatch, StepWaiter, StepControl DEF SyncInv, SyncTypeOK, ControlOK
  <2>3. TypeOK'
    BY <2>1, StepType DEF SyncInv, SyncTypeOK, ControlOK
  <2> QED BY <2>1, <2>2, <2>3 DEF SyncInv, SyncTypeOK, ObjectsOK, FramesOK, MyFrame, schedVars
<1> QED BY <1>1, <1>2, <1>3 DEF SyncNext

(* In every program, disciplined or not, the calls keep the types of the   *)
(* whole state, and no wait queue grows beyond its array.                  *)
THEOREM SyncTypeCorrect == SyncSpec => []SyncTypeOK
<1>1. SyncInv => SyncTypeOK
  BY DEF SyncInv
<1> QED BY <1>1, InitSync, StepSync, PTL DEF SyncSpec

(* The locals of a call name objects of the right kind whenever they are   *)
(* used, however often the thread was switched out in between; lock_acquire*)
(* goes to sleep only while the lock is taken, and lock_release wakes all  *)
(* the threads that wait for it while it is free.                          *)
THEOREM FramesCorrect == SyncSpec => []FramesOK
<1>1. SyncInv => FramesOK
  BY DEF SyncInv
<1> QED BY <1>1, InitSync, StepSync, PTL DEF SyncSpec

LEMMA SyncInvAlways == SyncSpec => []SyncInv
  BY InitSync, StepSync, PTL DEF SyncSpec

------------------------------------------------------------------------------
(* lock_acquire takes a lock only when nobody holds it, and nobody else    *)
(* can give it up.                                                         *)
LEMMA StepExclusion == SyncInv /\ MutualExclusion /\ [SyncNext]_allVars => MutualExclusion'
<1> SUFFICES ASSUME SyncInv, MutualExclusion, [SyncNext]_allVars PROVE MutualExclusion'
  OBVIOUS
<1>0. /\ current \in [Locks -> Tids \cup {-1}] /\ inside \in [Locks -> SUBSET Tids]
      /\ current_thread \in Tids
  BY DEF SyncInv, SyncTypeOK, TypeOK, ObjectsOK
<1>1. ASSUME UNCHANGED <<current, inside>> PROVE MutualExclusion'
  BY <1>1 DEF MutualExclusion
<1>2. CASE Alone
  BY <1>2 DEF Alone, MutualExclusion
<1>3. CASE make \/ destroy \/ lock_destroy \/ free_lock \/ sleep_invalid \/ sleep_call \/ wakeup_call
           \/ acquire_call \/ cv_signal \/ cv_broadcast
  BY <1>1, <1>3 DEF make, destroy, lock_destroy, free_lock, sleep_invalid, sleep_call, wakeup_call,
     acquire_call, cv_signal, cv_broadcast, syncVars, objects
<1>4. CASE \/ destroy_held \/ make_no_memory \/ free_again \/ assert_holder \/ slept_assert
           \/ wake_assert \/ acquire_freed
  BY <1>1, <1>4 DEF destroy_held, make_no_memory, free_again, assert_holder, slept_assert,
                    wake_assert, acquire_freed, Abort, syncVars
<1>5. CASE thread_sleep \/ slept \/ slept_alone \/ wake \/ wake_dead \/ wake_none
           \/ acquire_wait \/ cv_sleep \/ cv_woken
  BY <1>1, <1>5 DEF thread_sleep, slept, slept_alone, wake, wake_dead, wake_none, acquire_wait,
     cv_sleep, cv_woken, objects
<1>6. CASE lock_acquire
  <2>1. MyFrame.mutex \in Locks
    BY <1>6 DEF lock_acquire, At, SyncInv, FramesOK
  <2>2. inside[MyFrame.mutex] = {}
    BY <1>0, <1>6, <2>1, SchedulerAssumption DEF lock_acquire, MutualExclusion, Tids
  <2> QED BY <1>0, <1>6, <2>1, <2>2 DEF lock_acquire, MutualExclusion
<1>7. ASSUME NEW l \in Locks, NEW f, Release(l, f) PROVE MutualExclusion'
  BY <1>0, <1>7 DEF Release, MutualExclusion
<1>8. CASE lock_release \/ cv_wait
  BY <1>7, <1>8, SyncArgument DEF lock_release, cv_wait
<1>9. CASE UNCHANGED allVars
  BY <1>1, <1>9 DEF allVars, syncVars
<1> QED
  BY <1>2, <1>3, <1>4, <1>5, <1>6, <1>8, <1>9 DEF SyncNext, SyncLibrary, SyncUser

(* Locks exclude: at most one thread is between lock_acquire, or the end   *)
(* of cv_wait, and lock_release or the next cv_wait, in every program.     *)
THEOREM LocksExclude == SyncSpec => []MutualExclusion
<1>1. SyncInit => MutualExclusion
  BY DEF SyncInit, MutualExclusion
<1> QED BY <1>1, SyncInvAlways, StepExclusion, PTL DEF SyncSpec

------------------------------------------------------------------------------
(* A step that puts nobody to sleep, and takes no sleeper out of a queue.  *)
LEMMA KeepsSleepers ==
  ASSUME SleeperQueued, overflowed => overflowed',
         \A o \in Objects, t \in Tids :
           AsleepOn(t, o)' => AsleepOn(t, o) /\ (In(wq[o], t) => In(wq'[o], t))
  PROVE  SleeperQueued'
  BY DEF SleeperQueued, In

(* The running thread stays on the processor and does not go to sleep: no  *)
(* other thread falls asleep.                                              *)
LEMMA AwakeStep ==
  ASSUME SyncInv, OuterStep, pc'[current_thread] # "yield",
         \A t \in Tids : frame'[t] # frame[t] => t = current_thread,
         NEW t \in Tids, NEW o, state'[t] = "Sleep" => state[t] = "Sleep", AsleepOn(t, o)'
  PROVE  AsleepOn(t, o) /\ t # current_thread
<1>0. pc \in [Tids -> Labels] /\ back \in [Tids -> ReturnLabels] /\ current_thread \in Tids
  BY DEF SyncInv, SyncTypeOK, TypeOK
<1>1. pc'[current_thread] \notin {"yield", "resumed"}
  BY DEF OuterStep, SyncLabels
<1>2. t # current_thread
  BY <1>1 DEF AsleepOn
<1>3. pc'[t] = pc[t] /\ back'[t] = back[t] /\ frame'[t] = frame[t]
  BY <1>0, <1>2 DEF OuterStep
<1> QED BY <1>2, <1>3 DEF AsleepOn

LEMMA StepQueued == SyncInv /\ SleeperQueued /\ [SyncNext]_allVars => SleeperQueued'
<1> SUFFICES ASSUME SyncInv, SleeperQueued, [SyncNext]_allVars PROVE SleeperQueued'
  OBVIOUS
<1> DEFINE c == current_thread
<1>0. /\ SyncTypeOK /\ ControlOK /\ FramesOK /\ ObjectsOK /\ c \in Tids /\ pc \in [Tids -> Labels]
      /\ frame \in [Tids -> Frames] /\ state \in [Tids -> {"Destroyed", "Running", "Sleep"}]
  BY DEF SyncInv, SyncTypeOK, TypeOK, ObjectsOK
<1>1. CASE Alone
  <2>1. [Next]_schedVars /\ UNCHANGED <<wq, frame>>
    BY <1>1 DEF Alone
  <2>2. /\ overflowed => overflowed'
        /\ \A t \in Tids : InSleep(t)' => InSleep(t) /\ (state'[t] = "Sleep" => state[t] = "Sleep")
    BY <1>0, <2>1, AloneSleepers
  <2> QED BY <2>1, <2>2, KeepsSleepers DEF AsleepOn, InSleep
<1>2. ASSUME UNCHANGED <<wq, state>>, overflowed => overflowed', OuterStep, pc'[c] # "yield",
             UNCHANGED frame \/ \E f : SetFrame(f)
      PROVE  SleeperQueued'
  <2>1. \A t \in Tids : frame'[t] # frame[t] => t = c
    BY <1>0, <1>2 DEF SetFrame
  <2> QED BY <1>0, <1>2, <2>1, AwakeStep, KeepsSleepers
<1>3. CASE SyncUser
  <2>1. OuterStep /\ pc[c] = "user" /\ pc'[c] # "yield"
    <3>1. OuterStep
      BY <1>0, <1>3, CallStep DEF StepOK
    <3>2. pc[c] = "user" /\ (UNCHANGED pc \/ \E l \in {"return", "sleep", "wakeup", "acquire"} : Enter(l))
      BY <1>3 DEF SyncUser, make, destroy, lock_destroy, free_lock, make_no_memory, free_again,
                  destroy_held, sleep_invalid, sleep_call, wakeup_call,
         acquire_call, lock_release, assert_holder, cv_wait, cv_signal, cv_broadcast, Release, WakeCall,
         At, Abort, Stop, schedVars
    <3> QED BY <1>0, <3>1, <3>2 DEF Enter, Goto
  <2>2. UNCHANGED <<wq, state, overflowed>>
    BY <1>3 DEF SyncUser, make, destroy, lock_destroy, free_lock, make_no_memory, free_again,
                destroy_held, sleep_invalid, sleep_call, wakeup_call,
       acquire_call, lock_release, assert_holder, cv_wait, cv_signal, cv_broadcast, Release, WakeCall,
       Abort, Stop, schedVars, syncVars, objects, table, history
  <2>3. UNCHANGED frame \/ \E f : SetFrame(f)
    BY <1>3 DEF SyncUser, make, destroy, lock_destroy, free_lock, make_no_memory, free_again,
                destroy_held, sleep_invalid, sleep_call, wakeup_call,
       acquire_call, lock_release, assert_holder, cv_wait, cv_signal, cv_broadcast, Release, WakeCall,
       Abort, syncVars
  <2> QED BY <1>2, <2>1, <2>2, <2>3
<1>4. CASE slept_assert \/ wake_assert \/ acquire_freed
  <2>1. UNCHANGED <<state, back, pc, frame, wq, overflowed>>
    BY <1>4 DEF slept_assert, wake_assert, acquire_freed, Abort, Stop, syncVars, table, locals, history
  <2> QED BY <2>1, KeepsSleepers DEF AsleepOn
<1>5. ASSUME SyncLibrary PROVE OuterStep
  BY <1>0, <1>5, CallStep DEF StepOK
<1>6. CASE lock_acquire \/ acquire_wait \/ cv_sleep \/ cv_woken
  <2>1. /\ OuterStep /\ UNCHANGED <<wq, state, overflowed>> /\ \E f : SetFrame(f)
        /\ \E l \in {"return", "sleep", "acquire"} : Goto(l)
    BY <1>5, <1>6 DEF SyncLibrary, lock_acquire, acquire_wait, cv_sleep, cv_woken, objects
  <2> QED BY <1>0, <1>2, <2>1 DEF Goto
<1>7. CASE slept \/ wake_none
  <2>1. OuterStep /\ CallReturns /\ UNCHANGED <<wq, state, overflowed>>
    BY <1>5, <1>7 DEF SyncLibrary, slept, wake_none, objects
  <2>2. pc'[c] # "yield" /\ \E f : SetFrame(f)
    BY <1>0, <2>1, CallReturnsStep DEF CallReturns, Goto, SyncLabels
  <2> QED BY <1>2, <2>1, <2>2
<1>8. pc[c] \in {"sleep", "slept", "wakeup"} =>
        MyFrame.queue \in Objects /\ MyQueue \in Seq(Tids) /\ Len(MyQueue) <= QCap
  BY <1>0 DEF FramesOK, ObjectsOK, MyQueue
<1>9. CASE wake_dead
  <2>1. /\ MyQueue # <<>> /\ wq' = [wq EXCEPT ![MyFrame.queue] = Tail(MyQueue)]
        /\ state[Head(MyQueue)] = "Destroyed" /\ UNCHANGED <<state, back, pc, frame, overflowed>>
        /\ pc[c] = "wakeup"
    BY <1>9 DEF wake_dead, At, MyQueue, schedVars
  <2>2. ASSUME NEW o \in Objects, NEW t \in Tids, AsleepOn(t, o)'
        PROVE  AsleepOn(t, o) /\ (In(wq[o], t) => In(wq'[o], t))
    <3>1. AsleepOn(t, o) /\ t # Head(MyQueue)
      BY <2>1, <2>2 DEF AsleepOn
    <3> QED BY <1>0, <1>8, <2>1, <3>1, TailEntries DEF ObjectsOK, MyQueue
  <2> QED BY <2>1, <2>2, KeepsSleepers
<1>10. CASE wake
  <2>1. /\ MyQueue # <<>> /\ wq' = [wq EXCEPT ![MyFrame.queue] = Tail(MyQueue)]
        /\ state' = [state EXCEPT ![Head(MyQueue)] = "Running"] /\ (overflowed => overflowed')
        /\ pc[c] = "wakeup" /\ UNCHANGED back
    BY <1>10 DEF wake, At, MyQueue, Overflows
  <2>2. OuterStep /\ pc'[c] # "yield" /\ (UNCHANGED frame \/ \E f : SetFrame(f))
    <3>1. UNCHANGED <<pc, frame>> \/ CallReturns
      BY <1>10 DEF wake
    <3> QED BY <1>0, <1>5, <1>10, <2>1, <3>1, CallReturnsStep DEF SyncLibrary, CallReturns, Goto, SyncLabels
  <2>3. Head(MyQueue) \in Tids
    BY <1>8, <2>1, TailEntries
  <2>4. ASSUME NEW o \in Objects, NEW t \in Tids, AsleepOn(t, o)'
        PROVE  AsleepOn(t, o) /\ (In(wq[o], t) => In(wq'[o], t))
    <3>1. t # Head(MyQueue) /\ (state'[t] = "Sleep" => state[t] = "Sleep")
      BY <1>0, <2>1, <2>3, <2>4 DEF AsleepOn
    <3>2. \A u \in Tids : frame'[u] # frame[u] => u = c
      BY <1>0, <2>2 DEF SetFrame
    <3>3. AsleepOn(t, o)
      BY <2>2, <2>4, <3>1, <3>2, AwakeStep
    <3> QED BY <1>0, <1>8, <2>1, <3>1, <3>3, TailEntries DEF ObjectsOK, MyQueue
  <2> QED BY <2>1, <2>4, KeepsSleepers
<1>11. CASE slept_alone
  <2> DEFINE n == Len(MyQueue) - 1
  <2>1. /\ MyQueue # <<>> /\ wq' = [wq EXCEPT ![MyFrame.queue] = SubSeq(MyQueue, 1, n)]
        /\ MyQueue[Len(MyQueue)] = c /\ state' = [state EXCEPT ![c] = "Running"]
        /\ UNCHANGED overflowed /\ pc[c] = "slept" /\ CallReturns
    BY <1>11 DEF slept_alone, At, MyQueue
  <2>2. OuterStep /\ pc'[c] # "yield" /\ \E f : SetFrame(f)
    BY <1>0, <1>5, <1>11, <2>1, CallReturnsStep DEF SyncLibrary, CallReturns, Goto, SyncLabels
  <2>3. /\ SubSeq(MyQueue, 1, n) \in Seq(Tids)
        /\ \A t : In(MyQueue, t) /\ t # c => In(SubSeq(MyQueue, 1, n), t)
    BY <1>8, <2>1, FrontEntries
  <2>4. ASSUME NEW o \in Objects, NEW t \in Tids, AsleepOn(t, o)'
        PROVE  AsleepOn(t, o) /\ (In(wq[o], t) => In(wq'[o], t))
    <3>1. \A u \in Tids : frame'[u] # frame[u] => u = c
      BY <1>0, <2>2 DEF SetFrame
    <3>2. state'[t] = "Sleep" => state[t] = "Sleep"
      BY <1>0, <2>1
    <3>3. AsleepOn(t, o) /\ t # c
      BY <2>2, <2>4, <3>1, <3>2, AwakeStep
    <3> HIDE DEF n
    <3> QED BY <1>0, <1>8, <2>1, <2>3, <3>3 DEF ObjectsOK, MyQueue
  <2> QED BY <2>1, <2>4, KeepsSleepers
(* The caller of thread_sleep finds room in the queue, or the queue is     *)
(* full; the other sleepers keep their entries.                            *)
<1>12. CASE thread_sleep
  <2>1. /\ wq' = [wq EXCEPT ![MyFrame.queue] = Pushed(MyQueue, c)] /\ overflowed' = Overflows(MyQueue)
        /\ state' = [state EXCEPT ![c] = "Sleep"] /\ UNCHANGED frame /\ pc[c] = "sleep"
    BY <1>12 DEF thread_sleep, At, MyQueue
  <2>2. OuterStep
    BY <1>5, <1>12 DEF SyncLibrary
  <2>3. MyFrame.queue \in Objects /\ MyQueue \in Seq(Tids)
    BY <1>8, <2>1
  <2> SUFFICES ASSUME NEW o \in Objects, NEW t \in Tids, AsleepOn(t, o)', ~ overflowed'
               PROVE  In(wq'[o], t)
    BY DEF SleeperQueued, In
  <2>4. ~ overflowed /\ Len(MyQueue) # QCap
    BY <2>1 DEF Overflows
  <2>5. CASE t = c
    <3>1. o = MyFrame.queue
      BY <2>1, <2>2, <2>5 DEF AsleepOn, MyFrame
    <3>2. In(Pushed(MyQueue, c), c)
      <4>1. Pushed(MyQueue, c) = Append(MyQueue, c)
        BY <2>4 DEF Pushed
      <4>2. Len(Append(MyQueue, c)) \in 1 .. Len(Append(MyQueue, c))
            /\ Append(MyQueue, c)[Len(Append(MyQueue, c))] = c
        BY <1>0, <2>3
      <4> QED BY <4>1, <4>2 DEF In
    <3> QED BY <1>0, <2>1, <2>3, <2>5, <3>1, <3>2 DEF ObjectsOK
  <2>6. CASE t # c
    <3>1. pc'[t] = pc[t] /\ back'[t] = back[t] /\ state'[t] = state[t]
      BY <1>0, <2>1, <2>2, <2>6 DEF OuterStep, SyncTypeOK, TypeOK
    <3>2. In(wq[o], t)
      BY <2>1, <2>4, <3>1 DEF AsleepOn, SleeperQueued, In
    <3>3. In(MyQueue, t) => In(Pushed(MyQueue, c), t)
      BY <1>0, <2>3, PushedMembers DEF In
    <3> QED BY <1>0, <2>1, <2>3, <3>2, <3>3 DEF ObjectsOK, MyQueue
  <2> QED BY <2>5, <2>6
<1>13. CASE UNCHANGED allVars
  <2>1. UNCHANGED <<state, back, pc, frame, wq, overflowed>>
    BY <1>13 DEF allVars, schedVars, syncVars
  <2> QED BY <2>1, KeepsSleepers DEF AsleepOn
<1> QED
  BY <1>1, <1>3, <1>4, <1>6, <1>7, <1>9, <1>10, <1>11, <1>12, <1>13 DEF SyncNext, SyncLibrary

(* A thread that sleeps in a wait queue can be found there: there is no    *)
(* moment between giving up a lock and joining a queue, or between joining *)
(* a queue and sleeping, at which a wakeup could miss it.                  *)
THEOREM SleepersAreQueued == SyncSpec => []SleeperQueued
<1>1. SyncInit => SleeperQueued
  BY DEF SyncInit, Init, SleeperQueued, AsleepOn
<1> QED BY <1>1, SyncInvAlways, StepQueued, PTL DEF SyncSpec

------------------------------------------------------------------------------
(* While the process runs, a step of Sync leaves no thread asleep for a    *)
(* lock that it gives up, because a release wakes all before any other     *)
(* thread runs, and none falls asleep for a lock that is free.             *)
WakingThe(l) == pc[current_thread] = "wakeup" /\ MyFrame.queue = l /\ MyFrame.all

LEMMA StepRelease ==
  SyncInv /\ SleeperQueued /\ NoLostRelease /\ [SyncNext]_allVars => NoLostRelease'
<1> SUFFICES ASSUME SyncInv, SleeperQueued, NoLostRelease, [SyncNext]_allVars,
                    NEW l \in Locks, NEW t \in Tids,
                    AsleepOn(t, l)', status' = "running", ~ overflowed'
             PROVE  current'[l] # -1 \/ WakingThe(l)'
  BY DEF NoLostRelease, WakingThe
<1> DEFINE c == current_thread
<1>0. /\ SyncTypeOK /\ ControlOK /\ FramesOK /\ ObjectsOK /\ c \in Tids /\ pc \in [Tids -> Labels]
      /\ frame \in [Tids -> Frames] /\ state \in [Tids -> {"Destroyed", "Running", "Sleep"}]
      /\ current \in [Locks -> Tids \cup {-1}] /\ back \in [Tids -> ReturnLabels]
      /\ l \in Objects /\ MyFrame \in Frames
  BY DEF SyncInv, SyncTypeOK, TypeOK, ObjectsOK, Objects, MyFrame
<1>1. ASSUME AsleepOn(t, l), ~ overflowed, status = "running" PROVE current[l] # -1 \/ WakingThe(l)
  BY <1>1 DEF NoLostRelease, WakingThe
<1>2. CASE Alone
  <2>1. Next /\ [Next]_schedVars /\ UNCHANGED <<current, frame>>
    BY <1>2 DEF Alone
  <2>2. /\ ~ overflowed /\ status = "running" /\ InSleep(t) /\ state[t] = "Sleep"
    BY <1>0, <2>1, AloneSleepers DEF AsleepOn, InSleep
  <2>3. AsleepOn(t, l)
    BY <2>1, <2>2 DEF AsleepOn, InSleep
  <2>4. ~ WakingThe(l)
    BY <1>0, <2>1, <2>2, AloneLabels DEF WakingThe, SyncLabels
  <2> QED BY <1>1, <2>1, <2>2, <2>3, <2>4
<1>3. ASSUME SyncUser \/ SyncLibrary PROVE OuterStep /\ status = "running"
  BY <1>0, <1>3, CallStep DEF StepOK, OuterStep
(* The running thread does not go to sleep: who sleeps has slept before.   *)
<1>4. ASSUME OuterStep, pc'[c] # "yield", state'[t] = "Sleep" => state[t] = "Sleep",
             UNCHANGED frame \/ \E f : SetFrame(f), overflowed => overflowed'
      PROVE  AsleepOn(t, l) /\ (current[l] # -1 \/ WakingThe(l))
  <2>1. \A u \in Tids : frame'[u] # frame[u] => u = c
    BY <1>0, <1>4 DEF SetFrame
  <2>2. AsleepOn(t, l) /\ status = "running"
    BY <1>4, <2>1, AwakeStep DEF OuterStep
  <2> QED BY <1>1, <1>4, <2>2
(* It gives up no lock, and is in no wakeup.                               *)
<1>5. ASSUME OuterStep, pc[c] # "wakeup", pc'[c] # "yield", UNCHANGED <<state, overflowed>>,
             UNCHANGED frame \/ \E f : SetFrame(f),
             current[l] # -1 => current'[l] # -1
      PROVE  current'[l] # -1
  BY <1>4, <1>5 DEF WakingThe
<1>6. CASE make \/ destroy \/ lock_destroy \/ free_lock
  <2>1. pc[c] = "user" /\ pc'[c] = "user" /\ UNCHANGED <<state, overflowed, frame, current>>
    BY <1>6 DEF make, destroy, lock_destroy, free_lock, schedVars, At
  <2> QED BY <1>3, <1>5, <1>6, <2>1 DEF SyncUser
<1>7. CASE \/ destroy_held \/ make_no_memory \/ free_again \/ assert_holder \/ slept_assert
           \/ wake_assert \/ acquire_freed
  BY <1>7 DEF destroy_held, make_no_memory, free_again, assert_holder, slept_assert, wake_assert,
              acquire_freed, Abort, Stop
<1>8. CASE sleep_invalid \/ sleep_call \/ acquire_call \/ wakeup_call \/ cv_signal \/ cv_broadcast
  <2>1. pc[c] = "user" /\ UNCHANGED <<state, overflowed, current>>
    BY <1>8 DEF sleep_invalid, sleep_call, acquire_call, wakeup_call, cv_signal, cv_broadcast, WakeCall,
       At, syncVars, objects
  <2>2. (UNCHANGED frame \/ \E f : SetFrame(f)) /\ \E x \in {"return", "sleep", "acquire", "wakeup"} : Enter(x)
    BY <1>8 DEF sleep_invalid, sleep_call, acquire_call, wakeup_call, cv_signal, cv_broadcast, WakeCall,
       syncVars
  <2>3. pc'[c] # "yield"
    BY <1>0, <2>2 DEF Enter, Goto
  <2> QED BY <1>3, <1>5, <1>8, <2>1, <2>2, <2>3 DEF SyncUser
<1>9. ASSUME NEW k \in Locks, NEW f \in Frames, Release(k, f), At("user"), SyncUser
      PROVE  current'[l] # -1 \/ WakingThe(l)'
  <2>1. pc[c] = "user" /\ pc'[c] = "wakeup" /\ UNCHANGED <<state, overflowed, current_thread>>
        /\ current' = [current EXCEPT ![k] = -1]
        /\ frame' = [frame EXCEPT ![c] = [f EXCEPT !.queue = k, !.all = TRUE]]
    BY <1>0, <1>9 DEF Release, WakeCall, Enter, Goto, At, SetFrame, others
  <2>2. frame'[c].queue = k /\ frame'[c].all
    BY <1>0, <2>1 DEF Frames
  <2>3. CASE l = k
    BY <2>1, <2>2, <2>3 DEF WakingThe, MyFrame
  <2>4. CASE l # k
    BY <1>0, <1>3, <1>5, <1>9, <2>1, <2>4 DEF SetFrame
  <2> QED BY <2>3, <2>4
<1>10. CASE lock_release
  BY <1>9, <1>10, SyncArgument, NoFrameType DEF lock_release, SyncUser
<1>11. CASE cv_wait
  <2> PICK k \in SyncCall("wait") :
         Release(k.lock, [NoFrame EXCEPT !.after = "cv_sleep", !.mutex = k.lock, !.cond = k.object])
    BY <1>11 DEF cv_wait
  <2>1. [NoFrame EXCEPT !.after = "cv_sleep", !.mutex = k.lock, !.cond = k.object] \in Frames
    BY SyncArgument, NoFrameType DEF Frames
  <2> QED BY <1>9, <1>11, <2>1, SyncArgument DEF cv_wait, SyncUser
<1>12. CASE lock_acquire
  <2>1. /\ OuterStep /\ UNCHANGED <<state, overflowed>> /\ SetFrame(NoFrame) /\ pc[c] = "acquire"
        /\ Goto("return") /\ current' = [current EXCEPT ![MyFrame.mutex] = c]
    BY <1>3, <1>12 DEF SyncLibrary, lock_acquire, At
  <2>2. current[l] # -1 => current'[l] # -1
    BY <1>0, <2>1, SchedulerAssumption DEF Tids
  <2> QED BY <1>0, <1>5, <2>1, <2>2 DEF Goto
<1>13. CASE acquire_wait \/ cv_sleep \/ cv_woken
  <2>1. /\ OuterStep /\ UNCHANGED <<state, overflowed, current>> /\ \E f : SetFrame(f)
        /\ pc[c] # "wakeup" /\ \E x \in {"sleep", "acquire"} : Goto(x)
    BY <1>3, <1>13 DEF SyncLibrary, acquire_wait, cv_sleep, cv_woken, At, objects
  <2> QED BY <1>0, <1>5, <2>1 DEF Goto
<1>14. CASE slept
  <2>1. OuterStep /\ UNCHANGED <<state, overflowed, current>> /\ pc[c] = "slept" /\ CallReturns
    BY <1>3, <1>14 DEF SyncLibrary, slept, At, objects
  <2>2. pc'[c] # "yield" /\ \E f : SetFrame(f)
    BY <1>0, <2>1, CallReturnsStep DEF CallReturns, Goto, SyncLabels
  <2> QED BY <1>5, <2>1, <2>2
<1>15. CASE slept_alone
  <2>1. /\ OuterStep /\ state' = [state EXCEPT ![c] = "Running"] /\ UNCHANGED <<overflowed, current>>
        /\ pc[c] = "slept" /\ CallReturns
    BY <1>3, <1>15 DEF SyncLibrary, slept_alone, At
  <2>2. pc'[c] # "yield" /\ \E f : SetFrame(f)
    BY <1>0, <2>1, CallReturnsStep DEF CallReturns, Goto, SyncLabels
  <2>3. state'[t] = "Sleep" => state[t] = "Sleep"
    BY <1>0, <2>1
  <2> QED BY <1>4, <2>1, <2>2, <2>3 DEF WakingThe
(* A wakeup of all goes on until the queue is empty.                       *)
<1>16. CASE wake_none
  <2>1. OuterStep /\ UNCHANGED <<state, overflowed, current>> /\ CallReturns /\ MyQueue = <<>>
    BY <1>3, <1>16 DEF SyncLibrary, wake_none, objects
  <2>2. pc'[c] # "yield" /\ \E f : SetFrame(f)
    BY <1>0, <2>1, CallReturnsStep DEF CallReturns, Goto, SyncLabels
  <2>3. AsleepOn(t, l) /\ (current[l] # -1 \/ WakingThe(l))
    BY <1>4, <2>1, <2>2
  <2>4. In(wq[l], t)
    BY <1>0, <2>1, <2>3 DEF SleeperQueued, In
  <2>5. ~ WakingThe(l)
    BY <2>1, <2>4 DEF WakingThe, MyQueue, In
  <2> QED BY <2>1, <2>3, <2>5
<1>17. CASE wake_dead
  <2>1. UNCHANGED <<status, state, back, pc, frame, overflowed, current_thread, current>>
    BY <1>17 DEF wake_dead, schedVars
  <2> QED BY <1>1, <2>1 DEF AsleepOn, WakingThe, MyFrame
<1>18. CASE wake
  <2>1. /\ OuterStep /\ state' = [state EXCEPT ![Head(MyQueue)] = "Running"] /\ (overflowed => overflowed')
        /\ UNCHANGED current /\ pc[c] = "wakeup" /\ current_thread' = c
    BY <1>3, <1>18 DEF SyncLibrary, wake, At, Overflows, others
  <2>2. pc'[c] # "yield" /\ (UNCHANGED frame \/ \E f : SetFrame(f))
    <3>1. UNCHANGED <<pc, frame>> \/ CallReturns
      BY <1>18 DEF wake
    <3> QED BY <1>0, <2>1, <3>1, CallReturnsStep DEF CallReturns, Goto, SyncLabels
  <2>3. state'[t] = "Sleep" => state[t] = "Sleep"
    BY <1>0, <2>1
  <2>4. current[l] # -1 \/ WakingThe(l)
    BY <1>4, <2>1, <2>2, <2>3
  <2>5. WakingThe(l) => UNCHANGED <<pc, frame>>
    BY <1>18 DEF wake, WakingThe
  <2> QED BY <2>1, <2>4, <2>5 DEF WakingThe, MyFrame
<1>19. CASE thread_sleep
  <2>1. /\ OuterStep /\ pc[c] = "sleep" /\ UNCHANGED <<frame, current>> /\ (overflowed => overflowed')
        /\ state' = [state EXCEPT ![c] = "Sleep"]
    BY <1>3, <1>19 DEF SyncLibrary, thread_sleep, At, Overflows
  <2>2. CASE t = c
    <3>1. MyFrame.queue = l
      BY <2>1, <2>2 DEF AsleepOn, MyFrame
    <3> QED BY <1>0, <2>1, <3>1 DEF FramesOK
  <2>3. CASE t # c
    <3>1. pc'[t] = pc[t] /\ back'[t] = back[t] /\ state'[t] = state[t] /\ status = "running"
      BY <1>0, <2>1, <2>3 DEF OuterStep
    <3>2. AsleepOn(t, l)
      BY <2>1, <3>1 DEF AsleepOn
    <3> QED BY <1>1, <2>1, <3>1, <3>2 DEF WakingThe
  <2> QED BY <2>2, <2>3
<1>20. CASE UNCHANGED allVars
  <2>1. UNCHANGED <<status, state, back, pc, frame, overflowed, current_thread, current>>
    BY <1>20 DEF allVars, schedVars, syncVars
  <2> QED BY <1>1, <2>1 DEF AsleepOn, WakingThe, MyFrame
<1> QED
  BY <1>2, <1>6, <1>7, <1>8, <1>10, <1>11, <1>12, <1>13, <1>14, <1>15, <1>16, <1>17, <1>18, <1>19, <1>20
     DEF SyncNext, SyncLibrary, SyncUser

(* No thread sleeps for a lock that is free, unless the call that has      *)
(* freed it is still waking its sleepers: no release is lost, whatever the *)
(* program does, as long as no queue has been full.                        *)
THEOREM NoReleaseIsLost == SyncSpec => []NoLostRelease
<1>1. SyncInit => NoLostRelease
  BY DEF SyncInit, Init, NoLostRelease, AsleepOn
<1> QED BY <1>1, SyncInvAlways, SleepersAreQueued, StepRelease, PTL DEF SyncSpec

------------------------------------------------------------------------------
(* Of the calls, only thread_wakeup makes another thread runnable, and it  *)
(* queues it.                                                              *)
LEMMA CallsQueue ==
  ASSUME SyncInv, SyncLibrary \/ SyncUser
  PROVE  \/ /\ UNCHANGED <<thread_queue, refused>>
            /\ \A t \in Tids \ {current_thread} : state'[t] = "Running" => state[t] = "Running"
         \/ \E id \in Tids :
              /\ state' = [state EXCEPT ![id] = "Running"]
              /\ thread_queue' = Pushed(thread_queue, id) /\ refused' = Refused(thread_queue, id)
<1>0. current_thread \in Tids /\ state \in [Tids -> {"Destroyed", "Running", "Sleep"}]
  BY DEF SyncInv, SyncTypeOK, TypeOK
<1>1. CASE SyncUser
  BY <1>1 DEF SyncUser, make, destroy, lock_destroy, free_lock, make_no_memory, free_again,
              destroy_held, sleep_invalid, sleep_call, wakeup_call,
     acquire_call, lock_release, assert_holder, cv_wait, cv_signal, cv_broadcast, Release, WakeCall,
     Abort, Stop, schedVars, table, history
<1>2. CASE slept \/ slept_assert \/ wake_dead \/ wake_assert \/ wake_none \/ lock_acquire
           \/ acquire_wait \/ acquire_freed \/ cv_sleep \/ cv_woken
  BY <1>2 DEF slept, slept_assert, wake_dead, wake_assert, wake_none, lock_acquire, acquire_wait,
     acquire_freed, cv_sleep, cv_woken, Abort, Stop, schedVars, table, history
<1>3. CASE thread_sleep \/ slept_alone
  BY <1>0, <1>3 DEF thread_sleep, slept_alone
<1>4. CASE wake
  <2>1. MyFrame.queue \in Objects /\ MyQueue \in Seq(Tids) /\ MyQueue # <<>> /\ Len(MyQueue) <= QCap
    BY <1>4 DEF wake, At, SyncInv, SyncTypeOK, ObjectsOK, FramesOK, MyQueue
  <2>2. Head(MyQueue) \in Tids
    BY <2>1, TailEntries
  <2> QED BY <1>4, <2>2 DEF wake
<1> QED BY <1>1, <1>2, <1>3, <1>4 DEF SyncLibrary

LEMMA StepWoken == SyncInv /\ NoLostThread /\ [SyncNext]_allVars => NoLostThread'
<1> SUFFICES ASSUME SyncInv, NoLostThread, [SyncNext]_allVars PROVE NoLostThread'
  OBVIOUS
<1>0. SyncTypeOK /\ ControlOK /\ FramesOK /\ TypeOK
  BY DEF SyncInv, SyncTypeOK
<1>1. CASE [Next]_schedVars
  BY <1>0, <1>1, StepNoLost
<1>2. CASE SyncLibrary \/ SyncUser
  <2> SUFFICES ASSUME NEW t \in Tids, state'[t] = "Running", t # current_thread'
               PROVE  (Queued(t) \/ t \in refused)'
    BY DEF NoLostThread
  <2>1. current_thread' = current_thread /\ pc[current_thread] # "yield"
    BY <1>0, <1>2, CallStep DEF StepOK, OuterStep, SyncLabels
  <2>2. state[t] = "Running" => Queued(t) \/ t \in refused
    BY <2>1 DEF NoLostThread, YieldingTo
  <2>3. CASE UNCHANGED <<thread_queue, refused>> /\ state[t] = "Running"
    BY <2>2, <2>3 DEF Queued
  <2>4. ASSUME NEW id \in Tids, state' = [state EXCEPT ![id] = "Running"],
               thread_queue' = Pushed(thread_queue, id), refused' = Refused(thread_queue, id)
        PROVE  (Queued(t) \/ t \in refused)'
    <3>0. thread_queue \in Seq(Tids)
      BY <1>0 DEF TypeOK
    <3>1. CASE t = id
      BY <2>4, <3>0, <3>1, PushedOrRefused DEF Queued
    <3>2. CASE t # id
      <4>1. Queued(t) \/ t \in refused
        BY <1>0, <2>2, <2>4, <3>2 DEF TypeOK
      <4> QED BY <2>4, <3>0, <3>2, <4>1, PushedMembers DEF Queued, Refused
    <3> QED BY <3>1, <3>2
  <2> QED BY <1>0, <1>2, <2>1, <2>3, <2>4, CallsQueue DEF SyncInv
<1>3. CASE UNCHANGED allVars
  <2>1. [Next]_schedVars
    BY <1>3 DEF allVars
  <2> QED BY <1>1, <2>1
<1> QED BY <1>1, <1>2, <1>3 DEF SyncNext, Alone

(* A woken thread is not lost: with locks, condition variables and wait    *)
(* queues too, every runnable thread has an entry in the ready queue, is   *)
(* yielded to, or was turned away by a full ready queue.                   *)
THEOREM WokenIsNotLost == SyncSpec => []WokenNotLost
<1>1. SyncInit => NoLostThread
  BY DEF SyncInit, Init, NoLostThread
<1>2. SyncSpec => []NoLostThread
  BY <1>1, SyncInvAlways, StepWoken, PTL DEF SyncSpec
<1> QED BY <1>2, PTL DEF WokenNotLost

------------------------------------------------------------------------------
(* What Scheduler promises to every program, it promises to programs that  *)
(* use locks, condition variables and wait queues.                         *)
LEMMA SyncSteps ==
  ASSUME SyncInv, [SyncNext]_allVars
  PROVE  [Next]_schedVars \/ (OuterStep /\ OuterTypes)
  BY CallStep DEF SyncNext, Alone, allVars, SyncInv, StepOK

(* The thread of a synchronisation call is alive, and OuterStep leaves the *)
(* stacks alone.                                                           *)
LEMMA OuterStacks == SyncInv /\ StackTable /\ OuterStep => StackTable'
<1> SUFFICES ASSUME SyncInv, StackTable, OuterStep PROVE StackTable'
  OBVIOUS
<1>1. pc[current_thread] # "death" /\ pc'[current_thread] # "death"
  BY DEF OuterStep, SyncLabels
<1> QED BY <1>1 DEF OuterStep, StackTable, Dying

(* They enter with the mask saved, and Return restores it.                 *)
LEMMA OuterMask == SyncInv /\ MaskOK /\ OuterStep /\ OuterTypes => MaskOK'
<1> SUFFICES ASSUME SyncInv, MaskOK, OuterStep, OuterTypes PROVE MaskOK'
  OBVIOUS
<1> DEFINE c == current_thread
<1>0. /\ c \in Tids /\ pc \in [Tids -> Labels] /\ back \in [Tids -> ReturnLabels]
      /\ sig \in [Tids -> BOOLEAN] /\ intr \in BOOLEAN /\ OuterLabels = SyncLabels
  BY SyncAssumption DEF SyncInv, SyncTypeOK, TypeOK
<1>1. /\ pc[c] = "user" => back[c] = "return"
      /\ Alive(c)
  BY <1>0 DEF SyncInv, ControlOK, PathOK, OnOwnStack, LiveReturns, OuterStep
<1>2. \A t \in Tids \ {c} : pc'[t] = pc[t] /\ back'[t] = back[t] /\ sig'[t] = sig[t]
  BY <1>0 DEF OuterStep
<1>3. UNCHANGED <<masked, current_thread>> /\ \A t \in Tids : Alive(t)' <=> Alive(t)
  BY DEF OuterStep
<1>4. \A t \in Tids \ {c} : MaskOf(t)'
  BY <1>2, <1>3 DEF MaskOK, MaskOf
<1>5. CASE pc[c] = "user" /\ pc'[c] # "user"
  <2>1. sig' = [sig EXCEPT ![c] = intr] /\ ~ intr'
    BY <1>5 DEF OuterStep
  <2>2. intr <=> c \notin masked
    BY <1>5 DEF MaskOK, MaskOfProcessor
  <2>3. pc'[c] \in SyncLabels \cup {"return", "yield"} /\ back'[c] # "handler"
    BY <1>1, <1>5 DEF OuterStep
  <2>4. MaskOf(c)'
    BY <1>0, <2>1, <2>2, <2>3, <1>3 DEF MaskOf, SyncLabels
  <2>5. MaskOfProcessor'
    BY <1>3, <1>5, <2>1 DEF MaskOfProcessor
  <2> QED BY <1>3, <1>4, <2>4, <2>5 DEF MaskOK
<1>6. CASE pc[c] # "user" \/ pc'[c] = "user"
  <2>1. UNCHANGED <<intr, sig>> /\ (pc'[c] = "user" <=> pc[c] = "user")
    BY <1>6 DEF OuterStep
  <2>2. pc'[c] \notin {"stub", "handler"} /\ (back'[c] = "handler" => back[c] = "handler")
    BY DEF OuterStep, SyncLabels
  <2>3. MaskOf(c)'
    BY <1>0, <1>1, <1>3, <2>1, <2>2 DEF MaskOK, MaskOf
  <2>4. MaskOfProcessor'
    BY <1>3, <2>1 DEF MaskOK, MaskOfProcessor
  <2> QED BY <1>3, <1>4, <2>3, <2>4 DEF MaskOK
<1> QED BY <1>5, <1>6

(* They do not end the process by exit().                                  *)
LEMMA OuterExit == SyncInv /\ ExitIsLast /\ OuterStep => ExitIsLast'
<1> SUFFICES ASSUME OuterStep PROVE ExitIsLast'
  OBVIOUS
<1>1. status' # "exited" /\ pc'[current_thread'] # "admin_none"
  BY DEF OuterStep, SyncLabels
<1> QED BY <1>1 DEF ExitIsLast

(* How control passes between threads, with the synchronisation calls.     *)
THEOREM SyncControl == SyncSpec => []ControlOK
<1>1. SyncInv => ControlOK
  BY DEF SyncInv
<1> QED BY <1>1, SyncInvAlways, PTL

(* The same for the stacks, the masks and exit(): with synchronisation     *)
(* calls too the processor never runs on a freed stack, user code finds    *)
(* the signal mask it has set, and a dead thread runs no user code; the    *)
(* assertions on the way of an exiting thread hold, and thread_exit ends   *)
(* the process only when no thread could run.                              *)
THEOREM SchedulerHoldsInSync ==
  SyncSpec => [](StackLifetime /\ MaskPreserved /\ DeadNeverRuns /\ Assertions
                 /\ ExitOnlyWhenNoneRunnable)
<1>1. SyncInit => StackTable /\ MaskOK /\ ExitIsLast
  BY InitStacks, InitMask, InitExit DEF SyncInit
<1>2. SyncInv /\ StackTable /\ [SyncNext]_allVars => StackTable'
  BY SyncSteps, StepStacks, OuterStacks DEF SyncInv, SyncTypeOK
<1>3. SyncInv /\ MaskOK /\ [SyncNext]_allVars => MaskOK'
  BY SyncSteps, StepMask, OuterMask DEF SyncInv, SyncTypeOK
<1>4. SyncInv /\ WokenNotLost /\ ExitIsLast /\ [SyncNext]_allVars => ExitIsLast'
  BY SyncSteps, StepExit, OuterExit DEF SyncInv, SyncTypeOK, WokenNotLost
<1>5. SyncInv /\ StackTable /\ MaskOK /\ ExitIsLast =>
        StackLifetime /\ MaskPreserved /\ DeadNeverRuns /\ Assertions /\ ExitOnlyWhenNoneRunnable
  BY StacksFollow, MaskFollows, DeadFollows, AssertionsFollow, ExitFollows DEF SyncInv, SyncTypeOK
<1> QED BY <1>1, <1>2, <1>3, <1>4, <1>5, SyncInvAlways, WokenIsNotLost, PTL DEF SyncSpec
=============================================================================
