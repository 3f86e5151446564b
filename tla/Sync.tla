-------------------------------- MODULE Sync --------------------------------
(***************************************************************************)
(* Wait queues, locks and condition variables (the second half of          *)
(* thread.c), on top of the scheduler.                                     *)
(*                                                                         *)
(* The three kinds of object have one wait queue each, named by the object *)
(* itself.  Every call blocks the signal on entry, so its calls of         *)
(* thread_sleep, thread_wakeup and lock_acquire run on without a switch    *)
(* until thread_sleep gives up the processor.  Where a thread is in these  *)
(* calls is its label of Scheduler and frame[t], their locals; the steps   *)
(* of Scheduler leave both the objects and the frames alone.               *)
(***************************************************************************)
EXTENDS Scheduler

CONSTANTS
  Locks, Cvs, Queues,  (* the objects: struct lock, cv and wait_queue      *)
  None,                (* no object: NULL                                  *)
  Made,                (* the objects the program has made at the start    *)
  SyncCalls,           (* what the program may do with them                *)
  Disciplined          (* does the program acquire no lock that it holds,  *)
                       (* and release, wait and signal only with the lock? *)

Objects == Locks \cup Cvs \cup Queues
SyncOperations == {"make", "destroy", "sleep", "wakeup", "wakeup_all",
                   "acquire", "release", "wait", "signal", "broadcast"}

(* The labels of the calls below. *)
SyncLabels == {"sleep", "slept", "wakeup", "acquire", "cv_sleep", "cv_woken"}

ASSUME SyncAssumption ==
  /\ Locks \cap Cvs = {} /\ Locks \cap Queues = {} /\ Cvs \cap Queues = {}
  /\ None \notin Objects
  /\ Made \subseteq Objects
  /\ SyncCalls \subseteq [thread : Tids, op : SyncOperations,
                          object : Objects \cup {None}, lock : Locks \cup {None}]
  /\ \A c \in SyncCalls :
       /\ c.op \in {"make", "destroy"} => c.object \in Objects
       /\ c.op = "sleep" => c.object \in Queues \cup {None}
       /\ c.op \in {"wakeup", "wakeup_all"} => c.object \in Queues
       /\ c.op \in {"wait", "signal", "broadcast"} => c.object \in Cvs
       /\ c.op \in {"acquire", "release", "wait", "signal", "broadcast"} => c.lock \in Locks
  /\ Disciplined \in BOOLEAN
  /\ OuterLabels = SyncLabels

VARIABLES
  wq,       (* the wait queue of each object                               *)
  current,  (* the thread that holds each lock, or -1                      *)
  life,     (* "absent" before an object is made, "made", "freed"          *)
  destroying, (* the threads that are in lock_destroy of each lock and     *)
            (* have found it free                                          *)
  frame,    (* the locals of each thread's synchronisation call            *)
  inside    (* history: the threads that have acquired each lock, by       *)
            (* lock_acquire or at the end of cv_wait, and not released it  *)

objects == <<wq, current, life, destroying, inside>>
syncVars == <<wq, current, life, destroying, frame, inside>>

Frames == [queue : Objects \cup {None}, all : BOOLEAN,
           after : {"return", "acquire", "cv_sleep", "cv_woken"},
           mutex : Locks \cup {None}, cond : Cvs \cup {None}]
NoFrame == [queue |-> None, all |-> FALSE, after |-> "return", mutex |-> None, cond |-> None]

SyncInit ==
  /\ Init
  /\ wq = [o \in Objects |-> <<>>]
  /\ current = [l \in Locks |-> -1]
  /\ life = [o \in Objects |-> IF o \in Made THEN "made" ELSE "absent"]
  /\ destroying = [l \in Locks |-> {}]
  /\ frame = [t \in Tids |-> NoFrame]
  /\ inside = [l \in Locks |-> {}]

------------------------------------------------------------------------------
MyFrame == frame[current_thread]
MyQueue == wq[MyFrame.queue]
SetFrame(f) == frame' = [frame EXCEPT ![current_thread] = f]

(* The running thread is in lock_destroy, which leaves the signal alone.   *)
Destroying == \E l \in Locks : current_thread \in destroying[l]

(* The program's calls; it uses no object before it is made or after it is *)
(* destroyed.                                                              *)
SyncCall(op) ==
  {c \in SyncCalls :
     /\ c.thread = current_thread /\ c.op = op /\ ~ Destroying
     /\ c.object # None => life[c.object] = "made"
     /\ c.lock # None => life[c.lock] = "made"
     /\ Disciplined /\ c.lock # None =>
          (op = "acquire" <=> current_thread \notin inside[c.lock])}

(* What none of these calls touches. *)
others == <<waiter, exit_code, current_thread, admin, on_stack, status, ctx,
            tid, stacks, masked>>

(* thread_sleep or thread_wakeup returns to its caller. *)
CallReturns ==
  /\ Goto(MyFrame.after)
  /\ SetFrame(IF MyFrame.after = "return" THEN NoFrame ELSE MyFrame)

Abort == Stop("aborted") /\ UNCHANGED syncVars

------------------------------------------------------------------------------
(* Variants of definitions below, each with a plausible slip; no           *)
(* specification uses them.                                                *)

(* lock_acquire tests the lock once, not again when it has been woken. *)
acquireOnce ==
  /\ At("acquire")
  /\ life[MyFrame.mutex] = "made"
  /\ current[MyFrame.mutex] = -1 \/ MyFrame.after = "acquire"
  /\ current' = [current EXCEPT ![MyFrame.mutex] = current_thread]
  /\ inside' = [inside EXCEPT ![MyFrame.mutex] = @ \cup {current_thread}]
  /\ Goto("return")
  /\ SetFrame(NoFrame)
  /\ UNCHANGED <<others, wq, life, destroying, state, thread_queue, intr, sig, want, back,
                 ret, refused, overflowed>>

(* lock_release does not wake the threads that wait for the lock. *)
releaseSilently ==
  /\ At("user")
  /\ \E c \in SyncCall("release") :
     /\ current[c.lock] = current_thread
     /\ current' = [current EXCEPT ![c.lock] = -1]
     /\ inside' = [inside EXCEPT ![c.lock] = @ \ {current_thread}]
  /\ SetFrame(NoFrame)
  /\ Enter("return")
  /\ UNCHANGED <<others, wq, life, destroying, state, thread_queue, want, back, ret, refused,
                 overflowed>>

(* thread_wakeup makes the thread runnable without queueing it. *)
wakeUnqueued ==
  /\ At("wakeup") /\ MyQueue # <<>>
  /\ state[Head(MyQueue)] = "Sleep"
  /\ state' = [state EXCEPT ![Head(MyQueue)] = "Running"]
  /\ wq' = [wq EXCEPT ![MyFrame.queue] = Tail(@)]
  /\ Answer(ret[current_thread] + 1)
  /\ IF MyFrame.all THEN UNCHANGED <<pc, frame>> ELSE CallReturns
  /\ UNCHANGED <<others, current, life, destroying, inside, thread_queue, intr, sig, want,
                 back, refused, overflowed>>

(* cv_wait goes to sleep with the lock. *)
cvWaitLocked ==
  /\ At("user")
  /\ \E c \in SyncCall("wait") :
     /\ current[c.lock] = current_thread
     /\ SetFrame([NoFrame EXCEPT !.mutex = c.lock, !.cond = c.object])
  /\ Enter("cv_sleep")
  /\ UNCHANGED <<others, objects, state, thread_queue, want, back, ret, refused,
                 overflowed>>

(* thread_sleep keeps its entry when there is nobody to switch to. *)
sleptAloneQueued ==
  /\ At("slept")
  /\ ret[current_thread] = THREAD_NONE
  /\ MyQueue # <<>> /\ MyQueue[Len(MyQueue)] = current_thread
  /\ state' = [state EXCEPT ![current_thread] = "Running"]
  /\ CallReturns
  /\ UNCHANGED <<others, objects, thread_queue, intr, sig, want, back, ret,
                 refused, overflowed>>

(* lock_acquire goes to sleep without a look at the lock. *)
acquireAsleep ==
  /\ At("acquire")
  /\ life[MyFrame.mutex] = "made"
  /\ SetFrame([MyFrame EXCEPT !.queue = MyFrame.mutex, !.after = "acquire"])
  /\ Goto("sleep")
  /\ UNCHANGED <<others, objects, state, thread_queue, intr, sig, want, back,
                 ret, refused, overflowed>>

(* thread_sleep gives up the processor before it joins the queue. *)
sleepUnqueued ==
  /\ At("sleep")
  /\ state' = [state EXCEPT ![current_thread] = "Sleep"]
  /\ want' = [want EXCEPT ![current_thread] = THREAD_ANY]
  /\ back' = [back EXCEPT ![current_thread] = "slept"]
  /\ Goto("yield")
  /\ UNCHANGED <<others, objects, frame, thread_queue, intr, sig, ret, refused,
                 overflowed>>

------------------------------------------------------------------------------
(* wait_queue_create, lock_create and cv_create; malloc369 gives up the    *)
(* process when malloc returns NULL.                                       *)
MakeCall ==
  {c \in SyncCalls :
     /\ c.thread = current_thread /\ c.op = "make" /\ ~ Destroying
     /\ life[c.object] = "absent"}

make ==
  /\ At("user")
  /\ \E c \in MakeCall : life' = [life EXCEPT ![c.object] = "made"]
  /\ UNCHANGED <<schedVars, wq, current, destroying, frame, inside>>

make_no_memory ==
  /\ At("user") /\ MallocFails /\ MakeCall # {}
  /\ Stop("failed")
  /\ UNCHANGED syncVars

(* wait_queue_destroy and cv_destroy check nothing: threads may be asleep  *)
(* in the queue.                                                           *)
destroy ==
  /\ At("user")
  /\ \E c \in SyncCall("destroy") :
       c.object \notin Locks /\ life' = [life EXCEPT ![c.object] = "freed"]
  /\ UNCHANGED <<schedVars, wq, current, destroying, frame, inside>>

(* assert(lock->current == -1); the queue is not looked at. *)
lock_destroy ==
  /\ At("user")
  /\ \E c \in SyncCall("destroy") :
     /\ c.object \in Locks /\ current[c.object] = -1
     /\ destroying' = [destroying EXCEPT ![c.object] = @ \cup {current_thread}]
  /\ UNCHANGED <<schedVars, wq, current, life, frame, inside>>

destroy_held ==
  /\ At("user")
  /\ \E c \in SyncCall("destroy") : c.object \in Locks /\ current[c.object] # -1
  /\ Abort

(* Another thread may have run since, and may hold the lock now. *)
free_lock ==
  /\ At("user")
  /\ \E l \in Locks :
     /\ current_thread \in destroying[l] /\ life[l] = "made"
     /\ life' = [life EXCEPT ![l] = "freed"]
     /\ destroying' = [destroying EXCEPT ![l] = @ \ {current_thread}]
  /\ UNCHANGED <<schedVars, wq, current, frame, inside>>

(* ... or have destroyed it, too.                                          *)
free_again ==
  /\ At("user")
  /\ \E l \in Locks : current_thread \in destroying[l] /\ life[l] = "freed"
  /\ Stop("undefined")
  /\ UNCHANGED syncVars

------------------------------------------------------------------------------
sleep_invalid ==
  /\ At("user")
  /\ \E c \in SyncCall("sleep") : c.object = None
  /\ Enter("return")
  /\ Answer(THREAD_INVALID)
  /\ UNCHANGED <<others, syncVars, state, thread_queue, want, back, refused, overflowed>>

sleep_call ==
  /\ At("user")
  /\ \E c \in SyncCall("sleep") :
       c.object # None /\ SetFrame([NoFrame EXCEPT !.queue = c.object])
  /\ Enter("sleep")
  /\ UNCHANGED <<others, objects, state, thread_queue, want, back, ret, refused, overflowed>>

(* The caller is asleep and in the wait queue, if there is room, before it *)
(* yields.                                                                 *)
thread_sleep ==
  /\ At("sleep")
  /\ state' = [state EXCEPT ![current_thread] = "Sleep"]
  /\ wq' = [wq EXCEPT ![MyFrame.queue] = Pushed(@, current_thread)]
  /\ overflowed' = Overflows(MyQueue)
  /\ want' = [want EXCEPT ![current_thread] = THREAD_ANY]
  /\ back' = [back EXCEPT ![current_thread] = "slept"]
  /\ Goto("yield")
  /\ UNCHANGED <<others, current, life, destroying, frame, inside, thread_queue, intr, sig,
                 ret, refused>>

slept ==
  /\ At("slept")
  /\ ret[current_thread] # THREAD_NONE
  /\ CallReturns
  /\ UNCHANGED <<others, objects, state, thread_queue, intr, sig, want, back,
                 ret, refused, overflowed>>

(* Nobody else can run: the caller takes itself out again and goes on. *)
slept_alone ==
  /\ At("slept")
  /\ ret[current_thread] = THREAD_NONE
  /\ MyQueue # <<>> /\ MyQueue[Len(MyQueue)] = current_thread
  /\ state' = [state EXCEPT ![current_thread] = "Running"]
  /\ wq' = [wq EXCEPT ![MyFrame.queue] = SubSeq(@, 1, Len(@) - 1)]
  /\ CallReturns
  /\ UNCHANGED <<others, current, life, destroying, inside, thread_queue, intr, sig, want,
                 back, ret, refused, overflowed>>

(* assert(queue_pop_last(&(queue->queue)) == thread_id()) *)
slept_assert ==
  /\ At("slept")
  /\ ret[current_thread] = THREAD_NONE
  /\ ~ (MyQueue # <<>> /\ MyQueue[Len(MyQueue)] = current_thread)
  /\ Abort

------------------------------------------------------------------------------
(* A call of thread_wakeup on queue o that is to return to `after'; its    *)
(* result is counted in ret.                                               *)
WakeCall(o, all, f) ==
  /\ SetFrame([f EXCEPT !.queue = o, !.all = all])
  /\ Enter("wakeup")
  /\ Answer(0)
  /\ UNCHANGED <<others, wq, life, destroying, state, thread_queue, want, back, refused, overflowed>>

wakeup_call ==
  /\ At("user")
  /\ \E all \in BOOLEAN : \E c \in SyncCall(IF all THEN "wakeup_all" ELSE "wakeup") :
       WakeCall(c.object, all, NoFrame)
  /\ UNCHANGED <<current, inside>>

(* The oldest entry is a sleeping thread. *)
wake ==
  /\ At("wakeup") /\ MyQueue # <<>>
  /\ LET id == Head(MyQueue) IN
     /\ state[id] = "Sleep"
     /\ state' = [state EXCEPT ![id] = "Running"]
     /\ thread_queue' = Pushed(thread_queue, id)
     /\ refused' = Refused(thread_queue, id)
     /\ overflowed' = Overflows(thread_queue)
  /\ wq' = [wq EXCEPT ![MyFrame.queue] = Tail(@)]
  /\ Answer(ret[current_thread] + 1)
  /\ IF MyFrame.all THEN UNCHANGED <<pc, frame>> ELSE CallReturns
  /\ UNCHANGED <<others, current, life, destroying, inside, intr, sig, want, back>>

(* The oldest entry is of a thread that was killed. *)
wake_dead ==
  /\ At("wakeup") /\ MyQueue # <<>>
  /\ state[Head(MyQueue)] = "Destroyed"
  /\ wq' = [wq EXCEPT ![MyFrame.queue] = Tail(@)]
  /\ UNCHANGED <<schedVars, current, life, destroying, frame, inside>>

(* assert(state != Running) *)
wake_assert ==
  /\ At("wakeup") /\ MyQueue # <<>>
  /\ state[Head(MyQueue)] = "Running"
  /\ Abort

wake_none ==
  /\ At("wakeup") /\ MyQueue = <<>>
  /\ CallReturns
  /\ UNCHANGED <<others, objects, state, thread_queue, intr, sig, want, back,
                 ret, refused, overflowed>>

------------------------------------------------------------------------------
acquire_call ==
  /\ At("user")
  /\ \E c \in SyncCall("acquire") : SetFrame([NoFrame EXCEPT !.mutex = c.lock])
  /\ Enter("acquire")
  /\ UNCHANGED <<others, objects, state, thread_queue, want, back, ret, refused, overflowed>>

lock_acquire ==
  /\ At("acquire")
  /\ life[MyFrame.mutex] = "made"
  /\ current[MyFrame.mutex] = -1
  /\ current' = [current EXCEPT ![MyFrame.mutex] = current_thread]
  /\ inside' = [inside EXCEPT ![MyFrame.mutex] = @ \cup {current_thread}]
  /\ Goto("return")
  /\ SetFrame(NoFrame)
  /\ UNCHANGED <<others, wq, life, destroying, state, thread_queue, intr, sig, want, back,
                 ret, refused, overflowed>>

acquire_wait ==
  /\ At("acquire")
  /\ life[MyFrame.mutex] = "made"
  /\ current[MyFrame.mutex] # -1
  /\ SetFrame([MyFrame EXCEPT !.queue = MyFrame.mutex, !.after = "acquire"])
  /\ Goto("sleep")
  /\ UNCHANGED <<others, objects, state, thread_queue, intr, sig, want, back,
                 ret, refused, overflowed>>

(* The lock was destroyed while the thread was waiting for it. *)
acquire_freed ==
  /\ At("acquire")
  /\ life[MyFrame.mutex] = "freed"
  /\ Stop("undefined")
  /\ UNCHANGED syncVars

(* Give up lock l and wake all that wait for it. *)
Release(l, f) ==
  /\ current[l] = current_thread
  /\ current' = [current EXCEPT ![l] = -1]
  /\ inside' = [inside EXCEPT ![l] = @ \ {current_thread}]
  /\ WakeCall(l, TRUE, f)

lock_release ==
  /\ At("user")
  /\ \E c \in SyncCall("release") : Release(c.lock, NoFrame)

(* assert(lock->current == current_thread), in lock_release, cv_wait,      *)
(* cv_signal and cv_broadcast.                                             *)
assert_holder ==
  /\ At("user")
  /\ \E op \in {"release", "wait", "signal", "broadcast"} :
     \E c \in SyncCall(op) : current[c.lock] # current_thread
  /\ Abort

------------------------------------------------------------------------------
cv_wait ==
  /\ At("user")
  /\ \E c \in SyncCall("wait") :
       Release(c.lock, [NoFrame EXCEPT !.after = "cv_sleep", !.mutex = c.lock,
                                       !.cond = c.object])

cv_sleep ==
  /\ At("cv_sleep")
  /\ SetFrame([MyFrame EXCEPT !.queue = MyFrame.cond, !.after = "cv_woken"])
  /\ Goto("sleep")
  /\ UNCHANGED <<others, objects, state, thread_queue, intr, sig, want, back,
                 ret, refused, overflowed>>

(* Woken, or nobody else could run: lock_acquire comes next. *)
cv_woken ==
  /\ At("cv_woken")
  /\ SetFrame([NoFrame EXCEPT !.mutex = MyFrame.mutex])
  /\ Goto("acquire")
  /\ UNCHANGED <<others, objects, state, thread_queue, intr, sig, want, back,
                 ret, refused, overflowed>>

cv_signal ==
  /\ At("user")
  /\ \E c \in SyncCall("signal") :
       current[c.lock] = current_thread /\ WakeCall(c.object, FALSE, NoFrame)
  /\ UNCHANGED <<current, inside>>

cv_broadcast ==
  /\ At("user")
  /\ \E c \in SyncCall("broadcast") :
       current[c.lock] = current_thread /\ WakeCall(c.object, TRUE, NoFrame)
  /\ UNCHANGED <<current, inside>>

------------------------------------------------------------------------------
SyncLibrary ==
  \/ thread_sleep \/ slept \/ slept_alone \/ slept_assert
  \/ wake \/ wake_dead \/ wake_assert \/ wake_none
  \/ lock_acquire \/ acquire_wait \/ acquire_freed
  \/ cv_sleep \/ cv_woken
SyncUser ==
  \/ make \/ make_no_memory
  \/ destroy \/ lock_destroy \/ destroy_held \/ free_lock \/ free_again
  \/ sleep_invalid \/ sleep_call \/ wakeup_call
  \/ acquire_call \/ lock_release \/ assert_holder
  \/ cv_wait \/ cv_signal \/ cv_broadcast

(* A thread that has died is inside no lock, but may still hold it; one in *)
(* lock_destroy can be interrupted.                                        *)
Alone ==
  /\ Next
  /\ At("user") /\ Destroying => interrupt_handler
  /\ UNCHANGED <<wq, current, life, frame>>
  /\ destroying' = [l \in Locks |-> {t \in destroying[l] : state'[t] # "Destroyed"}]
  /\ inside' = [l \in Locks |-> {t \in inside[l] : state'[t] # "Destroyed"}]

SyncNext == Alone \/ SyncLibrary \/ SyncUser

allVars == <<schedVars, syncVars>>
SyncSpec == SyncInit /\ [][SyncNext]_allVars

(* The fairness of Scheduler, whose reasons hold here too. *)
FairSyncSpec ==
  /\ SyncSpec
  /\ WF_allVars((Alone /\ Library) \/ SyncLibrary)
  /\ SF_allVars(Alone /\ interrupt_handler)

------------------------------------------------------------------------------
ObjectsOK ==
  /\ wq \in [Objects -> Seq(Tids)] /\ \A o \in Objects : Len(wq[o]) <= QCap
  /\ current \in [Locks -> Tids \cup {-1}]
  /\ life \in [Objects -> {"absent", "made", "freed"}]
  /\ destroying \in [Locks -> SUBSET Tids]
  /\ frame \in [Tids -> Frames]
  /\ inside \in [Locks -> SUBSET Tids]

(* The objects and the frames have their types, and wait queues never hold *)
(* more than their array.  thread_yield returns to no caller here but      *)
(* thread_sleep.                                                           *)
SyncTypeOK ==
  /\ TypeOK
  /\ back \in [Tids -> OwnReturns \cup {"slept"}]
  /\ ObjectsOK

(* A thread that is in thread_sleep, and has not been woken. *)
AsleepOn(t, o) ==
  /\ state[t] = "Sleep" /\ back[t] = "slept" /\ pc[t] \in {"yield", "resumed"}
  /\ frame[t].queue = o

(* Where a call uses its locals they name objects of the right kind, also  *)
(* when it was switched out in between; a thread goes to sleep on a lock   *)
(* only while the lock is taken, and one that wakes the threads of a lock  *)
(* wakes them all, while the lock is free.                                 *)
FramesOK ==
  LET at == pc[current_thread] IN
  /\ \A t \in Tids :
       /\ frame[t].after # "return" => frame[t].mutex \in Locks
       /\ frame[t].after \in {"cv_sleep", "cv_woken"} => frame[t].cond \in Cvs
       /\ back[t] = "slept" /\ pc[t] \in {"yield", "resumed"} => frame[t].queue \in Objects
  /\ at \in {"sleep", "slept", "wakeup"} => MyFrame.queue \in Objects
  /\ at = "acquire" => MyFrame.mutex \in Locks
  /\ at \in {"cv_sleep", "cv_woken"} => MyFrame.after = at
  /\ at = "sleep" /\ MyFrame.queue \in Locks => current[MyFrame.queue] # -1
  /\ at = "wakeup" /\ MyFrame.queue \in Locks => MyFrame.all /\ current[MyFrame.queue] = -1

(* Two threads are never both between lock_acquire, or cv_wait, and        *)
(* lock_release: lock_acquire tests the lock again each time it is woken.  *)
MutualExclusion == \A l \in Locks : inside[l] \subseteq {current[l]}

(* No thread is left waiting for a free lock: lock_release wakes all, and  *)
(* a thread that finds the lock taken is in its queue before another can   *)
(* release it.                                                             *)
NoLostRelease ==
  \A l \in Locks, t \in Tids :
    AsleepOn(t, l) /\ status = "running" /\ ~ overflowed =>
      \/ current[l] # -1
      \/ pc[current_thread] = "wakeup" /\ MyFrame.queue = l /\ MyFrame.all

(* A thread asleep on a queue is in it: a wakeup or a signal sent by any   *)
(* thread that runs after it will find it, also after cv_wait has given up *)
(* the lock.                                                               *)
SleeperQueued ==
  \A o \in Objects, t \in Tids :
    AsleepOn(t, o) /\ ~ overflowed => \E i \in 1 .. Len(wq[o]) : wq[o][i] = t

(* A woken thread is runnable and in the ready queue, like any other. *)
WokenNotLost == NoLostThread

------------------------------------------------------------------------------
(* What holds for a program that calls as the header says, yields to no    *)
(* thread by name, neither kills nor waits for one, and leaves the signal  *)
(* alone; and for one in which no thread ends.                             *)
OrderlyProgram ==
  /\ Disciplined
  /\ \A c \in Calls : c[2] \notin {"kill", "wait", "mask"}
  /\ \A c \in Calls : c[2] = "yield" => c[3] \notin Tids
  /\ \A c \in SyncCalls : c.op = "destroy" => c.object \notin Locks
NobodyEnds == \A c \in Calls : c[2] \notin {"kill", "exit"}

(* No assertion fails: in particular thread_wakeup finds only sleeping     *)
(* threads (493), and thread_sleep its own entry at the end of its queue   *)
(* (467).                                                                  *)
SyncNoAbort == ~ overflowed => status # "aborted"

(* Each entry of a wait queue is of a thread asleep in this queue, which   *)
(* has no other; a thread sleeps only while it is in thread_sleep, and it  *)
(* comes back with THREAD_NONE only while its entry is still the last.     *)
EntryOf(t, o) == state[t] = "Sleep" /\ back[t] = "slept" /\ frame[t].queue = o
JustQueued(t) ==
  /\ state[t] = "Sleep"
  /\ MyQueue # <<>> /\ MyQueue[Len(MyQueue)] = t
SleepOK ==
  ~ overflowed =>
    LET c == current_thread IN
    /\ \A t \in Tids : waiter[t] = -1
    /\ \A o \in Objects : \A i, j \in 1 .. Len(wq[o]) :
         EntryOf(wq[o][i], o) /\ (wq[o][i] = wq[o][j] => i = j)
    /\ \A t \in Tids : state[t] = "Sleep" => back[t] = "slept"
    /\ \A t \in Tids : back[t] = "slept" /\ pc[t] = "resumed" => want[t] # THREAD_NONE
    /\ state[c] = "Sleep" => pc[c] \in {"yield", "slept"}
    /\ pc[c] = "yield" => want[c] \notin Tids /\ (back[c] = "slept" => JustQueued(c))
    /\ pc[c] = "yield" /\ back[c] = "slept" => want[c] = THREAD_ANY
    /\ pc[c] = "slept" =>
         /\ back[c] = "slept"
         /\ IF ret[c] = THREAD_NONE THEN JustQueued(c) ELSE state[c] # "Sleep"
    /\ pc[c] \in {"kill", "death"} => back[c] # "killed"

(* A lock is held by a thread that has acquired it and lives, and that is  *)
(* in no call that waits for this lock or is to acquire it again.          *)
HolderOK ==
  \A l \in Locks :
    /\ \A t \in inside[l] : Alive(t)
    /\ current[l] # -1 => current[l] \in inside[l]
    /\ \A t \in Tids : frame[t].mutex = l => current[l] # t

(* The holder of a lock can give it up: it is alive, and not asleep for    *)
(* this lock or in a cv_wait with it, where nobody could wake it but a     *)
(* thread that first acquires the lock.                                    *)
HolderNotStuck ==
  \A l \in Locks : current[l] # -1 =>
    LET t == current[l] IN
    state[t] # "Destroyed" /\ \A o \in Objects : AsleepOn(t, o) => frame[t].mutex # l

(* Locks and condition variables make a monitor, as long as no queue has   *)
(* been full.  A wakeup of all is over when it begins, and cv_wait is in   *)
(* its queue when it gives up the lock: nobody else runs before that is    *)
(* true.                                                                   *)
WakingAll(o) == pc[current_thread] = "wakeup" /\ MyFrame.queue = o /\ MyFrame.all
GoingToWait(c) ==
  /\ MyFrame.cond = c
  /\ \/ pc[current_thread] \in {"cv_sleep", "sleep"}
     \/ pc[current_thread] = "wakeup" /\ MyFrame.after = "cv_sleep"
Living == {t \in Tids : Alive(t)}
BlockedOn == [l \in Locks |-> {t \in Tids : EntryOf(t, l) /\ ~ WakingAll(l)}]
Lines == [c \in Cvs |-> (IF WakingAll(c) THEN <<>> ELSE wq[c]) \o
                        (IF GoingToWait(c) THEN <<current_thread>> ELSE <<>>)]
Elsewhere == {t \in Tids : \E q \in Queues : EntryOf(t, q)}
M == INSTANCE Monitor WITH threads <- Living, holder <- current, blocked <- BlockedOn,
                           waiting <- Lines, away <- Elsewhere
MonitorImplements == M!Init /\ [][M!Next \/ overflowed']_(M!monitorVars)

(* A live thread in lock_acquire, called by the program or by cv_wait.     *)
Acquiring(t, l) == Alive(t) /\ frame[t].mutex = l /\ frame[t].cond = None

(* A free lock that a thread wants is acquired, by that thread or another: *)
(* the threads that wait are woken, run again with preemption, and one of  *)
(* them gets it.  Nothing says which: a thread that comes later may be     *)
(* first, each time.                                                       *)
LockTaken ==
  \A l \in Locks, t \in Tids :
    Acquiring(t, l) /\ current[l] = -1 ~>
      current[l] # -1 \/ ~ Alive(t) \/ overflowed \/ status # "running"

------------------------------------------------------------------------------
(* thread.c:493 assert(state != Running) in thread_wakeup. *)
WokenWasAsleep == At("wakeup") /\ MyQueue # <<>> => state[Head(MyQueue)] # "Running"
==============================================================================
