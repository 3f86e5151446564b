----------------------------- MODULE Scheduler -----------------------------
(***************************************************************************)
(* The thread table, the ready queue and the context switches of thread.c, *)
(* with the timer signal of interrupt.c.                                   *)
(*                                                                         *)
(* There is one processor.  Every library call blocks the timer signal     *)
(* before it touches shared state, so control moves from one thread to     *)
(* another only where thread_yield or thread_exit loads a saved context;   *)
(* the timer handler itself does nothing but call thread_yield.  A thread  *)
(* is therefore described by the label pc[t] at which it will go on, the   *)
(* locals of its library call, and the label `back[t]' to which its        *)
(* innermost thread_yield or handle_death returns.  The processor executes *)
(* at pc[current_thread].                                                  *)
(***************************************************************************)
EXTENDS Integers, Sequences, FiniteSets

CONSTANTS
  N,           (* THREAD_MAX_THREADS                                       *)
  QCap,        (* the size of the ready queue, THREAD_MAX_THREADS * 30     *)
  Calls,       (* what the program may do: <<thread, operation, argument>> *)
  Garbage,     (* values of the exit code that thread_init leaves unset    *)
  Preemptive,  (* has register_interrupt_handler been called?              *)
  MallocFails, (* may malloc fail?                                         *)
  OuterLabels  (* the labels of library code outside this module           *)

Tids == 0 .. N - 1
Operations == {"create", "yield", "exit", "kill", "wait", "mask"}

(* Where a nested call of this module can return to, and the other places  *)
(* where a thread can go on.                                               *)
OwnReturns == {"return", "handler", "killed", "admin", "admin_none", "exit",
               "exit_none", "waited"}
OwnLabels == {"none", "stub", "user", "yield", "resumed", "kill", "death"}

ASSUME SchedulerAssumption ==
  /\ N \in Nat \ {0}
  /\ QCap \in Nat \ {0}
  /\ Calls \subseteq Tids \X Operations \X Int
  /\ Garbage \subseteq Int
  /\ Preemptive \in BOOLEAN
  /\ MallocFails \in BOOLEAN
  /\ OuterLabels \cap (OwnReturns \cup OwnLabels) = {}

THREAD_ANY == -1
THREAD_SELF == -2
THREAD_INVALID == -3
THREAD_NONE == -4
THREAD_NOMORE == -5
KILLED == -9         (* -SIGKILL: the exit code of a thread that did not exit *)

VARIABLES
  (* the thread table and the globals of thread.c *)
  state, waiter, exit_code, thread_queue, current_thread,
  thread_to_destroy, administrative_mode,
  (* the processor *)
  intr,        (* is the timer signal unblocked?                           *)
  on_stack,    (* the thread on whose stack the processor runs             *)
  status,      (* "running", or how the process ended                      *)
  (* the saved context and the locals of each thread *)
  pc, ctx, sig, tid, want, back, ret,
  (* the heap *)
  stacks,      (* the threads whose stack is allocated                     *)
  (* history: no action reads these *)
  masked,      (* threads whose own code has blocked the signal            *)
  refused,     (* threads that a full ready queue has turned away and that *)
               (* have not run since                                       *)
  overflowed   (* has a full ready queue ever turned a thread away?        *)

table == <<state, waiter, exit_code>>
admin == <<thread_to_destroy, administrative_mode>>
locals == <<sig, tid, want, back, ret>>
history == <<masked, refused, overflowed>>
schedVars == <<state, waiter, exit_code, thread_queue, current_thread,
               thread_to_destroy, administrative_mode, intr, on_stack,
               status, pc, ctx, sig, tid, want, back, ret, stacks, masked,
               refused, overflowed>>

Init ==
  /\ state = [t \in Tids |-> IF t = 0 THEN "Running" ELSE "Destroyed"]
  /\ waiter = [t \in Tids |-> -1]
  /\ \E g \in Garbage : exit_code = [t \in Tids |-> IF t = 0 THEN g ELSE KILLED]
  /\ thread_queue = <<>>
  /\ current_thread = 0
  /\ thread_to_destroy = -1
  /\ administrative_mode = FALSE
  /\ intr = TRUE
  /\ on_stack = 0
  /\ status = "running"
  /\ pc = [t \in Tids |-> IF t = 0 THEN "user" ELSE "none"]
  /\ ctx = [t \in Tids |-> 0]
  /\ sig = [t \in Tids |-> TRUE]
  /\ tid = [t \in Tids |-> -1]
  /\ want = [t \in Tids |-> THREAD_ANY]
  /\ back = [t \in Tids |-> "return"]
  /\ ret = [t \in Tids |-> 0]
  /\ stacks = {}
  /\ masked = {}
  /\ refused = {}
  /\ overflowed = FALSE

------------------------------------------------------------------------------
(* Control.                                                                *)
At(label) == status = "running" /\ pc[current_thread] = label
Goto(label) == pc' = [pc EXCEPT ![current_thread] = label]
Answer(v) == ret' = [ret EXCEPT ![current_thread] = v]
Call(op) == {c[3] : c \in {d \in Calls : d[1] = current_thread /\ d[2] = op}}

(* `bool signal_state = interrupts_set(false)', then go on at label. *)
Enter(label) ==
  /\ Goto(label)
  /\ sig' = [sig EXCEPT ![current_thread] = intr]
  /\ intr' = FALSE

(* The locals of a thread that is in no library call. *)
LeaveLocals(t) ==
  /\ sig' = [sig EXCEPT ![t] = TRUE]
  /\ tid' = [tid EXCEPT ![t] = -1]
  /\ want' = [want EXCEPT ![t] = THREAD_ANY]
  /\ back' = [back EXCEPT ![t] = "return"]
  /\ ret' = [ret EXCEPT ![t] = 0]

(* A failed assertion, exit() or an undefined jump ends the process. *)
Stop(how) ==
  /\ status' = how
  /\ UNCHANGED <<table, thread_queue, current_thread, admin, intr, on_stack,
                 pc, ctx, locals, stacks, history>>

------------------------------------------------------------------------------
(* Variants of definitions below, each with a plausible slip; no           *)
(* specification uses them.                                                *)

(* The result of the capacity test is ignored. *)
PushedUnchecked(q, t) == Append(q, t)

(* The thread that was put back last goes first. *)
PushedInFront(q, t) == IF Len(q) = QCap THEN q ELSE <<t>> \o q

(* A reused entry keeps the waiter of its last owner. *)
NewEntryStaleWaiter(t) ==
  /\ state' = [state EXCEPT ![t] = "Running"]
  /\ exit_code' = [exit_code EXCEPT ![t] = KILLED]
  /\ UNCHANGED waiter

(* get_thread_any looks for threads that exist, asleep or not. *)
RunnableAsleep(t) == state[t] # "Destroyed" /\ t # current_thread

(* thread_yield does not look at the state of its target. *)
AvailableDead(t) == t \in Tids

(* The caller's own mask is not put back. *)
ReturnUnmasked ==
  /\ At("return")
  /\ intr' = TRUE
  /\ Goto("user")
  /\ LeaveLocals(current_thread)
  /\ UNCHANGED <<table, thread_queue, current_thread, admin, on_stack, status,
                 ctx, stacks, history>>

(* get_thread_any gives up on the first entry that cannot run. *)
yieldNoneEarly ==
  /\ At("yield")
  /\ want[current_thread] = THREAD_ANY
  /\ ~ (thread_queue # <<>> /\ state[thread_queue[1]] = "Running"
                             /\ thread_queue[1] # current_thread)
  /\ Answer(THREAD_NONE)
  /\ Goto(back[current_thread])
  /\ thread_queue' = <<>>
  /\ UNCHANGED <<table, current_thread, admin, intr, on_stack, status, ctx,
                 sig, tid, want, back, stacks, history>>

(* administrative_mode is still set when the waiter of the exiting thread  *)
(* is switched to.                                                         *)
killStaysAdmin ==
  /\ At("kill")
  /\ tid[current_thread] \in Tids /\ state[tid[current_thread]] # "Destroyed"
  /\ tid[current_thread] # current_thread \/ administrative_mode
  /\ stacks' = stacks \ {tid[current_thread]}
  /\ Goto("death")
  /\ UNCHANGED <<table, thread_queue, current_thread, admin, intr, on_stack,
                 status, ctx, locals, history>>

(* The waiter is made runnable, and neither queued nor yielded to. *)
deathNoYield ==
  /\ At("death")
  /\ LET dying == tid[current_thread]
         w == waiter[dying] IN
     state' = IF w # -1 /\ state[w] = "Sleep"
              THEN [state EXCEPT ![dying] = "Destroyed", ![w] = "Running"]
              ELSE [state EXCEPT ![dying] = "Destroyed"]
  /\ Goto(back[current_thread])
  /\ UNCHANGED <<waiter, exit_code, thread_queue, current_thread, admin, intr,
                 on_stack, status, ctx, locals, stacks, history>>

(* The exiting thread goes on on its own stack, which thread_kill frees. *)
exitOnOwnStack ==
  /\ At("user") /\ intr /\ current_thread # 0
  /\ \E code \in Call("exit") :
       exit_code' = [exit_code EXCEPT ![current_thread] = code]
  /\ thread_to_destroy' = current_thread
  /\ administrative_mode' = TRUE
  /\ Enter(pc[0])
  /\ UNCHANGED <<state, waiter, thread_queue, current_thread, on_stack, status,
                 ctx, tid, want, back, ret, stacks, history>>

(* A second waiter takes the place of the first. *)
WaitTakenOver(t) ==
  \/ t \notin Tids
  \/ state[t] = "Destroyed" /\ exit_code[t] = KILLED
  \/ t = current_thread

------------------------------------------------------------------------------
(* interrupts_set(signal_state); return *)
Return ==
  /\ At("return")
  /\ intr' = sig[current_thread]
  /\ Goto("user")
  /\ LeaveLocals(current_thread)
  /\ UNCHANGED <<table, thread_queue, current_thread, admin, on_stack, status,
                 ctx, stacks, history>>

(* The program's own interrupts_off() and interrupts_on(). *)
Mask ==
  /\ At("user") /\ Call("mask") # {}
  /\ intr' = ~intr
  /\ masked' = IF intr THEN masked \cup {current_thread}
                       ELSE masked \ {current_thread}
  /\ UNCHANGED <<table, thread_queue, current_thread, admin, on_stack, status,
                 pc, ctx, locals, stacks, refused, overflowed>>

(* SIGALRM is delivered: the handler calls thread_yield(THREAD_ANY). *)
interrupt_handler ==
  /\ At("user") /\ intr /\ Preemptive
  /\ intr' = FALSE
  /\ Goto("yield")
  /\ want' = [want EXCEPT ![current_thread] = THREAD_ANY]
  /\ back' = [back EXCEPT ![current_thread] = "handler"]
  /\ UNCHANGED <<table, thread_queue, current_thread, admin, on_stack, status,
                 ctx, sig, tid, ret, stacks, history>>

(* The handler returns and the kernel restores the interrupted mask. *)
sigreturn ==
  /\ At("handler")
  /\ intr' = TRUE
  /\ Goto("user")
  /\ LeaveLocals(current_thread)
  /\ UNCHANGED <<table, thread_queue, current_thread, admin, on_stack, status,
                 ctx, stacks, history>>

(* thread_stub: a thread runs for the first time; interrupts_on() precedes *)
(* thread_main.  Its return is a call of thread_exit(0).                   *)
thread_stub ==
  /\ At("stub")
  /\ intr' = TRUE
  /\ Goto("user")
  /\ UNCHANGED <<table, thread_queue, current_thread, admin, on_stack, status,
                 ctx, locals, stacks, history>>

------------------------------------------------------------------------------
(* queue_push on the ready queue; no caller looks at its result. *)
Pushed(q, t) == IF Len(q) = QCap THEN q ELSE Append(q, t)
Refused(q, t) == IF Len(q) = QCap THEN refused \cup {t} ELSE refused \ {t}
Overflows(q) == overflowed \/ Len(q) = QCap

(* The thread control block that thread_create writes. *)
NewEntry(t) ==
  /\ state' = [state EXCEPT ![t] = "Running"]
  /\ waiter' = [waiter EXCEPT ![t] = -1]
  /\ exit_code' = [exit_code EXCEPT ![t] = KILLED]

create_no_more ==
  /\ \A t \in Tids \ {0} : state[t] # "Destroyed"
  /\ Enter("return")
  /\ Answer(THREAD_NOMORE)
  /\ UNCHANGED <<table, thread_queue, current_thread, admin, on_stack, status,
                 ctx, tid, want, back, stacks, history>>

(* The lowest free identifier is used; the queue need not take the thread. *)
create_thread(t) ==
  /\ t # 0 /\ state[t] = "Destroyed"
  /\ \A u \in 1 .. t - 1 : state[u] # "Destroyed"
  /\ NewEntry(t)
  /\ stacks' = stacks \cup {t}
  /\ ctx' = [ctx EXCEPT ![t] = t]
  /\ thread_queue' = Pushed(thread_queue, t)
  /\ pc' = [pc EXCEPT ![t] = "stub", ![current_thread] = "return"]
  /\ sig' = [sig EXCEPT ![t] = TRUE, ![current_thread] = intr]
  /\ tid' = [tid EXCEPT ![t] = -1]
  /\ want' = [want EXCEPT ![t] = THREAD_ANY]
  /\ back' = [back EXCEPT ![t] = "return"]
  /\ ret' = [ret EXCEPT ![t] = 0, ![current_thread] = t]
  /\ intr' = FALSE
  /\ masked' = masked \ {t}
  /\ refused' = Refused(thread_queue, t)
  /\ overflowed' = Overflows(thread_queue)
  /\ UNCHANGED <<current_thread, admin, on_stack, status>>

thread_create ==
  /\ At("user") /\ Call("create") # {} /\ intr
  /\ create_no_more \/ \E t \in Tids : create_thread(t)

(* malloc369 gives up the process when malloc returns NULL. *)
create_no_memory ==
  /\ At("user") /\ Call("create") # {} /\ intr /\ MallocFails
  /\ \E t \in Tids \ {0} : state[t] = "Destroyed"
  /\ Stop("failed")

(* assert(signal_state) in thread_create and thread_wait,                  *)
(* assert(interrupts_enabled()) in thread_exit.                            *)
assert_interrupts ==
  /\ At("user") /\ ~intr
  /\ Call("create") \cup Call("wait") \cup Call("exit") # {}
  /\ Stop("aborted")

------------------------------------------------------------------------------
yield_call ==
  /\ At("user")
  /\ \E w \in Call("yield") :
     /\ want' = [want EXCEPT ![current_thread] = w]
     /\ back' = [back EXCEPT ![current_thread] = "return"]
  /\ Enter("yield")
  /\ UNCHANGED <<table, thread_queue, current_thread, admin, on_stack, status,
                 ctx, tid, ret, stacks, history>>

(* thread_yield returns v to its caller without a switch; q is what is     *)
(* left of the ready queue.                                                *)
YieldReturns(v, q) ==
  /\ Answer(v)
  /\ Goto(back[current_thread])
  /\ thread_queue' = q
  /\ UNCHANGED <<table, current_thread, admin, intr, on_stack, status, ctx,
                 sig, tid, want, back, stacks, history>>

(* The caller's context is saved, the caller queued whatever its state,    *)
(* and the context of t loaded.                                            *)
SwitchTo(t, q) ==
  /\ pc' = [pc EXCEPT ![current_thread] = "resumed"]
  /\ ctx' = [ctx EXCEPT ![current_thread] = on_stack]
  /\ want' = [want EXCEPT ![current_thread] = t]
  /\ thread_queue' = Pushed(q, current_thread)
  /\ refused' = Refused(q, current_thread) \ {t}
  /\ overflowed' = Overflows(q)
  /\ current_thread' = t
  /\ on_stack' = ctx[t]
  /\ UNCHANGED <<table, admin, intr, status, sig, tid, back, ret, stacks, masked>>

(* get_thread_any would take entry i: it discards the ones before it. *)
Runnable(t) == state[t] = "Running" /\ t # current_thread
Picks(i) ==
  /\ Runnable(thread_queue[i])
  /\ \A j \in 1 .. i - 1 : ~ Runnable(thread_queue[j])

yield_self ==
  /\ At("yield")
  /\ want[current_thread] \in {THREAD_SELF, current_thread}
  /\ YieldReturns(current_thread, thread_queue)

yield_any ==
  /\ At("yield")
  /\ want[current_thread] = THREAD_ANY
  /\ \E i \in 1 .. Len(thread_queue) :
     /\ Picks(i)
     /\ SwitchTo(thread_queue[i], SubSeq(thread_queue, i + 1, Len(thread_queue)))

yield_none ==
  /\ At("yield")
  /\ want[current_thread] = THREAD_ANY
  /\ \A i \in 1 .. Len(thread_queue) : ~ Runnable(thread_queue[i])
  /\ YieldReturns(THREAD_NONE, <<>>)

(* A thread that is asleep is a valid target. *)
Available(t) == t \in Tids /\ state[t] # "Destroyed"

yield_to ==
  /\ At("yield")
  /\ Available(want[current_thread])
  /\ want[current_thread] # current_thread
  /\ SwitchTo(want[current_thread], thread_queue)

yield_invalid ==
  /\ At("yield")
  /\ want[current_thread] \notin {THREAD_SELF, THREAD_ANY, current_thread}
  /\ ~ Available(want[current_thread])
  /\ YieldReturns(THREAD_INVALID, thread_queue)

(* The saved context goes on: switched is true. *)
resumed ==
  /\ At("resumed")
  /\ ~ administrative_mode
  /\ Answer(want[current_thread])
  /\ Goto(back[current_thread])
  /\ UNCHANGED <<table, thread_queue, current_thread, admin, intr, on_stack,
                 status, ctx, sig, tid, want, back, stacks, history>>

(* admin_mode(): thread_kill(thread_id()) on the stack of thread 0. *)
admin_mode ==
  /\ At("resumed")
  /\ administrative_mode
  /\ tid' = [tid EXCEPT ![current_thread] = current_thread]
  /\ back' = [back EXCEPT ![current_thread] = "admin"]
  /\ Goto("kill")
  /\ UNCHANGED <<table, thread_queue, current_thread, admin, intr, on_stack,
                 status, ctx, sig, want, ret, stacks, history>>

admin_next ==
  /\ At("admin")
  /\ administrative_mode' = FALSE
  /\ thread_to_destroy' = -1
  /\ want' = [want EXCEPT ![current_thread] = THREAD_ANY]
  /\ back' = [back EXCEPT ![current_thread] = "admin_none"]
  /\ Goto("yield")
  /\ UNCHANGED <<table, thread_queue, current_thread, intr, on_stack, status,
                 ctx, sig, tid, ret, stacks, history>>

(* exit(0) on THREAD_NONE, assert(false) on anything else. *)
admin_none ==
  /\ At("admin_none")
  /\ Stop(IF ret[current_thread] = THREAD_NONE THEN "exited" ELSE "aborted")

------------------------------------------------------------------------------
kill_call ==
  /\ At("user")
  /\ \E t \in Call("kill") : tid' = [tid EXCEPT ![current_thread] = t]
  /\ back' = [back EXCEPT ![current_thread] = "killed"]
  /\ Enter("kill")
  /\ UNCHANGED <<table, thread_queue, current_thread, admin, on_stack, status,
                 ctx, want, ret, stacks, history>>

(* The thread may be killed: it is another thread, or the caller is on its *)
(* way out.                                                                *)
MayDie(t) == Available(t) /\ (t # current_thread \/ administrative_mode)

thread_kill ==
  /\ At("kill")
  /\ MayDie(tid[current_thread])
  /\ stacks' = stacks \ {tid[current_thread]}
  /\ administrative_mode' = FALSE
  /\ Goto("death")
  /\ UNCHANGED <<table, thread_queue, current_thread, thread_to_destroy, intr,
                 on_stack, status, ctx, locals, history>>

kill_invalid ==
  /\ At("kill")
  /\ ~ MayDie(tid[current_thread])
  /\ Answer(THREAD_INVALID)
  /\ Goto(IF administrative_mode THEN "admin" ELSE "return")
  /\ UNCHANGED <<table, thread_queue, current_thread, admin, intr, on_stack,
                 status, ctx, sig, tid, want, back, stacks, history>>

killed ==
  /\ At("killed")
  /\ Answer(tid[current_thread])
  /\ Goto("return")
  /\ UNCHANGED <<table, thread_queue, current_thread, admin, intr, on_stack,
                 status, ctx, sig, tid, want, back, stacks, history>>

(* handle_death(tid): a waiter that is asleep becomes runnable and is      *)
(* yielded to; that thread_yield returns to the caller of handle_death.    *)
Wakes(w) == w # -1 /\ state[w] = "Sleep"

handle_death ==
  /\ At("death")
  /\ LET dying == tid[current_thread]
         w == waiter[dying] IN
     \/ /\ Wakes(w)
        /\ state' = [state EXCEPT ![dying] = "Destroyed", ![w] = "Running"]
        /\ want' = [want EXCEPT ![current_thread] = w]
        /\ Goto("yield")
     \/ /\ w # -1 => state[w] = "Destroyed"
        /\ state' = [state EXCEPT ![dying] = "Destroyed"]
        /\ Goto(back[current_thread])
        /\ UNCHANGED want
  /\ UNCHANGED <<waiter, exit_code, thread_queue, current_thread, admin, intr,
                 on_stack, status, ctx, sig, tid, back, ret, stacks, history>>

(* assert(threads[waiter].state != Running) *)
assert_waiter ==
  /\ At("death")
  /\ waiter[tid[current_thread]] # -1
  /\ state[waiter[tid[current_thread]]] = "Running"
  /\ Stop("aborted")

------------------------------------------------------------------------------
(* thread_exit by a thread other than the first: it jumps into the context *)
(* that thread 0 saved when it last gave up the processor.                 *)
thread_exit ==
  /\ At("user") /\ intr /\ current_thread # 0
  /\ \E code \in Call("exit") :
       exit_code' = [exit_code EXCEPT ![current_thread] = code]
  /\ thread_to_destroy' = current_thread
  /\ administrative_mode' = TRUE
  /\ Enter(pc[0])
  /\ on_stack' = ctx[0]
  /\ UNCHANGED <<state, waiter, thread_queue, current_thread, status, ctx, tid,
                 want, back, ret, stacks, history>>

(* thread_exit by the first thread. *)
exit_main ==
  /\ At("user") /\ intr /\ current_thread = 0
  /\ \E code \in Call("exit") :
       exit_code' = [exit_code EXCEPT ![current_thread] = code]
  /\ tid' = [tid EXCEPT ![current_thread] = current_thread]
  /\ back' = [back EXCEPT ![current_thread] = "exit"]
  /\ Enter("death")
  /\ UNCHANGED <<state, waiter, thread_queue, current_thread, admin, on_stack,
                 status, ctx, want, ret, stacks, history>>

exit_next ==
  /\ At("exit")
  /\ want' = [want EXCEPT ![current_thread] = THREAD_ANY]
  /\ back' = [back EXCEPT ![current_thread] = "exit_none"]
  /\ Goto("yield")
  /\ UNCHANGED <<table, thread_queue, current_thread, admin, intr, on_stack,
                 status, ctx, sig, tid, ret, stacks, history>>

(* No other thread can run: the first thread goes on to load its own saved *)
(* context, whose frame on its stack is gone, if it was ever saved at all. *)
exit_none ==
  /\ At("exit_none")
  /\ Stop("undefined")

------------------------------------------------------------------------------
wait_call(t) == At("user") /\ intr /\ t \in Call("wait")

(* The target is not a thread, was killed, is the caller or has a waiter. *)
WaitRefused(t) ==
  \/ t \notin Tids
  \/ state[t] = "Destroyed" /\ exit_code[t] = KILLED
  \/ t = current_thread
  \/ state[t] # "Destroyed" /\ waiter[t] # -1

wait_invalid(t) ==
  /\ wait_call(t)
  /\ WaitRefused(t)
  /\ Enter("return")
  /\ Answer(THREAD_INVALID)
  /\ UNCHANGED <<table, thread_queue, current_thread, admin, on_stack, status,
                 ctx, tid, want, back, stacks, history>>

(* The target has exited: its exit code is read at once. *)
wait_exited(t) ==
  /\ wait_call(t)
  /\ ~ WaitRefused(t)
  /\ state[t] = "Destroyed"
  /\ tid' = [tid EXCEPT ![current_thread] = t]
  /\ Enter("waited")
  /\ UNCHANGED <<table, thread_queue, current_thread, admin, on_stack, status,
                 ctx, want, back, ret, stacks, history>>

wait_sleep(t) ==
  /\ wait_call(t)
  /\ ~ WaitRefused(t)
  /\ state[t] # "Destroyed"
  /\ waiter' = [waiter EXCEPT ![t] = current_thread]
  /\ state' = [state EXCEPT ![current_thread] = "Sleep"]
  /\ tid' = [tid EXCEPT ![current_thread] = t]
  /\ want' = [want EXCEPT ![current_thread] = THREAD_ANY]
  /\ back' = [back EXCEPT ![current_thread] = "waited"]
  /\ Enter("yield")
  /\ UNCHANGED <<exit_code, thread_queue, current_thread, admin, on_stack,
                 status, ctx, ret, stacks, history>>

(* *exit_code = threads[tid].exit_code; the result of thread_yield is not  *)
(* looked at.                                                              *)
waited ==
  /\ At("waited")
  /\ Answer(tid[current_thread])
  /\ Goto("return")
  /\ UNCHANGED <<table, thread_queue, current_thread, admin, intr, on_stack,
                 status, ctx, sig, tid, want, back, stacks, history>>

thread_wait == \E t \in Call("wait") : wait_invalid(t) \/ wait_exited(t) \/ wait_sleep(t)

------------------------------------------------------------------------------
(* The process has ended. *)
Ended == status # "running" /\ UNCHANGED schedVars

Yielding == yield_self \/ yield_any \/ yield_none \/ yield_to \/ yield_invalid
Library ==
  \/ Return \/ sigreturn \/ thread_stub \/ Yielding \/ resumed
  \/ admin_mode \/ admin_next \/ admin_none
  \/ thread_kill \/ kill_invalid \/ killed \/ handle_death \/ assert_waiter
  \/ exit_next \/ exit_none \/ waited
User ==
  \/ Mask \/ thread_create \/ create_no_memory \/ assert_interrupts
  \/ yield_call \/ kill_call \/ thread_exit \/ exit_main \/ thread_wait

Next == Library \/ User \/ interrupt_handler \/ Ended

Spec == Init /\ [][Next]_schedVars

(* Library code runs to its end.  The timer is armed again by each handler *)
(* and a signal that arrives while it is blocked is delivered when it is   *)
(* unblocked, so a thread that is in user code with the signal unblocked   *)
(* again and again is interrupted.  User code need not ever make a call.   *)
Fairness == WF_schedVars(Library) /\ SF_schedVars(interrupt_handler)
FairSpec == Spec /\ Fairness

------------------------------------------------------------------------------
ReturnLabels == OwnReturns \cup OuterLabels
Labels == ReturnLabels \cup OwnLabels

(* The types of the state of thread.c and of its calls; the ready queue    *)
(* never holds more than its array.                                        *)
TypeOK ==
  /\ state \in [Tids -> {"Destroyed", "Running", "Sleep"}]
  /\ waiter \in [Tids -> Tids \cup {-1}]
  /\ exit_code \in [Tids -> Int]
  /\ thread_queue \in Seq(Tids) /\ Len(thread_queue) <= QCap
  /\ current_thread \in Tids
  /\ thread_to_destroy \in Tids \cup {-1}
  /\ administrative_mode \in BOOLEAN
  /\ intr \in BOOLEAN
  /\ on_stack \in Tids
  /\ status \in {"running", "exited", "failed", "aborted", "undefined"}
  /\ pc \in [Tids -> Labels]
  /\ ctx \in [Tids -> Tids]
  /\ sig \in [Tids -> BOOLEAN]
  /\ tid \in [Tids -> Int] /\ want \in [Tids -> Int] /\ ret \in [Tids -> Int]
  /\ back \in [Tids -> ReturnLabels]
  /\ stacks \subseteq Tids
  /\ masked \subseteq Tids
  /\ refused \subseteq Tids
  /\ overflowed \in BOOLEAN

------------------------------------------------------------------------------
(* What holds whatever the program calls.                                  *)

(* A thread that does not have the processor is to be resumed inside       *)
(* thread_yield or to be started, and thread 0 can only be resumed: its    *)
(* context is there for every thread that exits.  What handle_death takes  *)
(* for a thread is one.                                                    *)
DispatchOK ==
  /\ \A t \in Tids \ {current_thread} :
       pc[t] \in IF t = 0 THEN {"resumed"} ELSE {"none", "stub", "resumed"}
  /\ pc[current_thread] = "death" => tid[current_thread] \in Tids

Alive(t) == state[t] # "Destroyed"
LiveReturns == {"return", "handler", "killed", "waited"} \cup OuterLabels

(* A thread that is alive and does not have the processor was switched out *)
(* on its own stack, in a call that returns to live code.                  *)
SuspendedOK ==
  \A t \in Tids \ {current_thread} :
    /\ Alive(t) => pc[t] # "none" /\ back[t] \in LiveReturns
    /\ pc[t] = "stub" => back[t] = "return"
    /\ Alive(t) \/ t = 0 => ctx[t] = t

(* administrative_mode is set only between the thread_exit of a thread and *)
(* thread_kill of that thread, both on the stack of thread 0.              *)
AdminOK ==
  administrative_mode =>
    /\ thread_to_destroy = current_thread /\ current_thread # 0
    /\ Alive(current_thread) /\ on_stack = 0
    /\ pc[current_thread] \in {"resumed", "kill"}
    /\ pc[current_thread] = "kill" =>
         tid[current_thread] = current_thread /\ back[current_thread] = "admin"

(* The thread that has the processor is alive and on its own stack, unless *)
(* it is exiting; what a dead one still does is look for a thread to run.  *)
OnOwnStack(t) == Alive(t) /\ on_stack = t
Dismantled(t) == ~ Alive(t) /\ on_stack = 0
PathOK ==
  LET c == current_thread IN
  /\ pc[c] # "none"
  /\ pc[c] \in LiveReturns \cup {"stub", "user"} => OnOwnStack(c)
  /\ pc[c] \in {"stub", "user"} => back[c] = "return"
  /\ pc[c] = "resumed" /\ ~ administrative_mode => OnOwnStack(c) /\ back[c] \in LiveReturns
  /\ pc[c] = "kill" /\ ~ administrative_mode => OnOwnStack(c) /\ back[c] = "killed"
  /\ pc[c] = "death" =>
       /\ Alive(c) /\ Alive(tid[c])
       /\ \/ back[c] = "killed" /\ tid[c] # c /\ on_stack = c
          \/ back[c] = "admin" /\ tid[c] = c /\ c # 0 /\ on_stack = 0
          \/ back[c] = "exit" /\ tid[c] = c /\ c = 0 /\ on_stack = 0
  /\ pc[c] = "yield" =>
       \/ OnOwnStack(c) /\ back[c] \in LiveReturns
       \/ /\ Dismantled(c) /\ back[c] = (IF c = 0 THEN "exit" ELSE "admin")
          /\ want[c] # c /\ want[c] \in Tids /\ state[want[c]] = "Running"
       \/ /\ Dismantled(c) /\ back[c] = (IF c = 0 THEN "exit_none" ELSE "admin_none")
          /\ want[c] = THREAD_ANY
  /\ pc[c] \in {"admin", "admin_none"} => Dismantled(c) /\ c # 0
  /\ pc[c] \in {"exit", "exit_none"} => Dismantled(c) /\ c = 0
  /\ pc[c] = "admin_none" => ret[c] = THREAD_NONE

(* No thread waits for itself. *)
WaiterOK == \A t \in Tids : waiter[t] # t

(* How control passes between threads, through exits and deaths. *)
ControlOK == DispatchOK /\ SuspendedOK /\ AdminOK /\ PathOK /\ WaiterOK

Queued(t) == \E i \in 1 .. Len(thread_queue) : thread_queue[i] = t
YieldingTo(t) == pc[current_thread] = "yield" /\ want[current_thread] = t

(* No runnable thread is lost: it has an entry in the ready queue, or the  *)
(* thread_yield that is being executed will switch to it, or a full queue  *)
(* turned it away.  Entries are taken and stale ones thrown away by every  *)
(* thread_yield, and a thread woken by handle_death is not queued at all.  *)
NoLostThread ==
  \A t \in Tids : state[t] = "Running" /\ t # current_thread =>
    Queued(t) \/ t \in refused \/ YieldingTo(t)

(* Every thread asleep in thread_wait is the waiter of a thread that is    *)
(* still alive, whose death will wake it, also when threads are killed and *)
(* their identifiers reused.                                               *)
SleeperHasWaker ==
  \A t \in Tids : state[t] = "Sleep" =>
    \E u \in Tids : state[u] # "Destroyed" /\ waiter[u] = t

(* The processor never runs on a freed stack, although thread_kill frees   *)
(* the stack of the thread that is exiting; and a stack is allocated for   *)
(* exactly the threads that live, so none is freed twice or leaked.        *)
StackLifetime ==
  /\ on_stack = 0 \/ on_stack \in stacks
  /\ \A t \in Tids \ {0} :
       t \in stacks <=> /\ state[t] # "Destroyed"
                        /\ ~ (pc[current_thread] = "death" /\ tid[current_thread] = t)

(* A thread that has exited or was killed runs no user code: what is still *)
(* executed in its name looks for the next thread.                         *)
DeadNeverRuns ==
  status = "running" /\ state[current_thread] = "Destroyed" =>
    pc[current_thread] \in {"yield", "admin", "admin_none", "exit", "exit_none"}

(* Across every call and switch, user code finds the signal blocked if it  *)
(* blocked it itself, and unblocked otherwise; library code never runs     *)
(* with the signal unblocked.                                              *)
MaskPreserved ==
  status = "running" =>
    IF pc[current_thread] = "user" THEN intr <=> current_thread \notin masked
                                   ELSE ~ intr

(* thread_exit ends the process, from whichever thread it is called, only  *)
(* when no other thread could run.                                         *)
ExitOnlyWhenNoneRunnable ==
  status = "exited" => \A t \in Tids : state[t] = "Running" => t \in refused

(* The assertions on the way of an exiting thread: thread_yield resumes    *)
(* thread 0's context in administrative mode only for the thread that is   *)
(* exiting (342), which is not thread 0 (285) and is dead when the next    *)
(* thread is looked for (287); a dead thread is never switched to (294).   *)
Assertions ==
  /\ At("resumed") /\ administrative_mode => current_thread = thread_to_destroy
  /\ At("admin") => current_thread # 0 /\ state[current_thread] = "Destroyed"
  /\ At("admin_none") => ret[current_thread] = THREAD_NONE

------------------------------------------------------------------------------
(* What holds for a program that waits without cycles, kills no thread     *)
(* that may wait, yields to none by name, and leaves the signal alone.     *)
Waiters == {c[1] : c \in {d \in Calls : d[2] = "wait"}}

TidyProgram ==
  /\ \A c \in Calls : c[2] # "mask"
  /\ \A c \in Calls : c[2] \in {"kill", "yield"} => c[3] \notin Waiters
  /\ \E rank \in [Tids -> Tids] :
       \A c \in Calls : c[2] = "wait" /\ c[3] \in Tids => rank[c[1]] < rank[c[3]]

(* thread_wait goes on only after its target has died, as long as the      *)
(* ready queue has never been full.                                        *)
WaitSeesDeath ==
  At("waited") /\ ~ overflowed => state[tid[current_thread]] = "Destroyed"

(* No assertion fails: a waiter still sleeps when its target dies.         *)
NoAbort == ~ overflowed => status # "aborted"

(* Thread w is in thread_wait, past its checks and not yet past the exit   *)
(* code of its target tid[w].                                              *)
InWait(w) ==
  /\ Alive(w)
  /\ pc[w] = "waited" \/ (back[w] = "waited" /\ pc[w] \in {"yield", "resumed"})

(* The waiter field of a live thread names a thread that is in thread_wait *)
(* for it: no thread_wait is refused on behalf of a waiter that is gone,   *)
(* although the field is never cleared.  With SleeperHasWaker, a thread    *)
(* has a waiter asleep exactly when its field says so.                     *)
WaiterStillWaits ==
  ~ overflowed =>
    \A t \in Tids : Alive(t) /\ waiter[t] # -1 => InWait(waiter[t]) /\ tid[waiter[t]] = t

(* A thread in thread_wait sleeps as long as its target lives, and when    *)
(* the target has died it is the next to have the processor: nothing is    *)
(* created under the identifier of the target before its code is read.     *)
WaitsOn(w, t) ==
  /\ t \in Tids /\ <<w, "wait", t>> \in Calls
  /\ Alive(t) =>
       /\ state[w] = "Sleep" /\ waiter[t] = w
       /\ w = current_thread => pc[w] = "yield" /\ want[w] = THREAD_ANY
  /\ ~ Alive(t) =>
       /\ state[w] = "Running"
       /\ IF w = current_thread THEN pc[w] \in {"resumed", "waited"} ELSE YieldingTo(w)

(* What disturbs no wait: an exit is none, and neither a thread_yield nor  *)
(* a thread_kill of the program is aimed at a thread that waits.           *)
LeavesWaits ==
  LET c == current_thread IN
  /\ administrative_mode => ~ InWait(c)
  /\ pc[c] = "yield" /\ want[c] \in Tids \ {c} => state[want[c]] # "Sleep"
  /\ pc[c] \in {"kill", "death"} /\ back[c] = "killed" => tid[c] \notin Waiters

WaitOK ==
  ~ overflowed =>
    /\ refused = {}
    /\ \A w \in Tids : InWait(w) => WaitsOn(w, tid[w])
    /\ \A w \in Tids : state[w] = "Sleep" => InWait(w) /\ Alive(tid[w])
    /\ LeavesWaits

(* A thread that waits for a dead thread gets its answer: the death of the *)
(* target makes it runnable, and it does run.                              *)
JoinReturns ==
  \A w \in Tids :
    InWait(w) /\ state[tid[w]] = "Destroyed" ~> ~ InWait(w) \/ status # "running"

(* With preemption, a runnable thread runs again: no thread can keep the   *)
(* processor, and none is overtaken for ever in the ready queue.           *)
NoStarvation ==
  \A t \in Tids : state[t] = "Running" ~>
    current_thread = t \/ state[t] # "Running" \/ t \in refused \/ status # "running"

------------------------------------------------------------------------------
(* What the header and the assertions say, and some program refutes.       *)

(* thread.h:67 "The calling thread is put in the ready queue"; a created   *)
(* thread is put there too.                                                *)
EveryRunnableQueued ==
  \A t \in Tids : state[t] = "Running" /\ t # current_thread =>
    Queued(t) \/ YieldingTo(t)

(* thread.h:154 "Suspend the current thread until the target thread ...    *)
(* exits".                                                                 *)
SuspendedUntilExit ==
  At("waited") => state[tid[current_thread]] = "Destroyed"

(* thread.c:372 assert(threads[waiter].state != Running).                  *)
WaiterNotRunning ==
  At("death") => \A w \in Tids : waiter[tid[current_thread]] = w => state[w] # "Running"

(* thread.h:90 "If there are no other threads (i.e., this is the last      *)
(* thread invoking thread_exit), then the process should exit".            *)
ExitEndsProcess == status # "undefined"
==============================================================================
