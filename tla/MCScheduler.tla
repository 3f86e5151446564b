---------------------------- MODULE MCScheduler ----------------------------
(* Small instances of Scheduler: what the threads of a program may call.   *)
EXTENDS Scheduler

NoNeed == 0     (* the argument of an operation that has none *)
ANY == -1
SELF == -2

(* Every thread may yield to any thread and exit. *)
Common == {<<t, "yield", ANY>> : t \in Tids} \cup {<<t, "exit", 3>> : t \in Tids}

(* Calls in any order: waits in a cycle, a thread killed while it waits or *)
(* is waited for, thread 0 killed, yields to sleeping, dead and impossible *)
(* threads, calls with the signal blocked.                                 *)
Wild == Common \cup
  {<<0, "create", NoNeed>>, <<1, "mask", NoNeed>>,
   <<0, "yield", 1>>, <<2, "yield", SELF>>, <<2, "yield", 3>>,
   <<1, "kill", 2>>, <<2, "kill", 1>>, <<2, "kill", 0>>, <<0, "kill", 0>>,
   <<0, "wait", 1>>, <<1, "wait", 2>>, <<2, "wait", 1>>}

(* Waits only for threads with a larger number; thread 2 alone is killed,  *)
(* and it never waits.                                                     *)
Tidy == Common \cup
  {<<0, "create", NoNeed>>, <<1, "create", NoNeed>>,
   <<0, "kill", 2>>, <<1, "kill", 2>>, <<2, "kill", 7>>,
   <<0, "wait", 1>>, <<0, "wait", 2>>, <<1, "wait", 2>>}

(* Two threads that hand the processor to each other, and a third. *)
PingPong == Common \cup
  {<<0, "create", NoNeed>>, <<0, "yield", SELF>>, <<0, "wait", 1>>,
   <<1, "yield", 2>>, <<2, "yield", 1>>, <<0, "kill", 2>>}

(* Thread 0 creates a child and waits for it, over and over; a second      *)
(* child waits for thread 0.                                               *)
CreateAndJoin ==
  {<<0, "create", NoNeed>>, <<0, "wait", 1>>, <<1, "exit", 3>>, <<2, "wait", 0>>}

(* Two threads wait for each other. *)
WaitForEachOther ==
  {<<0, "create", NoNeed>>, <<0, "wait", 1>>, <<1, "wait", 0>>, <<0, "exit", 3>>, <<1, "exit", 3>>}

(* A waiting thread is killed and its identifier used again. *)
KillAWaiter == Common \cup
  {<<0, "create", NoNeed>>, <<0, "kill", 1>>, <<1, "wait", 2>>}

(* Thread 0 exits, and nobody else is there. *)
ExitLast == Common \cup {<<0, "create", NoNeed>>}
==============================================================================
