------------------------------- MODULE MCSync -------------------------------
(* Small instances of Sync: what the threads of a program may call. *)
EXTENDS Sync

CONSTANTS mutex, cond, queue      (* one object of each kind *)

Use(t, op, o) == [thread |-> t, op |-> op, object |-> o, lock |-> None]
With(t, op, o) == [thread |-> t, op |-> op, object |-> o, lock |-> mutex]

(* Threads 0 and 1 in any order of calls; thread 0 creates and kills       *)
(* thread 1 and yields to it by name, asleep or not.                       *)
WildThreads == {<<0, "create", 0>>, <<0, "kill", 1>>, <<0, "yield", 1>>, <<1, "exit", 3>>}
WildSync ==
  {With(t, op, None) : t \in {0, 1}, op \in {"acquire", "release"}} \cup
  {Use(t, "destroy", mutex) : t \in {0, 1}} \cup
  {Use(0, "make", mutex), Use(0, "destroy", cond), Use(1, "sleep", queue),
   Use(0, "sleep", None), Use(0, "wakeup", queue), Use(0, "wakeup_all", queue),
   With(1, "wait", cond), With(0, "signal", cond)}

(* Three threads that keep to the rules, with one lock, one condition      *)
(* variable and one wait queue; nobody is killed.                          *)
TidyThreads == {<<0, "create", 0>>}
TidySync ==
  {With(t, op, None) : t \in Tids, op \in {"acquire", "release"}} \cup
  {With(0, "wait", cond), With(1, "wait", cond), With(2, "signal", cond),
   With(1, "broadcast", cond), Use(2, "sleep", queue), Use(0, "wakeup", queue)}

(* A thread asleep on a queue is killed and its identifier used again. *)
KillASleeper == {<<0, "create", 0>>, <<0, "yield", -1>>, <<0, "kill", 1>>, <<1, "yield", -1>>}
SleepAndWakeup == {Use(1, "sleep", queue), Use(0, "wakeup", queue)}
==============================================================================
