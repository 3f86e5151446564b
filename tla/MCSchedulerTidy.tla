--------------------------- MODULE MCSchedulerTidy ---------------------------
(* The instance Tidy of Scheduler meets the hypothesis of JoinProofs.      *)
EXTENDS MCScheduler, SchedulerKept

ASSUME TidyInstance == TidyProgram
==============================================================================
