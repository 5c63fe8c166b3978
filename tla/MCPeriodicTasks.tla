--------------------------- MODULE MCPeriodicTasks ---------------------------
(* Values for the constants of PeriodicTasks: one task whose interval is      *)
(* changed while it runs, and two that share the scheduler and the worker.    *)
EXTENDS PeriodicTasks

Scenario(tasks, intervals, late) ==
  [tasks |-> tasks, intervals |-> intervals, timeouts |-> late]

\* Late answers to GetMessages are read by the next job of the task or by another one.
MCScenarios ==
  {Scenario({"GetMessages"}, {1, 2}, 1), Scenario({"GetNotices"}, {1, 2}, 0),
   Scenario({"GetMessages", "GetStatistics"}, {1}, 1),
   Scenario({"GetMessages", "GetTasks"}, {2}, 0)}
=============================================================================
