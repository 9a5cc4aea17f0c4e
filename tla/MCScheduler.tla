----------------------------- MODULE MCScheduler -----------------------------
(* Instances of Scheduler for TLC: two tasks of different intervals, one of  *)
(* them guarded like the PTY poll.                                           *)
EXTENDS Scheduler

MCNames    == {"repl-poll", "ipc"}
MCInterval == [n \in MCNames |-> IF n = "ipc" THEN 2 ELSE 1]
MCGuarded  == {"repl-poll"}
==============================================================================
