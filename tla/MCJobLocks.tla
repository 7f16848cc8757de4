----------------------------- MODULE MCJobLocks -----------------------------
(***************************************************************************)
(* JobLocks with two processes that run main.py and one API process with   *)
(* two threads.  quarter_hour and monthly need a lock name each, as every  *)
(* job of the table does; "wide" needs both, as locked_job("a", "b")       *)
(* allows.                                                                 *)
(***************************************************************************)
EXTENDS JobLocks

CONSTANTS runner1, runner2, api

SomeTasks == {<<runner1, 1>>, <<runner2, 1>>, <<api, 1>>, <<api, 2>>}
TheProcess == [t \in SomeTasks |-> t[1]]

SomeLockNames ==
  [j \in {"quarter_hour", "monthly", "wide"} |->
     CASE j = "quarter_hour" -> {1}
       [] j = "monthly"      -> {2}
       [] j = "wide"         -> {1, 2}]
=============================================================================
