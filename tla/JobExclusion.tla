---------------------------- MODULE JobExclusion ----------------------------
(***************************************************************************)
(* What the locks of core/scheduler/scheduler.py promise, whatever takes   *)
(* and releases them: a body of a job runs only while no other running     *)
(* body needs a lock of the same name.  Bodies end one at a time, or many  *)
(* at once when a process is killed.                                       *)
(***************************************************************************)
CONSTANTS
  Task,      \* threads that can run a job, in all processes
  Job,       \* what can be scheduled or triggered
  LockNames, \* the lock names of every job
  NoJob      \* no job

VARIABLE running  \* the job whose body each task runs, if any

Init == running = [t \in Task |-> NoJob]

Compatible(j, k) == LockNames[j] \cap LockNames[k] = {}

Begin(t, j) ==
  /\ running[t] = NoJob
  /\ \A u \in Task : running[u] # NoJob => Compatible(j, running[u])
  /\ running' = [running EXCEPT ![t] = j]

End(tasks) ==
  running' = [t \in Task |-> IF t \in tasks THEN NoJob ELSE running[t]]

Next ==
  \/ \E t \in Task, j \in Job : Begin(t, j)
  \/ \E tasks \in SUBSET Task : End(tasks)

Spec == Init /\ [][Next]_running
=============================================================================
