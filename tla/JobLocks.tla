------------------------------ MODULE JobLocks ------------------------------
(***************************************************************************)
(* The job locks of core/scheduler/scheduler.py.  A job runs in a thread   *)
(* of the scheduler process (main.py, wrapped by locked_job) or of an API  *)
(* process (trigger_manual_job and its worker thread).  For every lock     *)
(* name of the job, in sorted order, it tries the thread lock of its       *)
(* process and then the lock of the lock file; the first one it does not   *)
(* get makes it give back what it has and give up.                         *)
(*                                                                         *)
(* Any process can be killed: its file locks are then freed by the system  *)
(* and its thread locks are gone.  An operation on a lock file can raise,  *)
(* and the heartbeat loop of the scheduler can raise while jobs run.       *)
(***************************************************************************)
EXTENDS Integers

CONSTANTS
  Runner,      \* processes that run main.py
  Server,      \* API processes
  Task,        \* threads that can run a job, in all processes
  ProcessOf,   \* the process of every task
  Job,         \* scheduled jobs and internal steps
  Scheduled,   \* the scheduled ones
  NameCount,   \* number of lock names
  LockNames,   \* the lock names of every job
  Free, NoJob, Nobody,  \* no process, no job, no task
  MaxCrashes,  \* bound: processes killed, and heartbeat loops that raise
  MaxErrors    \* bound: operations on a lock file that raise

Process == Runner \cup Server

\* Lock names are numbered in their sorted order.
Name == 1 .. NameCount

ASSUME LocksAssumption ==
  /\ NameCount \in Nat
  /\ ProcessOf \in [Task -> Process]
  /\ Scheduled \subseteq Job
  /\ LockNames \in [Job -> SUBSET Name]
  /\ \A j \in Job : LockNames[j] # {}
  /\ Free \notin Process /\ NoJob \notin Job /\ Nobody \notin Task
  /\ MaxCrashes \in Nat /\ MaxErrors \in Nat

VARIABLES
  mode,           \* what every process does
  schedulerLock,  \* the process that holds the "scheduler_process" lock
  threadLock,     \* per process: names whose threading.Lock is locked
  fileLock,       \* per name: the process that holds the lock file, if any
  pc,             \* what every task does next
  job,            \* the job of every task
  threads,        \* names whose thread lock the task has taken
  files,          \* names whose lock file the task has locked
  defeatedBy,     \* history: the task that held the name a task gave up on
  crashes,        \* processes killed so far
  errors          \* operations on lock files that have raised so far

locks == <<threadLock, fileLock, threads, files>>
vars == <<mode, schedulerLock, locks, pc, job, defeatedBy, crashes, errors>>

Mode == {"down", "up", "stopping", "draining"}
Phase == {"idle", "thread", "file", "start", "run", "release"}

Init ==
  /\ mode = [p \in Process |-> "down"]
  /\ schedulerLock = Free
  /\ threadLock = [p \in Process |-> {}]
  /\ fileLock = [n \in Name |-> Free]
  /\ pc = [t \in Task |-> "idle"]
  /\ job = [t \in Task |-> NoJob]
  /\ threads = [t \in Task |-> {}]
  /\ files = [t \in Task |-> {}]
  /\ defeatedBy = [t \in Task |-> Nobody]
  /\ crashes = 0
  /\ errors = 0

-----------------------------------------------------------------------------
(***************************************************************************)
(* Processes.                                                              *)
(***************************************************************************)
\* main_scheduler returns at once when another process has its lock.
StartScheduler(p) ==
  /\ mode[p] = "down"
  /\ schedulerLock = Free
  /\ schedulerLock' = p
  /\ mode' = [mode EXCEPT ![p] = "up"]
  /\ UNCHANGED <<locks, pc, job, defeatedBy, crashes, errors>>

StartServer(p) ==
  /\ mode[p] = "down"
  /\ mode' = [mode EXCEPT ![p] = "up"]
  /\ UNCHANGED <<schedulerLock, locks, pc, job, defeatedBy, crashes, errors>>

\* An interrupt stops the dispatch; shutdown() waits for the running jobs.
Interrupt(p) ==
  /\ mode[p] = "up"
  /\ mode' = [mode EXCEPT ![p] = "stopping"]
  /\ UNCHANGED <<schedulerLock, locks, pc, job, defeatedBy, crashes, errors>>

\* The heartbeat loop raises: the finally clause releases the scheduler's lock
\* although the interpreter still waits for the threads that run jobs.
LoopFails(p) ==
  /\ mode[p] = "up"
  /\ crashes < MaxCrashes
  /\ crashes' = crashes + 1
  /\ mode' = [mode EXCEPT ![p] = "draining"]
  /\ schedulerLock' = Free
  /\ UNCHANGED <<locks, pc, job, defeatedBy, errors>>

\* What the end of a process leaves of its locks and its tasks.
TasksOf(p) == {t \in Task : ProcessOf[t] = p}

Vanish(p) ==
  /\ mode' = [mode EXCEPT ![p] = "down"]
  /\ schedulerLock' = IF schedulerLock = p THEN Free ELSE schedulerLock
  /\ threadLock' = [threadLock EXCEPT ![p] = {}]
  /\ fileLock' = [n \in Name |-> IF fileLock[n] = p THEN Free ELSE fileLock[n]]
  /\ pc' = [t \in Task |-> IF t \in TasksOf(p) THEN "idle" ELSE pc[t]]
  /\ job' = [t \in Task |-> IF t \in TasksOf(p) THEN NoJob ELSE job[t]]
  /\ threads' = [t \in Task |-> IF t \in TasksOf(p) THEN {} ELSE threads[t]]
  /\ files' = [t \in Task |-> IF t \in TasksOf(p) THEN {} ELSE files[t]]
  /\ defeatedBy' = [t \in Task |-> IF {t, defeatedBy[t]} \cap TasksOf(p) # {}
                                   THEN Nobody ELSE defeatedBy[t]]
  /\ errors' = errors

\* The scheduler process ends when its last job has ended.
Exit(p) ==
  /\ mode[p] \in {"stopping", "draining"}
  /\ \A t \in TasksOf(p) : pc[t] = "idle"
  /\ Vanish(p)
  /\ crashes' = crashes

Crash(p) ==
  /\ mode[p] # "down"
  /\ crashes < MaxCrashes
  /\ crashes' = crashes + 1
  /\ Vanish(p)

-----------------------------------------------------------------------------
(***************************************************************************)
(* Tasks.                                                                  *)
(***************************************************************************)
\* APScheduler dispatches a job unless an instance of it still runs
\* (max_instances = 1), and may still do so until the interpreter stops its
\* thread pool; an API process accepts any job at any time.
Dispatched(t, j) ==
  /\ ProcessOf[t] \in Runner
  /\ j \in Scheduled
  /\ \A u \in TasksOf(ProcessOf[t]) : job[u] # j

Requested(t, j) == ProcessOf[t] \in Server

Begin(t, j) ==
  /\ pc[t] = "idle"
  /\ mode[ProcessOf[t]] \in {"up", "draining"}
  /\ Dispatched(t, j) \/ Requested(t, j)
  /\ pc' = [pc EXCEPT ![t] = "thread"]
  /\ job' = [job EXCEPT ![t] = j]
  /\ UNCHANGED <<mode, schedulerLock, locks, defeatedBy, crashes, errors>>

\* Mutant: names are tried in no fixed order, from the last in one process.
AnyOrder(t) ==
  CHOOSE n \in LockNames[job[t]] \ files[t] :
    \A m \in LockNames[job[t]] \ files[t] :
      IF ProcessOf[t] \in Runner THEN n >= m ELSE n <= m

\* The name the task tries next: names are tried in sorted order.
NextName(t) ==
  CHOOSE n \in LockNames[job[t]] \ files[t] :
    \A m \in LockNames[job[t]] \ files[t] : n <= m

\* The last of the names, which is released first.
Last(names) == CHOOSE n \in names : \A m \in names : m <= n

\* A task that ends is no longer the reason for anybody to give up.
Forgotten(t) ==
  [u \in Task |-> IF t \in {u, defeatedBy[u]} THEN Nobody ELSE defeatedBy[u]]

\* The task that has the lock a task has just failed to get.
Owner(owners) == IF owners = {} THEN Nobody ELSE CHOOSE u \in owners : TRUE

\* Mutant: the job of a task that ended is remembered.
KeepsJob(t) ==
  /\ pc' = [pc EXCEPT ![t] = "idle"]
  /\ job' = job
  /\ defeatedBy' = Forgotten(t)

\* The task ends and remembers nothing.
Ended(t) ==
  /\ pc' = [pc EXCEPT ![t] = "idle"]
  /\ job' = [job EXCEPT ![t] = NoJob]
  /\ defeatedBy' = Forgotten(t)

\* Mutant: the locks taken before the one that is busy are not given back.
GiveUpAtOnce(t, owners) == Ended(t)

\* The task gives up: it releases what it has taken, if anything.
GiveUp(t, owners) ==
  IF threads[t] = {}
  THEN Ended(t)
  ELSE /\ pc' = [pc EXCEPT ![t] = "release"]
       /\ job' = job
       /\ defeatedBy' = [defeatedBy EXCEPT ![t] = Owner(owners)]

TryThreadLock(t) ==
  LET n == NextName(t)
      p == ProcessOf[t]
  IN  /\ pc[t] = "thread"
      /\ IF n \in threadLock[p]
         THEN /\ GiveUp(t, {u \in TasksOf(p) : n \in threads[u]})
              /\ UNCHANGED locks
         ELSE /\ threadLock' = [threadLock EXCEPT ![p] = @ \cup {n}]
              /\ threads' = [threads EXCEPT ![t] = @ \cup {n}]
              /\ pc' = [pc EXCEPT ![t] = "file"]
              /\ UNCHANGED <<fileLock, files, job, defeatedBy>>
      /\ UNCHANGED <<mode, schedulerLock, crashes, errors>>

\* Mutant: a lock file counts as free for a manual run.
FreeForServers(t, n) == fileLock[n] = Free \/ ProcessOf[t] \in Server

FileIsFree(t, n) == fileLock[n] = Free

\* Mutant: the first lock is enough.
FirstLock(t, n) == n \in LockNames[job[t]]

\* Is n the last lock the job of the task needs.
LastLock(t, n) == LockNames[job[t]] \subseteq files[t] \cup {n}

TryFileLock(t) ==
  LET n == NextName(t)
      p == ProcessOf[t]
  IN  /\ pc[t] = "file"
      /\ IF FileIsFree(t, n)
         THEN /\ fileLock' = [fileLock EXCEPT ![n] = p]
              /\ files' = [files EXCEPT ![t] = @ \cup {n}]
              /\ pc' = [pc EXCEPT ![t] = IF ~LastLock(t, n) THEN "thread"
                                         ELSE IF p \in Server THEN "start"
                                         ELSE "run"]
              /\ UNCHANGED <<threadLock, threads, job, defeatedBy>>
         ELSE /\ GiveUp(t, {u \in Task : n \in files[u]})
              /\ UNCHANGED locks
      /\ UNCHANGED <<mode, schedulerLock, crashes, errors>>

\* The opened lock file cannot be written or locked although nobody has it: the
\* OSError gets the answer of a lock that is taken.
FileUnusable(t) ==
  /\ pc[t] = "file"
  /\ GiveUp(t, {})
  /\ UNCHANGED <<mode, schedulerLock, locks, crashes, errors>>

\* The worker thread of a manual run starts, or its start raises.
StartWorker(t) ==
  /\ pc[t] = "start"
  /\ \E next \in {"run", "release"} : pc' = [pc EXCEPT ![t] = next]
  /\ UNCHANGED <<mode, schedulerLock, locks, job, defeatedBy, crashes, errors>>

\* The body returns or raises.
Finish(t) ==
  /\ pc[t] = "run"
  /\ pc' = [pc EXCEPT ![t] = "release"]
  /\ UNCHANGED <<mode, schedulerLock, locks, job, defeatedBy, crashes, errors>>

ReleaseFile(t) ==
  /\ pc[t] = "release"
  /\ files[t] # {}
  /\ fileLock' = [fileLock EXCEPT ![Last(files[t])] = Free]
  /\ files' = [files EXCEPT ![t] = @ \ {Last(files[t])}]
  /\ UNCHANGED <<mode, schedulerLock, threadLock, threads, pc, job, defeatedBy,
                 crashes, errors>>

\* Thread locks are released after all lock files.
ReleaseThread(t) ==
  LET n == Last(threads[t])
  IN  /\ pc[t] = "release"
      /\ files[t] = {}
      /\ threadLock' = [threadLock EXCEPT ![ProcessOf[t]] = @ \ {n}]
      /\ threads' = [threads EXCEPT ![t] = @ \ {n}]
      /\ IF threads[t] = {n} THEN Ended(t) ELSE UNCHANGED <<pc, job, defeatedBy>>
      /\ UNCHANGED <<mode, schedulerLock, fileLock, files, crashes, errors>>

\* Opening, locking or unlocking a lock file raises: no handler releases the
\* thread locks, the files the task had locked are closed with its handles.
FileError(t) ==
  /\ pc[t] = "file" \/ (pc[t] = "release" /\ files[t] # {})
  /\ errors < MaxErrors
  /\ errors' = errors + 1
  /\ fileLock' = [n \in Name |-> IF n \in files[t] THEN Free ELSE fileLock[n]]
  /\ files' = [files EXCEPT ![t] = {}]
  /\ threads' = [threads EXCEPT ![t] = {}]
  /\ Ended(t)
  /\ UNCHANGED <<mode, schedulerLock, threadLock, crashes>>

TaskStep(t) ==
  \/ \E j \in Job : Begin(t, j)
  \/ TryThreadLock(t) \/ TryFileLock(t) \/ FileUnusable(t) \/ StartWorker(t) \/ Finish(t)
  \/ ReleaseFile(t) \/ ReleaseThread(t) \/ FileError(t)

Next ==
  \/ \E p \in Runner : \/ StartScheduler(p) \/ Interrupt(p) \/ LoopFails(p)
                       \/ Exit(p)
  \/ \E p \in Server : StartServer(p)
  \/ \E p \in Process : Crash(p)
  \/ \E t \in Task : TaskStep(t)

Spec == Init /\ [][Next]_vars

-----------------------------------------------------------------------------
(***************************************************************************)
(* Types, and: exactly a task that is not idle has a job.                  *)
(***************************************************************************)
Holding == {"start", "run"}

TypeOK ==
  /\ mode \in [Process -> Mode]
  /\ schedulerLock \in Process \cup {Free}
  /\ threadLock \in [Process -> SUBSET Name]
  /\ fileLock \in [Name -> Process \cup {Free}]
  /\ pc \in [Task -> Phase]
  /\ job \in [Task -> Job \cup {NoJob}]
  /\ threads \in [Task -> SUBSET Name]
  /\ files \in [Task -> SUBSET Name]
  /\ defeatedBy \in [Task -> Task \cup {Nobody}]
  /\ \A t \in Task :
       IF pc[t] = "idle" THEN job[t] = NoJob /\ threads[t] = {} ELSE job[t] \in Job
  /\ crashes \in 0 .. MaxCrashes
  /\ errors \in 0 .. MaxErrors

(***************************************************************************)
(* Two bodies that need a lock of the same name never run at once: not in  *)
(* two threads of a process, not in two processes, not while an old        *)
(* scheduler process still finishes its jobs beside a new one.             *)
(***************************************************************************)
MutualExclusion ==
  \A t, u \in Task :
    /\ t # u
    /\ pc[t] \in Holding /\ pc[u] \in Holding
    => LockNames[job[t]] \cap LockNames[job[u]] = {}

(***************************************************************************)
(* No lock outlives its task: a lock file is locked only for a task that   *)
(* is alive, and so is a thread lock unless an operation on a lock file    *)
(* has raised.                                                             *)
(***************************************************************************)
Living(t) == pc[t] # "idle" /\ mode[ProcessOf[t]] # "down"

NoLockIsLeft ==
  /\ \A n \in Name :
       fileLock[n] # Free =>
         \E t \in TasksOf(fileLock[n]) : n \in files[t] /\ Living(t)
  /\ errors = 0 =>
       \A p \in Process : \A n \in threadLock[p] :
         \E t \in TasksOf(p) : n \in threads[t] /\ Living(t)

(***************************************************************************)
(* Tasks that compete for several names never all defeat each other: of    *)
(* those that gave up on somebody's lock, one gave up on a task that gave  *)
(* up on nobody's.                                                         *)
(***************************************************************************)
Defeated == {t \in Task : defeatedBy[t] # Nobody}

SomeoneGetsThrough ==
  Defeated # {} => \E t \in Defeated : defeatedBy[t] \notin Defeated

(***************************************************************************)
(* The locks do what JobExclusion promises.                                *)
(***************************************************************************)
Exclusion == INSTANCE JobExclusion WITH
  running <- [t \in Task |-> IF pc[t] \in Holding THEN job[t] ELSE NoJob]

ImplementsExclusion == Exclusion!Spec

(***************************************************************************)
(* scheduler.py:2161, the answer to a manual run that gets no lock: the    *)
(* job "already runs or waits for the release of a shared lock".  A task   *)
(* gives up only on a lock that a living task has.                         *)
(***************************************************************************)
BusyMeansRunning ==
  [][\A t \in Task :
       pc[t] = "thread" /\ pc'[t] \in {"idle", "release"}
         => \/ mode'[ProcessOf[t]] = "down"
            \/ \E u \in TasksOf(ProcessOf[t]) : NextName(t) \in threads[u]]_vars
=============================================================================
