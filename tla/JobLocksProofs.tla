--------------------------- MODULE JobLocksProofs ---------------------------
(***************************************************************************)
(* What JobLocks guarantees for every number of processes, threads and     *)
(* lock names, and every assignment of names to jobs.                      *)
(***************************************************************************)
EXTENDS JobLocks, WellFoundedInduction, TLAPS

USE LocksAssumption

-----------------------------------------------------------------------------
(***************************************************************************)
(* The choices of a task are defined: a non-empty set of lock names has a  *)
(* first and a last one.                                                   *)
(***************************************************************************)
LEMMA Smallest ==
  ASSUME NEW S \in SUBSET Nat, S # {}
  PROVE  \E n \in S : \A m \in S : n <= m
<1>1. PICK n \in S : \A m \in S : ~(<<m, n>> \in OpToRel(<, Nat))
  BY NatLessThanWellFounded, WFMin
<1>2. \A m \in S : ~(m < n)
  BY <1>1 DEF OpToRel
<1> QED
  BY <1>2

LEMMA Greatest ==
  ASSUME NEW S \in SUBSET Name, S # {}
  PROVE  \E n \in S : \A m \in S : m <= n
<1> DEFINE T == {k \in Nat : \E n \in S : k = NameCount - n}
<1>1. T # {} /\ T \in SUBSET Nat
  <2>1. PICK n \in S : TRUE
    OBVIOUS
  <2>2. NameCount - n \in T
    BY <2>1 DEF Name
  <2> QED
    BY <2>2
<1>2. PICK k \in T : \A l \in T : k <= l
  BY <1>1, Smallest
<1>3. PICK n \in S : k = NameCount - n
  BY <1>2
<1>4. \A m \in S : NameCount - m \in T
  BY DEF Name
<1>5. \A m \in S : NameCount - n <= NameCount - m
  BY <1>2, <1>3, <1>4
<1> QED
  BY <1>3, <1>5 DEF Name

LEMMA LastIsMember ==
  ASSUME NEW S \in SUBSET Name, S # {}
  PROVE  Last(S) \in S
BY Greatest DEF Last

-----------------------------------------------------------------------------
(***************************************************************************)
(* The inductive invariant.  A task that has locked a file has a thread    *)
(* lock, the lock file names the process of the task, no two tasks have    *)
(* locked the same file, and a task that runs has locked every file its    *)
(* job needs.                                                              *)
(***************************************************************************)
Behind ==
  \A t \in Task : /\ threads[t] = {} => files[t] = {}
                  /\ pc[t] \notin {"idle", "thread"} => threads[t] # {}

Owned == \A t \in Task : \A n \in files[t] : fileLock[n] = ProcessOf[t]

Apart == \A t, u \in Task : t # u => files[t] \cap files[u] = {}

Trying ==
  \A t \in Task : pc[t] \in {"thread", "file"} => LockNames[job[t]] \ files[t] # {}

Equipped == \A t \in Task : pc[t] \in Holding => LockNames[job[t]] \subseteq files[t]

FileInv == Behind /\ Owned /\ Apart /\ Trying /\ Equipped

Inv == TypeOK /\ FileInv

\* The name a task tries next is one it needs and has not locked.
LEMMA NextNameIsNeeded ==
  ASSUME Inv, NEW t \in Task, pc[t] \in {"thread", "file"}
  PROVE  NextName(t) \in Name /\ NextName(t) \in LockNames[job[t]] \ files[t]
<1>1. job[t] \in Job
  BY DEF Inv, TypeOK
<1>2. LockNames[job[t]] \ files[t] \in SUBSET Nat
  BY <1>1 DEF Name
<1>3. LockNames[job[t]] \ files[t] # {}
  BY DEF Inv, FileInv, Trying
<1>4. NextName(t) \in LockNames[job[t]] \ files[t]
  BY <1>2, <1>3, Smallest DEF NextName
<1> QED
  BY <1>1, <1>4

-----------------------------------------------------------------------------
(***************************************************************************)
(* Steps that leave the locks alone.                                       *)
(***************************************************************************)
LEMMA ModeStep ==
  ASSUME Inv, mode' \in [Process -> Mode], schedulerLock' \in Process \cup {Free},
         crashes' \in 0 .. MaxCrashes,
         UNCHANGED <<locks, pc, job, defeatedBy, errors>>
  PROVE  Inv'
<1>1. TypeOK'
  BY DEF Inv, TypeOK, locks
<1>2. FileInv'
  BY DEF Inv, FileInv, Behind, Owned, Apart, Trying, Equipped, Holding, locks
<1> QED
  BY <1>1, <1>2 DEF Inv

LEMMA ForgottenType ==
  ASSUME TypeOK, NEW t \in Task
  PROVE  Forgotten(t) \in [Task -> Task \cup {Nobody}]
BY DEF TypeOK, Forgotten

\* A task that ends leaves its locks to nobody, or has none.
LEMMA EndedType ==
  ASSUME TypeOK, NEW t \in Task, Ended(t),
         threads' = [threads EXCEPT ![t] = {}]
  PROVE  /\ pc' \in [Task -> Phase]
         /\ job' \in [Task -> Job \cup {NoJob}]
         /\ defeatedBy' \in [Task -> Task \cup {Nobody}]
         /\ \A u \in Task : IF pc'[u] = "idle" THEN job'[u] = NoJob /\ threads'[u] = {}
                                               ELSE job'[u] \in Job
<1>1. pc' \in [Task -> Phase]
  BY DEF TypeOK, Ended, Phase
<1>2. job' \in [Task -> Job \cup {NoJob}]
  BY DEF TypeOK, Ended
<1>3. defeatedBy' \in [Task -> Task \cup {Nobody}]
  BY ForgottenType DEF Ended
<1>4. ASSUME NEW u \in Task
      PROVE  IF pc'[u] = "idle" THEN job'[u] = NoJob /\ threads'[u] = {}
                                ELSE job'[u] \in Job
  <2>1. CASE u = t
    BY <2>1 DEF TypeOK, Ended
  <2>2. CASE u # t
    BY <2>2 DEF TypeOK, Ended
  <2> QED
    BY <2>1, <2>2
<1> QED
  BY <1>1, <1>2, <1>3, <1>4

LEMMA GiveUpStep ==
  ASSUME Inv, NEW t \in Task, NEW owners \in SUBSET Task, GiveUp(t, owners),
         pc[t] # "idle",
         UNCHANGED <<locks, mode, schedulerLock, crashes, errors>>
  PROVE  Inv'
<1>1. CASE threads[t] = {}
  <2>1. Ended(t)
    BY <1>1 DEF GiveUp
  <2>2. threads' = [threads EXCEPT ![t] = {}]
    BY <1>1 DEF Inv, TypeOK, locks
  <2>3. TypeOK'
    BY <2>1, <2>2, EndedType DEF Inv, TypeOK, locks
  <2>4. Behind'
    BY <2>1 DEF Inv, TypeOK, FileInv, Behind, locks, Ended
  <2>5. Owned' /\ Apart' /\ Trying' /\ Equipped'
    BY <2>1 DEF Inv, TypeOK, FileInv, Owned, Apart, Trying, Equipped,
                Holding, locks, Ended
  <2> QED
    BY <2>3, <2>4, <2>5 DEF Inv, FileInv
<1>2. CASE threads[t] # {}
  <2>1. /\ pc' = [pc EXCEPT ![t] = "release"]
        /\ job' = job
        /\ defeatedBy' = [defeatedBy EXCEPT ![t] = Owner(owners)]
    BY <1>2 DEF GiveUp
  <2>2. Owner(owners) \in Task \cup {Nobody}
    BY DEF Owner
  <2>3. TypeOK'
    BY <2>1, <2>2 DEF Inv, TypeOK, Phase, locks
  <2>4. Behind'
    BY <1>2, <2>1 DEF Inv, TypeOK, FileInv, Behind, locks
  <2>5. Owned' /\ Apart' /\ Trying' /\ Equipped'
    BY <2>1 DEF Inv, TypeOK, FileInv, Owned, Apart, Trying, Equipped,
                Holding, locks
  <2> QED
    BY <2>3, <2>4, <2>5 DEF Inv, FileInv
<1> QED
  BY <1>1, <1>2

-----------------------------------------------------------------------------
(***************************************************************************)
(* Steps of one task.                                                      *)
(***************************************************************************)
LEMMA BeginStep ==
  ASSUME Inv, NEW t \in Task, NEW j \in Job, Begin(t, j)
  PROVE  Inv'
<1> USE DEF Begin, locks
<1>1. TypeOK'
  BY DEF Inv, TypeOK, Phase
<1>2. files[t] = {}
  BY DEF Inv, TypeOK, FileInv, Behind
<1>3. Trying'
  BY <1>2 DEF Inv, TypeOK, FileInv, Trying
<1>4. Behind' /\ Owned' /\ Apart' /\ Equipped'
  BY DEF Inv, TypeOK, FileInv, Behind, Owned, Apart, Equipped, Holding
<1> QED
  BY <1>1, <1>3, <1>4 DEF Inv, FileInv

LEMMA TryThreadLockStep ==
  ASSUME Inv, NEW t \in Task, TryThreadLock(t)
  PROVE  Inv'
<1> DEFINE n == NextName(t)
           p == ProcessOf[t]
<1>1. pc[t] = "thread" /\ UNCHANGED <<mode, schedulerLock, crashes, errors>>
  BY DEF TryThreadLock
<1>2. CASE n \in threadLock[p]
  <2>1. /\ GiveUp(t, {u \in TasksOf(p) : n \in threads[u]})
        /\ UNCHANGED locks
    BY <1>2 DEF TryThreadLock
  <2>2. {u \in TasksOf(p) : n \in threads[u]} \in SUBSET Task
    BY DEF TasksOf
  <2> QED
    BY <1>1, <2>1, <2>2, GiveUpStep
<1>3. CASE n \notin threadLock[p]
  <2>1. /\ threadLock' = [threadLock EXCEPT ![p] = @ \cup {n}]
        /\ threads' = [threads EXCEPT ![t] = @ \cup {n}]
        /\ pc' = [pc EXCEPT ![t] = "file"]
        /\ UNCHANGED <<fileLock, files, job, defeatedBy>>
    BY <1>3 DEF TryThreadLock
  <2>2. n \in Name
    BY <1>1, NextNameIsNeeded
  <2> HIDE DEF n, p
  <2>3. TypeOK'
    BY <1>1, <2>1, <2>2 DEF Inv, TypeOK, Phase
  <2>4. FileInv'
    BY <1>1, <2>1 DEF Inv, TypeOK, FileInv, Behind, Owned, Apart, Trying, Equipped,
                      Holding
  <2> QED
    BY <2>3, <2>4 DEF Inv
<1> QED
  BY <1>2, <1>3

\* A lock file is free only if no task has locked it.
LEMMA FreeFileIsNobodys ==
  ASSUME Inv, NEW n \in Name, fileLock[n] = Free, NEW u \in Task
  PROVE  n \notin files[u]
<1>1. ProcessOf[u] # Free
  OBVIOUS
<1> QED
  BY <1>1 DEF Inv, FileInv, Owned

LEMMA TryFileLockStep ==
  ASSUME Inv, NEW t \in Task, TryFileLock(t)
  PROVE  Inv'
<1> DEFINE n == NextName(t)
           p == ProcessOf[t]
<1>1. pc[t] = "file" /\ UNCHANGED <<mode, schedulerLock, crashes, errors>>
  BY DEF TryFileLock
<1>2. CASE ~FileIsFree(t, n)
  <2>1. /\ GiveUp(t, {u \in Task : n \in files[u]})
        /\ UNCHANGED locks
    BY <1>2 DEF TryFileLock
  <2> QED
    BY <1>1, <2>1, GiveUpStep
<1>3. CASE FileIsFree(t, n)
  <2>1. /\ fileLock' = [fileLock EXCEPT ![n] = p]
        /\ files' = [files EXCEPT ![t] = @ \cup {n}]
        /\ pc' = [pc EXCEPT ![t] = IF ~LastLock(t, n) THEN "thread"
                                   ELSE IF p \in Server THEN "start" ELSE "run"]
        /\ UNCHANGED <<threadLock, threads, job, defeatedBy>>
    BY <1>3 DEF TryFileLock
  <2>2. n \in Name /\ n \in LockNames[job[t]] \ files[t]
    BY <1>1, NextNameIsNeeded
  <2>3. \A u \in Task : n \notin files[u]
    BY <1>3, <2>2, FreeFileIsNobodys DEF FileIsFree
  <2>4. threads[t] # {}
    BY <1>1 DEF Inv, FileInv, Behind
  <2>5. p \in Process
    OBVIOUS
  <2> HIDE DEF n, p
  <2>6. TypeOK'
    BY <1>1, <2>1, <2>2, <2>5 DEF Inv, TypeOK, Phase
  <2>7. Behind'
    BY <2>1, <2>4 DEF Inv, TypeOK, FileInv, Behind
  <2>8. Owned'
    BY <2>1, <2>2, <2>3 DEF Inv, TypeOK, FileInv, Owned, p
  <2>9. Apart'
    BY <2>1, <2>3 DEF Inv, TypeOK, FileInv, Apart
  <2>10. Trying'
    BY <2>1, <2>2 DEF Inv, TypeOK, FileInv, Trying, LastLock
  <2>11. Equipped'
    BY <2>1, <2>2 DEF Inv, TypeOK, FileInv, Equipped, Holding, LastLock
  <2> QED
    BY <2>6, <2>7, <2>8, <2>9, <2>10, <2>11 DEF Inv, FileInv
<1> QED
  BY <1>2, <1>3

LEMMA FileUnusableStep ==
  ASSUME Inv, NEW t \in Task, FileUnusable(t)
  PROVE  Inv'
  BY GiveUpStep DEF FileUnusable

LEMMA StartWorkerStep ==
  ASSUME Inv, NEW t \in Task, StartWorker(t)
  PROVE  Inv'
<1>1. PICK next \in {"run", "release"} : pc' = [pc EXCEPT ![t] = next]
  BY DEF StartWorker
<1>2. TypeOK'
  BY <1>1 DEF StartWorker, Inv, TypeOK, Phase, locks
<1>3. FileInv'
  BY <1>1 DEF StartWorker, Inv, TypeOK, FileInv, Behind, Owned, Apart, Trying,
              Equipped, Holding, locks
<1> QED
  BY <1>2, <1>3 DEF Inv

LEMMA FinishStep ==
  ASSUME Inv, NEW t \in Task, Finish(t)
  PROVE  Inv'
<1>1. TypeOK'
  BY DEF Finish, Inv, TypeOK, Phase, locks
<1>2. FileInv'
  BY DEF Finish, Inv, TypeOK, FileInv, Behind, Owned, Apart, Trying, Equipped,
         Holding, locks
<1> QED
  BY <1>1, <1>2 DEF Inv

LEMMA ReleaseFileStep ==
  ASSUME Inv, NEW t \in Task, ReleaseFile(t)
  PROVE  Inv'
<1> DEFINE n == Last(files[t])
<1>1. n \in files[t] /\ n \in Name
  BY LastIsMember DEF ReleaseFile, Inv, TypeOK
<1>2. /\ fileLock' = [fileLock EXCEPT ![n] = Free]
      /\ files' = [files EXCEPT ![t] = @ \ {n}]
      /\ pc[t] = "release"
      /\ UNCHANGED <<mode, schedulerLock, threadLock, threads, pc, job, defeatedBy,
                     crashes, errors>>
  BY DEF ReleaseFile
<1> HIDE DEF n
<1>3. TypeOK'
  BY <1>1, <1>2 DEF Inv, TypeOK
<1>4. \A u \in Task : u # t => n \notin files[u]
  BY <1>1 DEF Inv, FileInv, Apart
<1>5. Owned'
  BY <1>2, <1>4 DEF Inv, TypeOK, FileInv, Owned
<1>6. Behind' /\ Apart' /\ Trying' /\ Equipped'
  BY <1>2 DEF Inv, TypeOK, FileInv, Behind, Apart, Trying, Equipped, Holding
<1> QED
  BY <1>3, <1>5, <1>6 DEF Inv, FileInv

LEMMA ReleaseThreadStep ==
  ASSUME Inv, NEW t \in Task, ReleaseThread(t)
  PROVE  Inv'
<1> DEFINE n == Last(threads[t])
<1>1. /\ pc[t] = "release" /\ files[t] = {}
      /\ threadLock' = [threadLock EXCEPT ![ProcessOf[t]] = @ \ {n}]
      /\ threads' = [threads EXCEPT ![t] = @ \ {n}]
      /\ UNCHANGED <<mode, schedulerLock, fileLock, files, crashes, errors>>
  BY DEF ReleaseThread
<1>2. CASE threads[t] = {n}
  <2>1. Ended(t)
    BY <1>2 DEF ReleaseThread
  <2>2. threads' = [threads EXCEPT ![t] = {}]
    BY <1>1, <1>2
  <2>3. TypeOK'
    <3>1. threadLock' \in [Process -> SUBSET Name]
      BY <1>1 DEF Inv, TypeOK
    <3> QED
      BY <1>1, <2>1, <2>2, <3>1, EndedType DEF Inv, TypeOK
  <2>4. Behind' /\ Owned' /\ Apart'
    BY <1>1, <2>1, <2>2 DEF Inv, TypeOK, FileInv, Behind, Owned, Apart, Ended
  <2>5. Trying' /\ Equipped'
    BY <1>1, <2>1 DEF Inv, TypeOK, FileInv, Trying, Equipped, Holding, Ended
  <2> QED
    BY <2>3, <2>4, <2>5 DEF Inv, FileInv
<1>3. CASE threads[t] # {n}
  <2>1. UNCHANGED <<pc, job, defeatedBy>>
    BY <1>3 DEF ReleaseThread
  <2> HIDE DEF n
  <2>2. TypeOK'
    BY <1>1, <2>1 DEF Inv, TypeOK
  <2>3. Behind'
    <3>1. threads[t] # {}
      BY <1>1 DEF Inv, FileInv, Behind
    <3>2. threads'[t] # {}
      BY <1>1, <1>3, <3>1 DEF Inv, TypeOK
    <3> QED
      BY <1>1, <2>1, <3>2 DEF Inv, TypeOK, FileInv, Behind
  <2>4. Owned' /\ Apart' /\ Trying' /\ Equipped'
    BY <1>1, <2>1 DEF Inv, FileInv, Owned, Apart, Trying, Equipped, Holding
  <2> QED
    BY <2>2, <2>3, <2>4 DEF Inv, FileInv
<1> QED
  BY <1>2, <1>3

LEMMA FileErrorStep ==
  ASSUME Inv, NEW t \in Task, FileError(t)
  PROVE  Inv'
<1>1. /\ errors < MaxErrors /\ errors' = errors + 1
      /\ fileLock' = [m \in Name |-> IF m \in files[t] THEN Free ELSE fileLock[m]]
      /\ files' = [files EXCEPT ![t] = {}]
      /\ threads' = [threads EXCEPT ![t] = {}]
      /\ Ended(t)
      /\ UNCHANGED <<mode, schedulerLock, threadLock, crashes>>
  BY DEF FileError
<1>2. TypeOK'
  <2>1. fileLock' \in [Name -> Process \cup {Free}]
    BY <1>1 DEF Inv, TypeOK
  <2>2. errors' \in 0 .. MaxErrors
    BY <1>1 DEF Inv, TypeOK
  <2> QED
    BY <1>1, <2>1, <2>2, EndedType DEF Inv, TypeOK
<1>3. Owned'
  <2>1. \A u \in Task : u # t => files[u] \cap files[t] = {}
    BY DEF Inv, FileInv, Apart
  <2> QED
    BY <1>1, <2>1 DEF Inv, TypeOK, FileInv, Owned
<1>4. Behind' /\ Apart' /\ Trying' /\ Equipped'
  BY <1>1 DEF Inv, TypeOK, FileInv, Behind, Apart, Trying, Equipped, Holding, Ended
<1> QED
  BY <1>2, <1>3, <1>4 DEF Inv, FileInv

-----------------------------------------------------------------------------
(***************************************************************************)
(* The end of a process frees the files of its tasks and of no other task. *)
(***************************************************************************)
LEMMA VanishStep ==
  ASSUME Inv, NEW p \in Process, Vanish(p), crashes' \in 0 .. MaxCrashes
  PROVE  Inv'
<1> USE DEF Vanish
<1>1. /\ mode' \in [Process -> Mode]
      /\ schedulerLock' \in Process \cup {Free}
      /\ threadLock' \in [Process -> SUBSET Name]
      /\ fileLock' \in [Name -> Process \cup {Free}]
      /\ errors' \in 0 .. MaxErrors
  BY DEF Inv, TypeOK, Mode
<1>2. /\ pc' \in [Task -> Phase]
      /\ job' \in [Task -> Job \cup {NoJob}]
      /\ threads' \in [Task -> SUBSET Name]
      /\ files' \in [Task -> SUBSET Name]
      /\ defeatedBy' \in [Task -> Task \cup {Nobody}]
  BY DEF Inv, TypeOK, Phase
<1>3. ASSUME NEW t \in Task
      PROVE  IF pc'[t] = "idle" THEN job'[t] = NoJob /\ threads'[t] = {}
                                ELSE job'[t] \in Job
  BY DEF Inv, TypeOK
<1>4. TypeOK'
  BY <1>1, <1>2, <1>3 DEF TypeOK
<1>5. Owned'
  BY DEF Inv, TypeOK, FileInv, Owned, TasksOf
<1>6. Behind' /\ Apart'
  BY DEF Inv, FileInv, Behind, Apart
<1>7. Trying'
  BY DEF Inv, FileInv, Trying
<1>8. Equipped'
  BY DEF Inv, FileInv, Equipped, Holding
<1> QED
  BY <1>4, <1>5, <1>6, <1>7, <1>8 DEF Inv, FileInv

-----------------------------------------------------------------------------
(***************************************************************************)
(* The invariant holds in every reachable state.                           *)
(***************************************************************************)
LEMMA InvInit == Init => Inv
<1> SUFFICES ASSUME Init PROVE Inv
  OBVIOUS
<1>1. TypeOK
  BY DEF Init, TypeOK, Mode, Phase
<1>2. FileInv
  BY DEF Init, FileInv, Behind, Owned, Apart, Trying, Equipped, Holding
<1> QED
  BY <1>1, <1>2 DEF Inv

LEMMA ProcessStep ==
  ASSUME Inv, NEW p \in Process,
         \/ StartScheduler(p) \/ Interrupt(p) \/ LoopFails(p) \/ Exit(p)
         \/ StartServer(p) \/ Crash(p)
  PROVE  Inv'
<1>1. CASE StartScheduler(p)
  BY <1>1, ModeStep DEF StartScheduler, Inv, TypeOK, Mode
<1>2. CASE Interrupt(p)
  BY <1>2, ModeStep DEF Interrupt, Inv, TypeOK, Mode
<1>3. CASE LoopFails(p)
  BY <1>3, ModeStep DEF LoopFails, Inv, TypeOK, Mode
<1>4. CASE Exit(p)
  BY <1>4, VanishStep DEF Exit, Inv, TypeOK
<1>5. CASE StartServer(p)
  BY <1>5, ModeStep DEF StartServer, Inv, TypeOK, Mode
<1>6. CASE Crash(p)
  BY <1>6, VanishStep DEF Crash, Inv, TypeOK
<1> QED
  BY <1>1, <1>2, <1>3, <1>4, <1>5, <1>6

LEMMA TaskStepKeepsInv ==
  ASSUME Inv, NEW t \in Task, TaskStep(t)
  PROVE  Inv'
BY BeginStep, TryThreadLockStep, TryFileLockStep, FileUnusableStep, StartWorkerStep,
   FinishStep, ReleaseFileStep, ReleaseThreadStep, FileErrorStep DEF TaskStep

LEMMA InvStep == Inv /\ [Next]_vars => Inv'
<1> SUFFICES ASSUME Inv, [Next]_vars PROVE Inv'
  OBVIOUS
<1>1. CASE Next
  BY <1>1, ProcessStep, TaskStepKeepsInv DEF Next, Process
<1>2. CASE UNCHANGED vars
  BY <1>2 DEF vars, locks, Inv, TypeOK, FileInv, Behind, Owned, Apart, Trying,
              Equipped, Holding
<1> QED
  BY <1>1, <1>2

THEOREM InvHolds == Spec => []Inv
<1> QED
  BY InvInit, InvStep, PTL DEF Spec

(***************************************************************************)
(* The variables keep their types, and exactly the tasks that are not idle *)
(* have a job.                                                             *)
(***************************************************************************)
THEOREM TypeCorrect == Spec => []TypeOK
<1>1. Inv => TypeOK
  BY DEF Inv
<1> QED
  BY <1>1, InvHolds, PTL

(***************************************************************************)
(* Bodies that need a lock of the same name never run at once, in threads  *)
(* of one process or of several, whatever processes crash, whatever lock   *)
(* file operations raise, and while an old scheduler finishes its jobs.    *)
(***************************************************************************)
THEOREM ExclusionCorrect == Spec => []MutualExclusion
<1>1. Inv => MutualExclusion
  BY DEF Inv, FileInv, Apart, Equipped, MutualExclusion
<1> QED
  BY <1>1, InvHolds, PTL

-----------------------------------------------------------------------------
(***************************************************************************)
(* Every step begins one body, ends some, or leaves all as they are.       *)
(***************************************************************************)
Bodies == [t \in Task |-> IF pc[t] \in Holding THEN job[t] ELSE NoJob]

LEMMA ModeStepIsStutter ==
  ASSUME UNCHANGED <<pc, job>>
  PROVE  Bodies' = Bodies
BY DEF Bodies

LEMMA VanishEndsBodies ==
  ASSUME NEW p \in Process, Vanish(p)
  PROVE  Exclusion!End(TasksOf(p)) /\ TasksOf(p) \in SUBSET Task
BY DEF Vanish, Exclusion!End, TasksOf, Holding

LEMMA TaskStepMapsToBody ==
  ASSUME Inv, Inv', NEW t \in Task, TaskStep(t)
  PROVE  Exclusion!Next \/ Bodies' = Bodies
<1>1. CASE \E j \in Job : Begin(t, j)
  BY <1>1 DEF Begin, Bodies, Holding, Inv, TypeOK
<1>2. ASSUME NEW owners, GiveUp(t, owners), pc[t] \notin Holding
      PROVE  Bodies' = Bodies
  BY <1>2 DEF GiveUp, Ended, Bodies, Holding, Inv, TypeOK
<1>3. CASE TryThreadLock(t)
  <2>1. pc[t] \notin Holding
    BY <1>3 DEF TryThreadLock, Holding
  <2>2. CASE NextName(t) \in threadLock[ProcessOf[t]]
    BY <1>2, <1>3, <2>1, <2>2 DEF TryThreadLock
  <2>3. CASE NextName(t) \notin threadLock[ProcessOf[t]]
    <3>1. pc' = [pc EXCEPT ![t] = "file"] /\ job' = job
      BY <1>3, <2>3 DEF TryThreadLock
    <3> QED
      BY <2>1, <3>1 DEF Bodies, Holding, Inv, TypeOK
  <2> QED
    BY <2>2, <2>3
<1>4. CASE TryFileLock(t)
  <2>1. pc[t] \notin Holding
    BY <1>4 DEF TryFileLock, Holding
  <2>2. CASE ~FileIsFree(t, NextName(t))
    BY <1>2, <1>4, <2>1, <2>2 DEF TryFileLock
  <2>3. CASE FileIsFree(t, NextName(t))
    <3>1. /\ job' = job
          /\ \E next \in {"thread", "start", "run"} : pc' = [pc EXCEPT ![t] = next]
      BY <1>4, <2>3 DEF TryFileLock
    <3>2. CASE pc'[t] \notin Holding
      BY <2>1, <3>1, <3>2 DEF Bodies, Holding, Inv, TypeOK
    <3>3. CASE pc'[t] \in Holding
      <4>1. PICK j \in Job : job[t] = j
        BY <1>4 DEF TryFileLock, Inv, TypeOK
      <4>2. Bodies[t] = NoJob
        BY <2>1 DEF Bodies
      <4>3. Bodies' = [Bodies EXCEPT ![t] = j]
        BY <3>1, <3>3, <4>1 DEF Bodies, Inv, TypeOK
      <4>4. ASSUME NEW u \in Task, Bodies[u] # NoJob
            PROVE  LockNames[j] \cap LockNames[Bodies[u]] = {}
        <5>1. u # t /\ pc[u] \in Holding /\ Bodies[u] = job[u]
          BY <2>1, <4>4 DEF Bodies
        <5>2. pc'[u] \in Holding /\ job'[u] = job[u]
          BY <3>1, <5>1 DEF Inv, TypeOK
        <5> QED
          BY <3>1, <3>3, <4>1, <5>1, <5>2 DEF Inv, FileInv, Apart, Equipped
      <4>5. Exclusion!Begin(t, j)
        BY <4>2, <4>3, <4>4 DEF Exclusion!Begin, Exclusion!Compatible, Bodies
      <4> QED
        BY <4>5 DEF Exclusion!Next
    <3> QED
      BY <3>2, <3>3
  <2> QED
    BY <2>2, <2>3
<1>5. ASSUME NEW next \in {"run", "release"}, pc[t] \in Holding,
             pc' = [pc EXCEPT ![t] = next], job' = job
      PROVE  Exclusion!Next \/ Bodies' = Bodies
  <2>1. CASE next = "run"
    BY <1>5, <2>1 DEF Bodies, Holding, Inv, TypeOK
  <2>2. CASE next = "release"
    <3>1. Exclusion!End({t})
      BY <1>5, <2>2 DEF Exclusion!End, Holding, Inv, TypeOK
    <3> QED
      BY <3>1 DEF Exclusion!Next
  <2> QED
    BY <2>1, <2>2
<1>6. CASE StartWorker(t)
  BY <1>5, <1>6 DEF StartWorker, Holding
<1>7. CASE Finish(t)
  BY <1>5, <1>7 DEF Finish, Holding
<1>8. CASE ReleaseFile(t)
  BY <1>8 DEF ReleaseFile, Bodies
<1>9. ASSUME Ended(t), pc[t] \notin Holding
      PROVE  Bodies' = Bodies
  BY <1>9 DEF Ended, Bodies, Holding, Inv, TypeOK
<1>10. CASE ReleaseThread(t)
  <2>1. pc[t] \notin Holding
    BY <1>10 DEF ReleaseThread, Holding
  <2>2. Ended(t) \/ UNCHANGED <<pc, job, defeatedBy>>
    BY <1>10 DEF ReleaseThread
  <2> QED
    BY <1>9, <2>1, <2>2 DEF Bodies
<1>11. CASE FileError(t)
  BY <1>9, <1>11 DEF FileError, Holding
<1>12. CASE FileUnusable(t)
  BY <1>2, <1>12 DEF FileUnusable, Holding
<1> QED
  BY <1>1, <1>3, <1>4, <1>6, <1>7, <1>8, <1>10, <1>11, <1>12 DEF TaskStep

(***************************************************************************)
(* The locks implement JobExclusion: seen from the bodies that run, every  *)
(* behaviour of all these processes, crashes and errors is one of the      *)
(* abstract specification.                                                 *)
(***************************************************************************)
THEOREM Implementation == Spec => ImplementsExclusion
<1>1. Init => Exclusion!Init
  BY DEF Init, Exclusion!Init, Holding
<1>2. Inv /\ Inv' /\ [Next]_vars => [Exclusion!Next]_Bodies
  <2> SUFFICES ASSUME Inv, Inv', [Next]_vars
               PROVE  Exclusion!Next \/ Bodies' = Bodies
    OBVIOUS
  <2>1. CASE \E t \in Task : TaskStep(t)
    BY <2>1, TaskStepMapsToBody
  <2>2. CASE UNCHANGED vars
    BY <2>2, ModeStepIsStutter DEF vars
  <2>3. ASSUME NEW p \in Process, Exit(p) \/ Crash(p)
        PROVE  Exclusion!Next
    BY <2>3, VanishEndsBodies DEF Exit, Crash, Exclusion!Next
  <2>4. ASSUME NEW p \in Process,
               StartScheduler(p) \/ Interrupt(p) \/ LoopFails(p) \/ StartServer(p)
        PROVE  Bodies' = Bodies
    BY <2>4, ModeStepIsStutter DEF StartScheduler, Interrupt, LoopFails, StartServer
  <2> QED
    BY <2>1, <2>2, <2>3, <2>4 DEF Next, Process
<1> QED
  BY <1>1, <1>2, InvHolds, PTL DEF Spec, ImplementsExclusion, Exclusion!Spec, Bodies

-----------------------------------------------------------------------------
(***************************************************************************)
(* No lock is left behind.  Beside Inv: a task at work is in a process     *)
(* that is up, a locked file has its task, the thread locks of a task are  *)
(* locked and its own, and while nothing has raised each has its task.     *)
(***************************************************************************)
Alive == \A t \in Task : pc[t] # "idle" => mode[ProcessOf[t]] # "down"

FilesHeld ==
  \A n \in Name : fileLock[n] # Free =>
    \E t \in Task : ProcessOf[t] = fileLock[n] /\ n \in files[t]

ThreadsLocked == \A t \in Task : threads[t] \subseteq threadLock[ProcessOf[t]]

ThreadsApart ==
  \A t, u \in Task : t # u /\ ProcessOf[t] = ProcessOf[u]
                       => threads[t] \cap threads[u] = {}

ThreadsHeld ==
  errors = 0 => \A p \in Process : \A n \in threadLock[p] :
                  \E t \in Task : ProcessOf[t] = p /\ n \in threads[t]

HeldInv == Alive /\ FilesHeld /\ ThreadsLocked /\ ThreadsApart /\ ThreadsHeld

LEMMA HeldInit == Init => HeldInv
BY DEF Init, HeldInv, Alive, FilesHeld, ThreadsLocked, ThreadsApart, ThreadsHeld

LEMMA UnlockedHeldStep ==
  ASSUME HeldInv, UNCHANGED <<locks, errors>>, Alive'
  PROVE  HeldInv'
BY DEF HeldInv, FilesHeld, ThreadsLocked, ThreadsApart, ThreadsHeld, locks

LEMMA VanishHeldStep ==
  ASSUME Inv, HeldInv, NEW p \in Process, Vanish(p)
  PROVE  HeldInv'
<1> USE DEF Vanish, TasksOf
<1>1. Alive'
  BY DEF HeldInv, Alive, Inv, TypeOK
<1>2. FilesHeld'
  <2> SUFFICES ASSUME NEW n \in Name, fileLock'[n] # Free
               PROVE  \E t \in Task : ProcessOf[t] = fileLock'[n] /\ n \in files'[t]
    BY DEF FilesHeld
  <2>1. fileLock'[n] = fileLock[n] /\ fileLock[n] # p
    BY DEF Inv, TypeOK
  <2>2. PICK t \in Task : ProcessOf[t] = fileLock[n] /\ n \in files[t]
    BY <2>1 DEF HeldInv, FilesHeld
  <2>3. n \in files'[t]
    BY <2>1, <2>2
  <2> QED
    BY <2>1, <2>2, <2>3
<1>3. ThreadsLocked'
  BY DEF HeldInv, ThreadsLocked, Inv, TypeOK
<1>4. ThreadsApart'
  BY DEF HeldInv, ThreadsApart
<1>5. ThreadsHeld'
  <2> SUFFICES ASSUME errors' = 0, NEW q \in Process, NEW n \in threadLock'[q]
               PROVE  \E t \in Task : ProcessOf[t] = q /\ n \in threads'[t]
    BY DEF ThreadsHeld
  <2>1. q # p /\ n \in threadLock[q] /\ errors = 0
    BY DEF Inv, TypeOK
  <2>2. PICK t \in Task : ProcessOf[t] = q /\ n \in threads[t]
    BY <2>1 DEF HeldInv, ThreadsHeld
  <2>3. n \in threads'[t]
    BY <2>1, <2>2
  <2> QED
    BY <2>2, <2>3
<1> QED
  BY <1>1, <1>2, <1>3, <1>4, <1>5 DEF HeldInv

LEMMA ProcessHeldStep ==
  ASSUME Inv, HeldInv, NEW p \in Process,
         \/ StartScheduler(p) \/ Interrupt(p) \/ LoopFails(p) \/ Exit(p)
         \/ StartServer(p) \/ Crash(p)
  PROVE  HeldInv'
<1>1. ASSUME NEW m \in {"up", "stopping", "draining"}, mode' = [mode EXCEPT ![p] = m],
             pc' = pc, UNCHANGED <<locks, errors>>
      PROVE  HeldInv'
  BY <1>1, UnlockedHeldStep DEF HeldInv, Alive, Inv, TypeOK
<1>2. CASE StartScheduler(p) \/ StartServer(p) \/ Interrupt(p) \/ LoopFails(p)
  BY <1>1, <1>2 DEF StartScheduler, StartServer, Interrupt, LoopFails
<1>3. CASE Exit(p) \/ Crash(p)
  BY <1>3, VanishHeldStep DEF Exit, Crash
<1> QED
  BY <1>2, <1>3

LEMMA LockStepsHeld ==
  ASSUME Inv, HeldInv, NEW t \in Task,
         TryThreadLock(t) \/ TryFileLock(t) \/ FileUnusable(t)
  PROVE  HeldInv'
<1> DEFINE n == NextName(t)
           p == ProcessOf[t]
<1>1. pc[t] \in {"thread", "file"} /\ mode' = mode /\ errors' = errors
  BY DEF TryThreadLock, TryFileLock, FileUnusable
<1>2. Alive'
  <2>1. \A u \in Task : u # t => pc'[u] = pc[u]
    BY DEF TryThreadLock, TryFileLock, FileUnusable, GiveUp, Ended, Inv, TypeOK
  <2> QED
    BY <1>1, <2>1 DEF HeldInv, Alive
<1>3. CASE UNCHANGED locks
  BY <1>1, <1>2, <1>3, UnlockedHeldStep
<1>4. CASE /\ n \notin threadLock[p]
           /\ threadLock' = [threadLock EXCEPT ![p] = @ \cup {n}]
           /\ threads' = [threads EXCEPT ![t] = @ \cup {n}]
           /\ UNCHANGED <<fileLock, files>>
  <2> HIDE DEF n
  <2>1. ThreadsLocked' /\ ThreadsApart'
    BY <1>4 DEF HeldInv, ThreadsLocked, ThreadsApart, Inv, TypeOK
  <2>2. ThreadsHeld'
    BY <1>1, <1>4 DEF HeldInv, ThreadsHeld, Inv, TypeOK
  <2>3. FilesHeld'
    BY <1>4 DEF HeldInv, FilesHeld
  <2> QED
    BY <1>2, <2>1, <2>2, <2>3 DEF HeldInv
<1>5. CASE /\ fileLock[n] = Free
           /\ fileLock' = [fileLock EXCEPT ![n] = p]
           /\ files' = [files EXCEPT ![t] = @ \cup {n}]
           /\ UNCHANGED <<threadLock, threads>>
  <2> HIDE DEF n
  <2>1. FilesHeld'
    BY <1>5 DEF HeldInv, FilesHeld, Inv, TypeOK
  <2>2. ThreadsLocked' /\ ThreadsApart' /\ ThreadsHeld'
    BY <1>1, <1>5 DEF HeldInv, ThreadsLocked, ThreadsApart, ThreadsHeld
  <2> QED
    BY <1>2, <2>1, <2>2 DEF HeldInv
<1>6. CASE TryThreadLock(t)
  BY <1>3, <1>4, <1>6 DEF TryThreadLock
<1>7. CASE TryFileLock(t)
  BY <1>3, <1>5, <1>7 DEF TryFileLock, FileIsFree
<1>8. CASE FileUnusable(t)
  BY <1>3, <1>8 DEF FileUnusable
<1> QED
  BY <1>6, <1>7, <1>8

LEMMA ReleaseStepsHeld ==
  ASSUME Inv, HeldInv, NEW t \in Task,
         ReleaseFile(t) \/ ReleaseThread(t) \/ FileError(t)
  PROVE  HeldInv'
<1>1. pc[t] # "idle" /\ mode' = mode
  BY DEF ReleaseFile, ReleaseThread, FileError
<1>2. Alive'
  <2>1. \A u \in Task : u # t => pc'[u] = pc[u]
    BY DEF ReleaseFile, ReleaseThread, FileError, Ended, Inv, TypeOK
  <2> QED
    BY <1>1, <2>1 DEF HeldInv, Alive
<1>3. CASE ReleaseFile(t)
  <2> DEFINE n == Last(files[t])
  <2>1. /\ fileLock' = [fileLock EXCEPT ![n] = Free]
        /\ files' = [files EXCEPT ![t] = @ \ {n}]
        /\ UNCHANGED <<threadLock, threads, errors>>
    BY <1>3 DEF ReleaseFile
  <2> HIDE DEF n
  <2>2. FilesHeld'
    BY <2>1 DEF HeldInv, FilesHeld, Inv, TypeOK
  <2>3. ThreadsLocked' /\ ThreadsApart' /\ ThreadsHeld'
    BY <2>1 DEF HeldInv, ThreadsLocked, ThreadsApart, ThreadsHeld
  <2> QED
    BY <1>2, <2>2, <2>3 DEF HeldInv
<1>4. CASE ReleaseThread(t)
  <2> DEFINE n == Last(threads[t])
  <2>1. /\ threadLock' = [threadLock EXCEPT ![ProcessOf[t]] = @ \ {n}]
        /\ threads' = [threads EXCEPT ![t] = @ \ {n}]
        /\ UNCHANGED <<fileLock, files, errors>>
    BY <1>4 DEF ReleaseThread
  <2>2. threads[t] # {}
    BY <1>4 DEF ReleaseThread, Inv, FileInv, Behind
  <2>3. n \in threads[t]
    BY <2>2, LastIsMember DEF Inv, TypeOK
  <2> HIDE DEF n
  <2>4. FilesHeld'
    BY <2>1 DEF HeldInv, FilesHeld
  <2>5. ThreadsLocked' /\ ThreadsApart'
    BY <2>1, <2>3 DEF HeldInv, ThreadsLocked, ThreadsApart, Inv, TypeOK
  <2>6. ThreadsHeld'
    BY <2>1 DEF HeldInv, ThreadsHeld, Inv, TypeOK
  <2> QED
    BY <1>2, <2>4, <2>5, <2>6 DEF HeldInv
<1>5. CASE FileError(t)
  <2>1. /\ errors' = errors + 1
        /\ fileLock' = [m \in Name |-> IF m \in files[t] THEN Free ELSE fileLock[m]]
        /\ files' = [files EXCEPT ![t] = {}]
        /\ threads' = [threads EXCEPT ![t] = {}]
        /\ threadLock' = threadLock
    BY <1>5 DEF FileError
  <2>2. FilesHeld'
    BY <2>1 DEF HeldInv, FilesHeld, Inv, TypeOK
  <2>3. ThreadsLocked' /\ ThreadsApart' /\ ThreadsHeld'
    BY <2>1 DEF HeldInv, ThreadsLocked, ThreadsApart, ThreadsHeld, Inv, TypeOK
  <2> QED
    BY <1>2, <2>2, <2>3 DEF HeldInv
<1> QED
  BY <1>3, <1>4, <1>5

LEMMA HeldStep == Inv /\ HeldInv /\ [Next]_vars => HeldInv'
<1> SUFFICES ASSUME Inv, HeldInv, [Next]_vars PROVE HeldInv'
  OBVIOUS
<1>1. CASE UNCHANGED vars
  BY <1>1, UnlockedHeldStep DEF vars, HeldInv, Alive
<1>2. ASSUME NEW t \in Task, TaskStep(t)
      PROVE  HeldInv'
  <2>1. ASSUME NEW next \in Phase, pc' = [pc EXCEPT ![t] = next],
               mode[ProcessOf[t]] # "down", UNCHANGED <<mode, locks, errors>>
        PROVE  HeldInv'
    BY <2>1, UnlockedHeldStep DEF HeldInv, Alive, Inv, TypeOK
  <2>2. CASE \E j \in Job : Begin(t, j)
    BY <2>1, <2>2 DEF Begin, Phase
  <2>3. CASE StartWorker(t) \/ Finish(t)
    BY <2>1, <2>3 DEF StartWorker, Finish, Phase, HeldInv, Alive
  <2> QED
    BY <1>2, <2>2, <2>3, LockStepsHeld, ReleaseStepsHeld DEF TaskStep
<1> QED
  BY <1>1, <1>2, ProcessHeldStep DEF Next, Process

(***************************************************************************)
(* Locks are given back: a lock file is locked only for a living task, and *)
(* so is a thread lock as long as no lock file operation has raised.       *)
(***************************************************************************)
THEOREM LocksGivenBack == Spec => []NoLockIsLeft
<1>1. Inv /\ HeldInv => NoLockIsLeft
  <2> SUFFICES ASSUME Inv, HeldInv PROVE NoLockIsLeft
    OBVIOUS
  <2>1. ASSUME NEW t \in Task, threads[t] # {}
        PROVE  Living(t)
    <3>1. pc[t] # "idle"
      BY <2>1 DEF Inv, TypeOK
    <3> QED
      BY <3>1 DEF HeldInv, Alive, Living
  <2>2. \A t \in Task : files[t] # {} => threads[t] # {}
    BY DEF Inv, FileInv, Behind
  <2>3. ASSUME NEW n \in Name, fileLock[n] # Free
        PROVE  \E t \in TasksOf(fileLock[n]) : n \in files[t] /\ Living(t)
    BY <2>1, <2>2, <2>3 DEF HeldInv, FilesHeld, TasksOf
  <2>4. ASSUME errors = 0, NEW p \in Process, NEW n \in threadLock[p]
        PROVE  \E t \in TasksOf(p) : n \in threads[t] /\ Living(t)
    BY <2>1, <2>4 DEF HeldInv, ThreadsHeld, TasksOf
  <2> QED
    BY <2>3, <2>4 DEF NoLockIsLeft
<1> QED
  BY <1>1, InvHolds, HeldInit, HeldStep, PTL DEF Spec

-----------------------------------------------------------------------------
(***************************************************************************)
(* Of several tasks that compete, one gets through.  The locks a task      *)
(* takes one after the other have ascending places: the thread lock of a   *)
(* name, then its lock file, then those of the next name.                  *)
(***************************************************************************)
Held == [t \in Task |-> {2 * n : n \in threads[t]} \cup {2 * n + 1 : n \in files[t]}]

\* What a task that is still trying has lies before all that it misses.
Ascending ==
  \A t \in Task : \A m \in LockNames[job[t]] \ files[t] :
    /\ pc[t] = "thread" => \A h \in Held[t] : h < 2 * m
    /\ pc[t] = "file"   => \A h \in Held[t] : h < 2 * m + 1

\* A place for each task that gave up: the lock it failed to get.  The one that
\* defeated it has this lock, unless it has begun to release, and when it gives
\* up as well, then at a later place.
Placed(place) ==
  \A t \in Defeated :
    LET u == defeatedBy[t]
    IN  /\ pc[t] = "release" /\ pc[u] # "idle"
        /\ place[t] <= 2 * NameCount + 1
        /\ \A h \in Held[t] : h < place[t]
        /\ u \in Defeated => place[t] < place[u]
        /\ u \notin Defeated /\ pc[u] \in {"thread", "file"} => place[t] \in Held[u]

Ranked == \E place \in [Task -> Nat] : Placed(place)

RankInv == Ascending /\ Ranked

\* Whoever gave up, and whoever it gave up for, is at work.
LEMMA DefeatedIsTask ==
  ASSUME TypeOK, NEW t \in Defeated
  PROVE  t \in Task /\ defeatedBy[t] \in Task
BY DEF TypeOK, Defeated

\* The steps after which some of the tasks are forgotten, and no other is defeated.
LEMMA FewerDefeats ==
  ASSUME TypeOK, Ranked,
         \A t \in Defeated' : t \in Defeated /\ defeatedBy'[t] = defeatedBy[t],
         \A t \in Defeated' :
           LET u == defeatedBy[t]
           IN  /\ pc[t] = "release" => pc'[t] = "release" /\ Held'[t] \subseteq Held[t]
               /\ pc[u] # "idle" => pc'[u] # "idle"
               /\ pc[u] # "idle" /\ pc'[u] \in {"thread", "file"} =>
                    pc[u] \in {"thread", "file"} /\ Held[u] \subseteq Held'[u]
               /\ pc[u] = "release" => pc'[u] = "release"
  PROVE  Ranked'
<1>1. PICK place \in [Task -> Nat] : Placed(place)
  BY DEF Ranked
<1>2. ASSUME NEW t \in Defeated'
      PROVE  LET u == defeatedBy'[t]
             IN  /\ pc'[t] = "release" /\ pc'[u] # "idle"
                 /\ place[t] <= 2 * NameCount + 1
                 /\ \A h \in Held'[t] : h < place[t]
                 /\ u \in Defeated' => place[t] < place[u]
                 /\ u \notin Defeated' /\ pc'[u] \in {"thread", "file"}
                      => place[t] \in Held'[u]
  <2> DEFINE u == defeatedBy[t]
  <2>1. t \in Defeated /\ defeatedBy'[t] = u
    OBVIOUS
  <2>2. /\ pc[t] = "release" /\ pc[u] # "idle"
        /\ place[t] <= 2 * NameCount + 1
        /\ \A h \in Held[t] : h < place[t]
        /\ u \in Defeated => place[t] < place[u] /\ pc[u] = "release"
        /\ u \notin Defeated /\ pc[u] \in {"thread", "file"} => place[t] \in Held[u]
    BY <1>1, <2>1 DEF Placed
  <2>3. u \in Defeated' => u \in Defeated
    OBVIOUS
  <2> QED
    BY <2>1, <2>2, <2>3
<1>3. Placed(place)'
  BY <1>2 DEF Placed
<1> QED
  BY <1>1, <1>3 DEF Ranked

\* A task that gives up for another gets the place of the lock it did not get.
LEMMA OneMoreDefeat ==
  ASSUME TypeOK, Ranked, NEW v \in Task, NEW w \in Task, NEW p \in Nat,
         pc[v] \in {"thread", "file"}, p <= 2 * NameCount + 1,
         \A h \in Held[v] : h < p,
         p \in Held[w], pc[w] # "idle",
         defeatedBy' = [defeatedBy EXCEPT ![v] = w],
         pc' = [pc EXCEPT ![v] = "release"],
         UNCHANGED <<threads, files>>
  PROVE  Ranked'
<1>1. PICK place \in [Task -> Nat] : Placed(place)
  BY DEF Ranked
<1> DEFINE new == [place EXCEPT ![v] = p]
<1>2. v \notin Defeated /\ v # w
  <2>1. v \notin Defeated
    BY <1>1 DEF Placed
  <2>2. v # w
    OBVIOUS
  <2> QED
    BY <2>1, <2>2
<1>3. Defeated' = Defeated \cup {v}
  BY DEF TypeOK, Defeated
<1>4. \A x \in Task : Held'[x] = Held[x]
  BY DEF Held
<1>5. ASSUME NEW t \in Defeated'
      PROVE  LET u == defeatedBy'[t]
             IN  /\ pc'[t] = "release" /\ pc'[u] # "idle"
                 /\ new[t] <= 2 * NameCount + 1
                 /\ \A h \in Held'[t] : h < new[t]
                 /\ u \in Defeated' => new[t] < new[u]
                 /\ u \notin Defeated' /\ pc'[u] \in {"thread", "file"}
                      => new[t] \in Held'[u]
  <2>1. CASE t = v
    <3>1. defeatedBy'[t] = w /\ new[t] = p /\ pc'[t] = "release" /\ pc'[w] # "idle"
      BY <2>1 DEF TypeOK
    <3>2. w \in Defeated => p < new[w]
      BY <1>1, <1>2 DEF Placed
    <3> QED
      BY <1>2, <1>3, <1>4, <2>1, <3>1, <3>2
  <2>2. CASE t # v
    <3> DEFINE u == defeatedBy[t]
    <3>1. t \in Defeated /\ t \in Task /\ u \in Task
      BY <1>3, <2>2, DefeatedIsTask
    <3>2. defeatedBy'[t] = u /\ new[t] = place[t] /\ pc'[t] = pc[t]
      BY <2>2, <3>1 DEF TypeOK
    <3>3. /\ pc[t] = "release" /\ pc[u] # "idle"
          /\ place[t] <= 2 * NameCount + 1
          /\ \A h \in Held[t] : h < place[t]
          /\ u \in Defeated => place[t] < place[u]
          /\ u \notin Defeated /\ pc[u] \in {"thread", "file"} => place[t] \in Held[u]
      BY <1>1, <3>1 DEF Placed
    <3>4. pc'[u] # "idle"
      BY <3>1, <3>3 DEF TypeOK
    <3>5. CASE u = v
      <4>1. place[t] < p
        BY <1>2, <3>3, <3>5
      <4>2. new[u] = p
        BY <3>5
      <4> QED
        BY <1>3, <1>4, <3>1, <3>2, <3>3, <3>4, <3>5, <4>1, <4>2
    <3>6. CASE u # v
      <4>1. new[u] = place[u] /\ pc'[u] = pc[u] /\ (u \in Defeated' <=> u \in Defeated)
        BY <1>3, <3>1, <3>6 DEF TypeOK
      <4> QED
        BY <1>4, <3>1, <3>2, <3>3, <3>4, <4>1
    <3> QED
      BY <3>5, <3>6
  <2> QED
    BY <2>1, <2>2
<1>6. Placed(new)'
  BY <1>5 DEF Placed
<1>7. new \in [Task -> Nat]
  OBVIOUS
<1> QED
  BY <1>6, <1>7 DEF Ranked
LEMMA SameAscending ==
  ASSUME Ascending,
         \A u \in Task : pc'[u] \in {"thread", "file"} =>
           pc'[u] = pc[u] /\ job'[u] = job[u] /\ files'[u] = files[u] /\ threads'[u] = threads[u]
  PROVE  Ascending'
BY DEF Ascending, Held

\* A name is tried only when all smaller ones are taken.
LEMMA NextNameIsFirst ==
  ASSUME Inv, NEW t \in Task, pc[t] \in {"thread", "file"}
  PROVE  \A m \in LockNames[job[t]] \ files[t] : m \in Nat /\ NextName(t) <= m
<1>1. job[t] \in Job
  BY DEF Inv, TypeOK
<1>2. LockNames[job[t]] \ files[t] \in SUBSET Nat
  BY <1>1 DEF Name
<1>3. LockNames[job[t]] \ files[t] # {}
  BY DEF Inv, FileInv, Trying
<1> QED
  BY <1>2, <1>3, Smallest DEF NextName

LEMMA BeginRank ==
  ASSUME Inv, RankInv, NEW t \in Task, NEW j \in Job, Begin(t, j)
  PROVE  RankInv'
<1>1. /\ pc[t] = "idle" /\ pc' = [pc EXCEPT ![t] = "thread"]
      /\ job' = [job EXCEPT ![t] = j]
      /\ UNCHANGED <<threads, files, defeatedBy>>
  BY DEF Begin, locks
<1>2. threads[t] = {} /\ files[t] = {} /\ Held' = Held
  BY <1>1 DEF Inv, TypeOK, FileInv, Behind, Held
<1>3. Held[t] = {}
  BY <1>2 DEF Held
<1>4. Ascending'
  <2> SUFFICES ASSUME NEW u \in Task, NEW m \in LockNames[job'[u]] \ files'[u]
               PROVE  /\ pc'[u] = "thread" => \A h \in Held'[u] : h < 2 * m
                      /\ pc'[u] = "file"   => \A h \in Held'[u] : h < 2 * m + 1
    BY DEF Ascending
  <2>1. CASE u = t
    BY <1>1, <1>2, <1>3, <2>1 DEF Inv, TypeOK
  <2>2. CASE u # t
    BY <1>1, <1>2, <2>2 DEF RankInv, Ascending, Inv, TypeOK
  <2> QED
    BY <2>1, <2>2
<1>5. Defeated' = Defeated
  BY <1>1 DEF Defeated
<1>6. ASSUME NEW u \in Defeated
      PROVE  /\ u \in Task /\ defeatedBy[u] \in Task
             /\ pc[u] = "release" => pc'[u] = "release"
             /\ pc[defeatedBy[u]] # "idle" => pc'[defeatedBy[u]] = pc[defeatedBy[u]]
  BY <1>1, DefeatedIsTask DEF Inv, TypeOK
<1>7. Ranked'
  BY <1>1, <1>2, <1>5, <1>6, FewerDefeats DEF Inv, RankInv
<1> QED
  BY <1>4, <1>7 DEF RankInv

\* A task that ends is forgotten, and with it those that gave up for it.
LEMMA ForgetRank ==
  ASSUME Inv, RankInv, NEW S \in SUBSET Task,
         pc' = [t \in Task |-> IF t \in S THEN "idle" ELSE pc[t]],
         \A u \in Task \ S : /\ job'[u] = job[u]
                             /\ threads'[u] = threads[u] /\ files'[u] = files[u],
         defeatedBy' = [t \in Task |-> IF {t, defeatedBy[t]} \cap S # {} THEN Nobody
                                       ELSE defeatedBy[t]]
  PROVE  RankInv'
<1>1. Ascending'
  BY SameAscending DEF RankInv
<1>2. ASSUME NEW u \in Defeated'
      PROVE  u \in Defeated /\ u \notin S /\ defeatedBy[u] \notin S
               /\ defeatedBy'[u] = defeatedBy[u]
  BY DEF Defeated
<1>3. \A u \in Task \ S : Held'[u] = Held[u] /\ pc'[u] = pc[u]
  BY DEF Held
<1>4. Ranked'
  <2>1. ASSUME NEW u \in Defeated'
        PROVE  u \in Task \ S /\ defeatedBy[u] \in Task \ S
    BY <1>2, DefeatedIsTask DEF Inv
  <2> QED
    BY <1>2, <1>3, <2>1, FewerDefeats DEF Inv, RankInv
<1> QED
  BY <1>1, <1>4 DEF RankInv

LEMMA EndedRank ==
  ASSUME Inv, RankInv, NEW t \in Task, Ended(t),
         \A u \in Task \ {t} : threads'[u] = threads[u] /\ files'[u] = files[u]
  PROVE  RankInv'
<1>1. pc' = [u \in Task |-> IF u \in {t} THEN "idle" ELSE pc[u]]
  BY DEF Ended, Inv, TypeOK
<1>2. \A u \in Task \ {t} : job'[u] = job[u]
  BY DEF Ended, Inv, TypeOK
<1>3. defeatedBy' = [u \in Task |-> IF {u, defeatedBy[u]} \cap {t} # {} THEN Nobody
                                    ELSE defeatedBy[u]]
  BY DEF Ended, Forgotten
<1> QED
  BY <1>1, <1>2, <1>3, ForgetRank

\* A task gives up on the lock at place p, which one of the owners has.
LEMMA GiveUpRank ==
  ASSUME Inv, RankInv, NEW t \in Task, pc[t] \in {"thread", "file"},
         NEW owners \in SUBSET Task, NEW p \in Nat, p <= 2 * NameCount + 1,
         GiveUp(t, owners), UNCHANGED <<threads, files>>,
         \A h \in Held[t] : h < p,
         \A u \in owners : p \in Held[u] /\ pc[u] # "idle"
  PROVE  RankInv'
<1>1. CASE threads[t] = {}
  <2>1. Ended(t)
    BY <1>1 DEF GiveUp
  <2> QED
    BY <2>1, EndedRank
<1>2. CASE threads[t] # {}
  <2>1. /\ pc' = [pc EXCEPT ![t] = "release"]
        /\ job' = job
        /\ defeatedBy' = [defeatedBy EXCEPT ![t] = Owner(owners)]
    BY <1>2 DEF GiveUp
  <2>2. Ascending'
    BY <2>1, SameAscending DEF RankInv, Inv, TypeOK
  <2>3. CASE owners = {}
    <3>1. Owner(owners) = Nobody
      BY <2>3 DEF Owner
    <3>2. \A u \in Defeated' : u \in Defeated /\ defeatedBy'[u] = defeatedBy[u]
      BY <2>1, <3>1 DEF Defeated, Inv, TypeOK
    <3>3. Held' = Held
      BY DEF Held
    <3>4. \A u \in Task : pc'[u] = pc[u] \/ (pc[u] \in {"thread", "file"} /\ pc'[u] = "release")
      BY <2>1 DEF Inv, TypeOK
    <3>5. \A u \in Defeated' : u \in Task /\ defeatedBy[u] \in Task
      BY <3>2, DefeatedIsTask DEF Inv
    <3>6. Ranked'
      BY <3>2, <3>3, <3>4, <3>5, FewerDefeats DEF Inv, RankInv
    <3> QED
      BY <2>2, <3>6 DEF RankInv
  <2>4. CASE owners # {}
    <3>1. Owner(owners) \in owners
      BY <2>4 DEF Owner
    <3>2. Ranked'
      BY <2>1, <3>1, OneMoreDefeat DEF Inv, RankInv
    <3> QED
      BY <2>2, <3>2 DEF RankInv
  <2> QED
    BY <2>3, <2>4
<1> QED
  BY <1>1, <1>2

LEMMA TryThreadLockRank ==
  ASSUME Inv, RankInv, NEW t \in Task, TryThreadLock(t)
  PROVE  RankInv'
<1> DEFINE n == NextName(t)
           p == ProcessOf[t]
<1>1. pc[t] = "thread"
  BY DEF TryThreadLock
<1>2. n \in Nat /\ n <= NameCount /\ n \in LockNames[job[t]] \ files[t]
  BY <1>1, NextNameIsNeeded DEF Name
<1>3. \A h \in Held[t] : h < 2 * n
  BY <1>1, <1>2 DEF RankInv, Ascending
<1>4. CASE n \in threadLock[p]
  <2> DEFINE owners == {u \in TasksOf(p) : n \in threads[u]}
  <2>1. /\ GiveUp(t, owners) /\ UNCHANGED <<threads, files>>
    BY <1>4 DEF TryThreadLock, locks
  <2>2. ASSUME NEW u \in owners
        PROVE  u \in Task /\ 2 * n \in Held[u] /\ pc[u] # "idle"
    BY DEF TasksOf, Held, Inv, TypeOK
  <2>3. owners \in SUBSET Task /\ 2 * n \in Nat /\ 2 * n <= 2 * NameCount + 1
    BY <1>2, <2>2
  <2> HIDE DEF n, p, owners
  <2> QED
    BY <1>1, <1>3, <2>1, <2>2, <2>3, GiveUpRank
<1>5. CASE n \notin threadLock[p]
  <2>1. /\ threads' = [threads EXCEPT ![t] = @ \cup {n}]
        /\ pc' = [pc EXCEPT ![t] = "file"]
        /\ UNCHANGED <<files, job, defeatedBy>>
    BY <1>5 DEF TryThreadLock
  <2>2. \A m \in LockNames[job[t]] \ files[t] : m \in Nat /\ n <= m
    BY <1>1, NextNameIsFirst
  <2> HIDE DEF n, p
  <2>3. /\ Held'[t] = Held[t] \cup {2 * n}
        /\ \A u \in Task \ {t} : Held'[u] = Held[u]
    BY <2>1 DEF Held, Inv, TypeOK
  <2>4. Ascending'
    <3> SUFFICES ASSUME NEW u \in Task, NEW m \in LockNames[job[u]] \ files[u]
                 PROVE  /\ pc'[u] = "thread" => \A h \in Held'[u] : h < 2 * m
                        /\ pc'[u] = "file"   => \A h \in Held'[u] : h < 2 * m + 1
      BY <2>1 DEF Ascending
    <3>1. CASE u = t
      <4>1. m \in Nat /\ n <= m
        BY <2>2, <3>1
      <4>2. pc'[t] = "file"
        BY <2>1 DEF Inv, TypeOK
      <4>3. Held[t] \in SUBSET Nat
        BY DEF Held, Inv, TypeOK, Name
      <4>4. ASSUME NEW h \in Held'[t] PROVE h < 2 * m + 1
        BY <1>2, <1>3, <2>3, <4>1, <4>3
      <4> QED
        BY <3>1, <4>2, <4>4
    <3>2. CASE u # t
      BY <2>1, <2>3, <3>2 DEF RankInv, Ascending, Inv, TypeOK
    <3> QED
      BY <3>1, <3>2
  <2>5. Defeated' = Defeated
    BY <2>1 DEF Defeated
  <2>6. ASSUME NEW u \in Defeated
        PROVE  u \in Task /\ defeatedBy[u] \in Task
    BY <2>6, DefeatedIsTask DEF Inv
  <2>7. \A u \in Task : pc'[u] = pc[u] \/ (u = t /\ pc'[u] = "file")
    BY <2>1 DEF Inv, TypeOK
  <2>8. Ranked'
    BY <1>1, <2>1, <2>3, <2>5, <2>6, <2>7, FewerDefeats DEF Inv, RankInv
  <2> QED
    BY <2>4, <2>8 DEF RankInv
<1> QED
  BY <1>4, <1>5

LEMMA TryFileLockRank ==
  ASSUME Inv, RankInv, NEW t \in Task, TryFileLock(t)
  PROVE  RankInv'
<1> DEFINE n == NextName(t)
<1>1. pc[t] = "file"
  BY DEF TryFileLock
<1>2. n \in Nat /\ n <= NameCount /\ n \in LockNames[job[t]] \ files[t]
  BY <1>1, NextNameIsNeeded DEF Name
<1>3. \A h \in Held[t] : h < 2 * n + 1
  BY <1>1, <1>2 DEF RankInv, Ascending
<1>4. CASE ~FileIsFree(t, n)
  <2> DEFINE owners == {u \in Task : n \in files[u]}
  <2>1. /\ GiveUp(t, owners) /\ UNCHANGED <<threads, files>>
    BY <1>4 DEF TryFileLock, locks
  <2>2. ASSUME NEW u \in owners
        PROVE  u \in Task /\ 2 * n + 1 \in Held[u] /\ pc[u] # "idle"
    BY DEF Held, Inv, TypeOK, FileInv, Behind
  <2>3. owners \in SUBSET Task /\ 2 * n + 1 \in Nat /\ 2 * n + 1 <= 2 * NameCount + 1
    BY <1>2, <2>2
  <2> HIDE DEF n, owners
  <2> QED
    BY <1>1, <1>3, <2>1, <2>2, <2>3, GiveUpRank
<1>5. CASE FileIsFree(t, n)
  <2>1. /\ files' = [files EXCEPT ![t] = @ \cup {n}]
        /\ \E next \in {"thread", "start", "run"} : pc' = [pc EXCEPT ![t] = next]
        /\ UNCHANGED <<threads, job, defeatedBy>>
    BY <1>5 DEF TryFileLock
  <2>2. \A m \in LockNames[job[t]] \ files[t] : m \in Nat /\ n <= m
    BY <1>1, NextNameIsFirst
  <2> HIDE DEF n
  <2>3. /\ Held'[t] = Held[t] \cup {2 * n + 1}
        /\ \A u \in Task \ {t} : Held'[u] = Held[u]
    BY <2>1 DEF Held, Inv, TypeOK
  <2>4. Ascending'
    <3> SUFFICES ASSUME NEW u \in Task, NEW m \in LockNames[job[u]] \ files'[u]
                 PROVE  /\ pc'[u] = "thread" => \A h \in Held'[u] : h < 2 * m
                        /\ pc'[u] = "file"   => \A h \in Held'[u] : h < 2 * m + 1
      BY <2>1 DEF Ascending
    <3>1. CASE u = t
      <4>1. m \in Nat /\ n < m
        BY <1>2, <2>1, <2>2, <3>1 DEF Inv, TypeOK
      <4>2. pc'[t] # "file"
        BY <2>1 DEF Inv, TypeOK
      <4>3. Held[t] \in SUBSET Nat
        BY DEF Held, Inv, TypeOK, Name
      <4>4. ASSUME NEW h \in Held'[t] PROVE h < 2 * m
        BY <1>2, <1>3, <2>3, <4>1, <4>3
      <4> QED
        BY <3>1, <4>2, <4>4
    <3>2. CASE u # t
      BY <2>1, <2>3, <3>2 DEF RankInv, Ascending, Inv, TypeOK
    <3> QED
      BY <3>1, <3>2
  <2>5. Defeated' = Defeated
    BY <2>1 DEF Defeated
  <2>6. ASSUME NEW u \in Defeated
        PROVE  u \in Task /\ defeatedBy[u] \in Task
    BY <2>6, DefeatedIsTask DEF Inv
  <2>7. \A u \in Task : pc'[u] = pc[u] \/ (u = t /\ pc'[u] \in {"thread", "start", "run"})
    BY <2>1 DEF Inv, TypeOK
  <2>8. Ranked'
    BY <1>1, <2>1, <2>3, <2>5, <2>6, <2>7, FewerDefeats DEF Inv, RankInv
  <2> QED
    BY <2>4, <2>8 DEF RankInv
<1> QED
  BY <1>4, <1>5

LEMMA FileUnusableRank ==
  ASSUME Inv, RankInv, NEW t \in Task, FileUnusable(t)
  PROVE  RankInv'
<1> DEFINE n == NextName(t)
<1>1. pc[t] = "file" /\ GiveUp(t, {}) /\ UNCHANGED <<threads, files>>
  BY DEF FileUnusable, locks
<1>2. n \in Nat /\ n <= NameCount /\ n \in LockNames[job[t]] \ files[t]
  BY <1>1, NextNameIsNeeded DEF Name
<1>3. \A h \in Held[t] : h < 2 * n + 1
  BY <1>1, <1>2 DEF RankInv, Ascending
<1>4. 2 * n + 1 \in Nat /\ 2 * n + 1 <= 2 * NameCount + 1
  BY <1>2
<1> HIDE DEF n
<1> QED
  BY <1>1, <1>3, <1>4, GiveUpRank

\* A task that goes on without taking a lock.
LEMMA QuietRank ==
  ASSUME Inv, RankInv, NEW t \in Task, pc[t] \notin {"idle", "thread", "file"},
         NEW next \in {"run", "release"}, pc[t] = "release" => next = "release",
         pc' = [pc EXCEPT ![t] = next],
         UNCHANGED <<job, defeatedBy>>,
         \A u \in Task \ {t} : threads'[u] = threads[u] /\ files'[u] = files[u],
         threads'[t] \subseteq threads[t], files'[t] \subseteq files[t]
  PROVE  RankInv'
<1>1. \A u \in Task \ {t} : pc'[u] = pc[u] /\ Held'[u] = Held[u]
  BY DEF Held, Inv, TypeOK
<1>2. pc'[t] = next /\ Held'[t] \subseteq Held[t]
  BY DEF Held, Inv, TypeOK
<1>3. Ascending'
  BY <1>1, <1>2, SameAscending DEF RankInv
<1>4. Defeated' = Defeated
  BY DEF Defeated
<1>5. ASSUME NEW u \in Defeated
      PROVE  u \in Task /\ defeatedBy[u] \in Task
  BY <1>5, DefeatedIsTask DEF Inv
<1>6. Ranked'
  BY <1>1, <1>2, <1>4, <1>5, FewerDefeats DEF Inv, RankInv
<1> QED
  BY <1>3, <1>6 DEF RankInv

LEMMA TaskStepRank ==
  ASSUME Inv, RankInv, NEW t \in Task, TaskStep(t)
  PROVE  RankInv'
<1>1. CASE StartWorker(t)
  BY <1>1, QuietRank DEF StartWorker, locks
<1>2. CASE Finish(t)
  BY <1>2, QuietRank DEF Finish, locks
<1>3. CASE ReleaseFile(t)
  <2>1. pc[t] = "release" /\ pc' = [pc EXCEPT ![t] = "release"]
    BY <1>3 DEF ReleaseFile, Inv, TypeOK
  <2>2. files' = [files EXCEPT ![t] = @ \ {Last(files[t])}]
        /\ UNCHANGED <<threads, job, defeatedBy>>
    BY <1>3 DEF ReleaseFile
  <2>3. files'[t] \subseteq files[t] /\ \A u \in Task \ {t} : files'[u] = files[u]
    BY <2>2 DEF Inv, TypeOK
  <2> QED
    BY <2>1, <2>2, <2>3, QuietRank
<1>4. CASE ReleaseThread(t)
  <2>1. pc[t] = "release" /\ files' = files
        /\ threads' = [threads EXCEPT ![t] = @ \ {Last(threads[t])}]
    BY <1>4 DEF ReleaseThread
  <2>2. threads'[t] \subseteq threads[t] /\ \A u \in Task \ {t} : threads'[u] = threads[u]
    BY <2>1 DEF Inv, TypeOK
  <2>3. CASE Ended(t)
    BY <2>1, <2>2, <2>3, EndedRank
  <2>4. CASE UNCHANGED <<pc, job, defeatedBy>>
    <3>1. pc' = [pc EXCEPT ![t] = "release"]
      BY <2>1, <2>4 DEF Inv, TypeOK
    <3> QED
      BY <2>1, <2>2, <2>4, <3>1, QuietRank
  <2> QED
    BY <1>4, <2>3, <2>4 DEF ReleaseThread
<1>5. CASE FileError(t)
  BY <1>5, EndedRank DEF FileError, Inv, TypeOK
<1> QED
  BY <1>1, <1>2, <1>3, <1>4, <1>5, BeginRank, TryThreadLockRank, TryFileLockRank,
     FileUnusableRank DEF TaskStep

LEMMA ProcessStepRank ==
  ASSUME Inv, RankInv, NEW p \in Process,
         \/ StartScheduler(p) \/ Interrupt(p) \/ LoopFails(p) \/ Exit(p)
         \/ StartServer(p) \/ Crash(p)
  PROVE  RankInv'
<1>1. ASSUME UNCHANGED <<pc, job, locks, defeatedBy>>
      PROVE  RankInv'
  BY <1>1 DEF RankInv, Ascending, Ranked, Placed, Defeated, Held, locks
<1>2. CASE Exit(p) \/ Crash(p)
  <2>1. Vanish(p) /\ TasksOf(p) \in SUBSET Task
    BY <1>2 DEF Exit, Crash, TasksOf
  <2> QED
    BY <2>1, ForgetRank DEF Vanish
<1> QED
  BY <1>1, <1>2 DEF StartScheduler, Interrupt, LoopFails, StartServer

LEMMA RankStep == Inv /\ RankInv /\ [Next]_vars => RankInv'
<1> SUFFICES ASSUME Inv, RankInv, [Next]_vars PROVE RankInv'
  OBVIOUS
<1>1. CASE UNCHANGED vars
  BY <1>1 DEF RankInv, Ascending, Ranked, Placed, Defeated, Held, vars, locks
<1> QED
  BY <1>1, TaskStepRank, ProcessStepRank DEF Next, Process

LEMMA RankInit == Init => RankInv
<1> SUFFICES ASSUME Init PROVE RankInv
  OBVIOUS
<1>1. Defeated = {}
  BY DEF Init, Defeated
<1>2. [t \in Task |-> 0] \in [Task -> Nat]
  OBVIOUS
<1>3. Placed([t \in Task |-> 0])
  BY <1>1 DEF Placed
<1> QED
  BY <1>2, <1>3 DEF Init, RankInv, Ascending, Ranked

(***************************************************************************)
(* However many tasks compete for however many names, those that give up   *)
(* never all give up for one another: the one that came furthest gave up   *)
(* for a task that did not.                                                *)
(***************************************************************************)
THEOREM OneGetsThrough == Spec => []SomeoneGetsThrough
<1>1. Inv /\ RankInv => SomeoneGetsThrough
  <2> SUFFICES ASSUME Inv, RankInv, Defeated # {}
               PROVE  \E t \in Defeated : defeatedBy[t] \notin Defeated
    BY DEF SomeoneGetsThrough
  <2>1. PICK place \in [Task -> Nat] : Placed(place)
    BY DEF RankInv, Ranked
  <2> DEFINE left == {2 * NameCount + 1 - place[t] : t \in Defeated}
  <2>2. left \in SUBSET Nat /\ left # {}
    <3>1. \A t \in Defeated : place[t] \in Nat /\ place[t] <= 2 * NameCount + 1
      BY <2>1 DEF Placed, Defeated
    <3>2. \A t \in Defeated : 2 * NameCount + 1 - place[t] \in Nat
      BY <3>1
    <3> QED
      BY <3>2
  <2>3. PICK k \in left : \A m \in left : k <= m
    <3> HIDE DEF left
    <3> QED
      BY <2>2, Smallest
  <2>4. PICK t \in Defeated : k = 2 * NameCount + 1 - place[t]
    BY <2>3
  <2>5. ASSUME defeatedBy[t] \in Defeated PROVE FALSE
    <3> DEFINE u == defeatedBy[t]
    <3>1. place[t] < place[u] /\ place[t] \in Nat /\ place[u] \in Nat
      BY <2>1, <2>5 DEF Placed, Defeated
    <3>2. k <= 2 * NameCount + 1 - place[u]
      BY <2>3, <2>5
    <3> QED
      BY <2>4, <3>1, <3>2
  <2> QED
    BY <2>5
<1> QED
  BY <1>1, InvHolds, RankInit, RankStep, PTL DEF Spec
=============================================================================
