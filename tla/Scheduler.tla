----------------------------- MODULE Scheduler ------------------------------
(***************************************************************************)
(* sylar::Scheduler (sylar/scheduler.h, sylar/scheduler.cc) and the part   *)
(* of sylar::Fiber it drives (sylar/fiber.cc): an N-M coroutine scheduler. *)
(* Pool threads, and with use_caller the thread that owns the scheduler,   *)
(* execute run(): take the first eligible entry of the shared queue under  *)
(* m_mutex, resume its fiber, and when the queue has nothing for them      *)
(* resume their idle fiber, which ends once stopping() holds.              *)
(*                                                                         *)
(* A "job" is a coroutine: a scheduled callback is one too, since run()    *)
(* wraps it in cb_fiber before it executes.  The context of a job is on a  *)
(* processor from Resume(t) until SwapOut(t).                              *)
(***************************************************************************)
EXTENDS Naturals, Sequences, SequencesExt, FiniteSets

CONSTANTS
  Workers,    \* the threads of m_threads
  Main,       \* the thread that owns the scheduler and calls stop()
  UseCaller,  \* m_useCaller: does Main execute run() inside stop()?
  Jobs,       \* the coroutines the program may ever submit
  MaxYields,  \* bound: how often one job yields before it finishes
  AnyThread,  \* the thread argument -1 of schedule()
  NoJob

Runners == Workers \cup (IF UseCaller THEN {Main} ELSE {})

ASSUME SchedulerAssumption ==
  /\ IsFiniteSet(Workers)
  /\ Main \notin Workers
  /\ AnyThread \notin Workers \cup {Main}
  /\ NoJob \notin Jobs
  /\ UseCaller \in BOOLEAN
  /\ Runners # {}                        \* SYLAR_ASSERT(threads > 0)
  /\ MaxYields \in Nat

VARIABLES
  m_tasks,              \* the queue: entries [job, thr]
  m_activeThreadCount,
  m_idleThreadCount,
  m_stopping,
  m_state,              \* Fiber::m_state of every job
  pc,                   \* where each thread is in run()
  task,                 \* the local variable task of run(): the job taken
  idleTerm,             \* threads whose idle fiber is in state TERM
  mainPc,               \* where Main is in the life of the scheduler
  submitted,            \* jobs that were ever scheduled
  yields                \* how often each job has yielded

vars == <<m_tasks, m_activeThreadCount, m_idleThreadCount, m_stopping,
          m_state, pc, task, idleTerm, mainPc, submitted, yields>>

Counters == <<m_activeThreadCount, m_idleThreadCount>>
ClientVars == <<submitted, yields>>

Entries == [job : Jobs, thr : Runners \cup {AnyThread}]
Labels == {"unborn", "scan", "empty", "idle", "unidle", "dispatch", "exec",
           "yielding", "swap", "ret", "exited"}
MainLabels == {"init", "running", "stop", "root", "join", "done"}

\* Between ++m_activeThreadCount and --m_activeThreadCount.
Busy == {"dispatch", "exec", "yielding", "swap", "ret"}

Init ==
  /\ m_tasks = <<>>
  /\ m_activeThreadCount = 0
  /\ m_idleThreadCount = 0
  /\ m_stopping = FALSE
  /\ m_state = [j \in Jobs |-> "READY"]
  /\ pc = [t \in Runners |-> "unborn"]
  /\ task = [t \in Runners |-> NoJob]
  /\ idleTerm = {}
  /\ mainPc = "init"
  /\ submitted = {}
  /\ yields = [j \in Jobs |-> 0]

Goto(t, from, to) ==
  /\ pc[t] = from
  /\ pc' = [pc EXCEPT ![t] = to]

\* schedule(): scheduleNoLock() under m_mutex.  The tickle that may follow is
\* a log line in this class; IOManager overrides it.
Schedule(j, thr) == m_tasks' = Append(m_tasks, [job |-> j, thr |-> thr])

\* Faulty variants of the definitions that follow them, each the way a bug
\* could be written, show what the properties detect; no action uses them.
StoppingFlagOnly == m_stopping

\* Scheduler::stopping(), evaluated under m_mutex.
Stopping ==
  /\ m_stopping
  /\ m_tasks = <<>>
  /\ m_activeThreadCount = 0

-----------------------------------------------------------------------------
(* The owner of the scheduler.                                             *)

Start ==
  /\ mainPc = "init"
  /\ ~m_stopping
  /\ mainPc' = "running"
  /\ pc' = [t \in Runners |-> IF t \in Workers THEN "scan" ELSE pc[t]]
  /\ UNCHANGED <<m_tasks, Counters, m_stopping, m_state, task, idleTerm,
                 ClientVars>>

\* The owner schedules a new job; it may do so before start(), not after
\* it called stop().
Submit(j, thr) ==
  /\ mainPc \in {"init", "running"}
  /\ j \in Jobs \ submitted
  /\ Schedule(j, thr)
  /\ submitted' = submitted \cup {j}
  /\ UNCHANGED <<Counters, m_stopping, m_state, pc, task, idleTerm, mainPc,
                 yields>>

\* stop() up to the root fiber; m_stopping is written without m_mutex.
Stop ==
  /\ mainPc = "running"
  /\ ~Stopping
  /\ m_stopping' = TRUE
  /\ mainPc' = "stop"
  /\ UNCHANGED <<m_tasks, Counters, m_state, pc, task, idleTerm, ClientVars>>

\* m_rootFiber->resume(): Main executes run() itself.
ResumeRoot ==
  /\ mainPc = "stop"
  /\ IF UseCaller
     THEN mainPc' = "root" /\ pc' = [pc EXCEPT ![Main] = "scan"]
     ELSE mainPc' = "join" /\ UNCHANGED pc
  /\ UNCHANGED <<m_tasks, Counters, m_stopping, m_state, task, idleTerm,
                 ClientVars>>

RootEnd ==
  /\ mainPc = "root"
  /\ pc[Main] = "exited"
  /\ mainPc' = "join"
  /\ UNCHANGED <<m_tasks, Counters, m_stopping, m_state, pc, task, idleTerm,
                 ClientVars>>

\* The joins return and so does stop().
Join ==
  /\ mainPc = "join"
  /\ \A t \in Workers : pc[t] = "exited"
  /\ mainPc' = "done"
  /\ UNCHANGED <<m_tasks, Counters, m_stopping, m_state, pc, task, idleTerm,
                 ClientVars>>

-----------------------------------------------------------------------------
(* run(): one iteration of its loop.                                       *)

EligibleEvenRunning(t) ==
  {i \in DOMAIN m_tasks : m_tasks[i].thr \in {AnyThread, t}}

EligibleFrontOnly(t) ==
  {i \in DOMAIN m_tasks : i = 1 /\ m_tasks[i].thr \in {AnyThread, t}
                                /\ m_state[m_tasks[i].job] # "RUNNING"}

\* Entries the scan does not skip: not pinned to another thread, and not a
\* fiber whose state still is RUNNING.
Eligible(t) ==
  {i \in DOMAIN m_tasks : /\ m_tasks[i].thr \in {AnyThread, t}
                          /\ m_state[m_tasks[i].job] # "RUNNING"}

Scan(t) ==
  \/ \E i \in Eligible(t) :
       /\ \A k \in Eligible(t) : i <= k
       /\ Goto(t, "scan", "dispatch")
       /\ m_tasks' = RemoveAt(m_tasks, i)
       /\ task' = [task EXCEPT ![t] = m_tasks[i].job]
       /\ m_activeThreadCount' = m_activeThreadCount + 1
       /\ UNCHANGED <<m_idleThreadCount, m_stopping, m_state, idleTerm,
                      mainPc, ClientVars>>
  \/ /\ Eligible(t) = {}
     /\ Goto(t, "scan", "empty")
     /\ UNCHANGED <<m_tasks, Counters, m_stopping, m_state, task, idleTerm,
                    mainPc, ClientVars>>

\* No task: leave the loop if the idle fiber has ended, else resume it.
EnterIdle(t) ==
  /\ IF t \in idleTerm
     THEN Goto(t, "empty", "exited") /\ UNCHANGED m_idleThreadCount
     ELSE Goto(t, "empty", "idle") /\ m_idleThreadCount' = m_idleThreadCount + 1
  /\ UNCHANGED <<m_tasks, m_activeThreadCount, m_stopping, m_state, task,
                 idleTerm, mainPc, ClientVars>>

\* Scheduler::idle(): the idle fiber returns when stopping(), else yields.
Idle(t) ==
  /\ Goto(t, "idle", "unidle")
  /\ idleTerm' = IF Stopping THEN idleTerm \cup {t} ELSE idleTerm
  /\ UNCHANGED <<m_tasks, Counters, m_stopping, m_state, task, mainPc,
                 ClientVars>>

LeaveIdle(t) ==
  /\ Goto(t, "unidle", "scan")
  /\ m_idleThreadCount' = m_idleThreadCount - 1
  /\ UNCHANGED <<m_tasks, m_activeThreadCount, m_stopping, m_state, task,
                 idleTerm, mainPc, ClientVars>>

\* Fiber::resume() of the job taken.
Resume(t) ==
  /\ Goto(t, "dispatch", "exec")
  /\ m_state' = [m_state EXCEPT ![task[t]] = "RUNNING"]
  /\ UNCHANGED <<m_tasks, Counters, m_stopping, task, idleTerm, mainPc,
                 ClientVars>>

ReturnStillActive(t) ==
  /\ Goto(t, "ret", "scan")
  /\ task' = [task EXCEPT ![t] = NoJob]
  /\ UNCHANGED <<m_tasks, Counters, m_stopping, m_state, idleTerm, mainPc,
                 ClientVars>>

\* resume() has returned in run(): --m_activeThreadCount; task.reset().
Return(t) ==
  /\ Goto(t, "ret", "scan")
  /\ m_activeThreadCount' = m_activeThreadCount - 1
  /\ task' = [task EXCEPT ![t] = NoJob]
  /\ UNCHANGED <<m_tasks, m_idleThreadCount, m_stopping, m_state, idleTerm,
                 mainPc, ClientVars>>

-----------------------------------------------------------------------------
(* The job a thread executes.                                              *)

\* It schedules another coroutine.
Spawn(t, j, thr) ==
  /\ pc[t] = "exec"
  /\ j \in Jobs \ submitted
  /\ Schedule(j, thr)
  /\ submitted' = submitted \cup {j}
  /\ UNCHANGED <<Counters, m_stopping, m_state, pc, task, idleTerm, mainPc,
                 yields>>

\* It schedules itself, as a fiber must before it yields on its own.
Reschedule(t, thr) ==
  /\ Goto(t, "exec", "yielding")
  /\ yields[task[t]] < MaxYields
  /\ Schedule(task[t], thr)
  /\ yields' = [yields EXCEPT ![task[t]] = @ + 1]
  /\ UNCHANGED <<Counters, m_stopping, m_state, task, idleTerm, mainPc,
                 submitted>>

\* Fiber::yield() up to m_state = READY: the context is still on this thread.
MarkReady(t) ==
  /\ Goto(t, "yielding", "swap")
  /\ m_state' = [m_state EXCEPT ![task[t]] = "READY"]
  /\ UNCHANGED <<m_tasks, Counters, m_stopping, task, idleTerm, mainPc,
                 ClientVars>>

\* Fiber::MainFunc() after the callback returned.
Finish(t) ==
  /\ Goto(t, "exec", "swap")
  /\ m_state' = [m_state EXCEPT ![task[t]] = "TERM"]
  /\ UNCHANGED <<m_tasks, Counters, m_stopping, task, idleTerm, mainPc,
                 ClientVars>>

\* The swapcontext of yield(): the context is saved, run() continues.
SwapOut(t) ==
  /\ Goto(t, "swap", "ret")
  /\ UNCHANGED <<m_tasks, Counters, m_stopping, m_state, task, idleTerm,
                 mainPc, ClientVars>>

-----------------------------------------------------------------------------
Pins == Runners \cup {AnyThread}

\* What one thread of run() does next; it never blocks.
Thread(t) ==
  \/ Scan(t) \/ EnterIdle(t) \/ Idle(t) \/ LeaveIdle(t)
  \/ Resume(t) \/ MarkReady(t) \/ Finish(t) \/ SwapOut(t) \/ Return(t)
  \/ \E thr \in Pins : Reschedule(t, thr) \/ \E j \in Jobs : Spawn(t, j, thr)

StopSteps == ResumeRoot \/ RootEnd \/ Join

Next ==
  \/ \E t \in Runners : Thread(t)
  \/ StopSteps
  \/ Start
  \/ \E j \in Jobs, thr \in Pins : Submit(j, thr)
  \/ Stop
  \/ mainPc = "done" /\ UNCHANGED vars

Spec == Init /\ [][Next]_vars

\* Threads keep running and a stop() under way continues; nothing forces the
\* program to submit a job or to call stop().
FairSpec == /\ Spec
            /\ \A t \in Runners : WF_vars(Thread(t))
            /\ WF_vars(StopSteps)
-----------------------------------------------------------------------------
(* Properties.                                                             *)

TypeOK ==
  /\ m_tasks \in Seq(Entries)
  /\ m_activeThreadCount \in Nat
  /\ m_idleThreadCount \in Nat
  /\ m_stopping \in BOOLEAN
  /\ m_state \in [Jobs -> {"READY", "RUNNING", "TERM"}]
  /\ pc \in [Runners -> Labels]
  /\ task \in [Runners -> Jobs \cup {NoJob}]
  /\ idleTerm \subseteq Runners
  /\ mainPc \in MainLabels
  /\ submitted \subseteq Jobs
  /\ yields \in [Jobs -> Nat]

Queued(j) == \E i \in DOMAIN m_tasks : m_tasks[i].job = j
Holders(j, labels) == {t \in Runners : task[t] = j /\ pc[t] \in labels}

\* stop() "returns after every scheduled task has been executed"
\* (scheduler.h:84): when it is done every job ever submitted has run to
\* its end, the queue is empty and every thread has left run().
StopReturnsQuiescent ==
  mainPc = "done" =>
    /\ \A j \in submitted : m_state[j] = "TERM"
    /\ m_tasks = <<>>
    /\ \A t \in Runners : pc[t] = "exited"

\* Once the idle fiber of any thread has ended (the thread's way out of
\* run(), scheduler.cc:212-215), no thread starts, runs or queues anything
\* any more: the decision to leave, taken under m_mutex by one thread, is
\* final for all of them.
TerminationIsFinal ==
  [][idleTerm # {} =>
       UNCHANGED <<m_tasks, task, m_activeThreadCount, m_state>>]_vars

\* The assertion of Fiber::resume() (fiber.cc:150) never fails: the state that
\* the scan read under m_mutex still holds when the fiber is resumed outside.
ResumeOnlyReady ==
  \A t \in Runners : pc[t] = "dispatch" => m_state[task[t]] = "READY"

\* No two threads execute the code of one job, although it may be in the
\* queue while it executes (the skip of RUNNING fibers, scheduler.cc:176).
OneExecutor ==
  \A j \in Jobs : Cardinality(Holders(j, {"exec", "yielding"})) <= 1

\* A job taken from the queue has its context saved: no thread still is on
\* its stack.  scheduler.cc:173-175 claims the skip of RUNNING fibers deals
\* with a fiber that is scheduled before it has yielded.
OneStackUser ==
  \A j \in Jobs : Cardinality(Holders(j, {"exec", "yielding", "swap"})) <= 1

\* Every job that is submitted is eventually executed to its end: entries
\* for other threads ahead of it in the queue do not hold it up
\* (scheduler.cc:157-162).  Only a job pinned to the owner's thread may wait
\* for the owner to call stop().
EveryJobFinishes ==
  \A j \in Jobs :
    (j \in submitted /\ mainPc # "init") ~>
      \/ m_state[j] = "TERM"
      \/ mainPc = "running" /\ \E i \in DOMAIN m_tasks :
                                m_tasks[i] = [job |-> j, thr |-> Main]

\* A stop() that was called returns.
StopReturns == mainPc = "stop" ~> mainPc = "done"

\* The scheduler implements the pool its clients are promised: a job runs
\* from Resume to MarkReady or Finish.
JobPhase(j) ==
  IF j \notin submitted THEN "new"
  ELSE IF Holders(j, {"exec", "yielding"}) # {} THEN "running"
  ELSE IF m_state[j] = "TERM" THEN "done" ELSE "waiting"

Pool == INSTANCE TaskPool WITH
  job <- [j \in Jobs |-> JobPhase(j)],
  phase <- IF mainPc \in {"init", "running"} THEN "open"
           ELSE IF mainPc = "done" THEN "closed" ELSE "closing"

PoolSpec == Pool!Spec
=============================================================================
