-------------------------- MODULE IOManagerProofs ---------------------------
(***************************************************************************)
(* Theorems about Scheduler and about IOManager, which is one, for every   *)
(* set of threads, jobs and fibers.  Those about Scheduler rest on         *)
(* ThreadInv and CountInv (the threads that run, the counters), TokenInv   *)
(* (where a job is) and ControlInv (what a terminated idle fiber and each  *)
(* stage of stop() imply).  In IOManager what a fiber waits for moves      *)
(* between the queue, the threads, the events of the socket, the timers,   *)
(* the callbacks of timers that have expired, and the callbacks as jobs;   *)
(* FibersInv and WakesInv say that it never is in two of these places or   *)
(* in none.  LeaveInv and QuietInv say what threads that leave leave       *)
(* behind.                                                                 *)
(***************************************************************************)
EXTENDS IOManager, SequenceLemmas, FiniteSetTheorems, TLAPS

-----------------------------------------------------------------------------
(* Scheduler.                                                              *)

BusySet == {t \in Runners : pc[t] \in Busy}
IdleSet == {t \in Runners : pc[t] \in {"idle", "unidle"}}

\* Each counter counts the threads between its increment and decrement.
CountInv ==
  /\ m_activeThreadCount = Cardinality(BusySet)
  /\ m_idleThreadCount = Cardinality(IdleSet)

\* No thread is in run() before the owner puts it there, and a thread that
\* counts as active has a job.
ThreadInv ==
  /\ mainPc = "init" => \A t \in Workers : pc[t] = "unborn"
  /\ mainPc \in {"init", "running", "stop"} /\ UseCaller =>
       pc[Main] = "unborn"
  /\ \A t \in Runners : pc[t] \in Busy => task[t] \in Jobs

\* Between taking a job and having marked it READY or TERM.
Held == {"dispatch", "exec", "yielding"}

TakenInv ==
  /\ \A t \in Runners : pc[t] \in Busy => task[t] \in submitted
  /\ \A t \in Runners : pc[t] = "dispatch" => m_state[task[t]] = "READY"
  /\ \A t \in Runners :
       pc[t] \in {"exec", "yielding"} => m_state[task[t]] = "RUNNING"
  /\ \A t \in Runners : pc[t] = "yielding" => Queued(task[t])
  /\ \A t, u \in Runners :
       pc[t] \in Held /\ pc[u] \in Held /\ task[t] = task[u] => t = u

QueueInv ==
  /\ \A i, k \in DOMAIN m_tasks : m_tasks[i].job = m_tasks[k].job => i = k
  /\ \A i \in DOMAIN m_tasks : /\ m_tasks[i].job \in submitted
                               /\ m_state[m_tasks[i].job] # "TERM"
  /\ \A i \in DOMAIN m_tasks, t \in Runners :
       pc[t] \in {"dispatch", "exec"} => task[t] # m_tasks[i].job

\* A submitted job that is not finished is in exactly one place: one entry of
\* the queue, or one thread that has taken it and not given it back.
TokenInv ==
  /\ TakenInv
  /\ QueueInv
  /\ \A j \in Jobs \ submitted : m_state[j] = "READY"
  /\ \A j \in submitted : \/ m_state[j] = "TERM"
                          \/ Queued(j)
                          \/ Holders(j, {"dispatch", "exec"}) # {}

\* An idle fiber ends only in a quiescent scheduler, which stays quiescent.
ControlInv ==
  /\ m_stopping <=> mainPc \in {"stop", "root", "join", "done"}
  /\ mainPc \in {"join", "done"} /\ UseCaller => pc[Main] = "exited"
  /\ mainPc = "done" => \A t \in Workers : pc[t] = "exited"
  /\ \A t \in Runners : pc[t] = "exited" => t \in idleTerm
  /\ idleTerm # {} =>
       m_stopping /\ m_tasks = <<>> /\ \A t \in Runners : pc[t] \notin Busy

-----------------------------------------------------------------------------
LEMMA RunnersFinite == IsFiniteSet(Runners)
  <1>1. IsFiniteSet(Workers \cup {Main})
    BY SchedulerAssumption, FS_AddElement
  <1>2. Runners \in SUBSET (Workers \cup {Main})
    BY DEF Runners
  <1> QED
    BY <1>1, <1>2, FS_Subset
\* Moving one thread into or out of a set of threads changes its size by one.
LEMMA CountJoin ==
  ASSUME NEW S \in SUBSET Runners, NEW t \in Runners \ S
  PROVE  Cardinality(S) \in Nat /\ Cardinality(S \cup {t}) = Cardinality(S) + 1
  <1>1. IsFiniteSet(S)
    BY RunnersFinite, FS_Subset
  <1> QED
    BY <1>1, FS_AddElement, FS_CardinalityType

LEMMA CountLeave ==
  ASSUME NEW S \in SUBSET Runners, NEW t \in S
  PROVE  Cardinality(S) \in Nat \ {0} /\ Cardinality(S \ {t}) = Cardinality(S) - 1
  <1>1. IsFiniteSet(S)
    BY RunnersFinite, FS_Subset
  <1>2. Cardinality(S) \in Nat /\ Cardinality(S) # 0
    BY <1>1, FS_CardinalityType, FS_EmptySet
  <1> QED
    BY <1>1, <1>2, FS_RemoveElement

LEMMA CountNat ==
  ASSUME NEW S \in SUBSET Runners
  PROVE  Cardinality(S) \in Nat
  BY RunnersFinite, FS_Subset, FS_CardinalityType

LEMMA EntryType ==
  ASSUME TypeOK, NEW i \in DOMAIN m_tasks
  PROVE  m_tasks[i] \in Entries /\ m_tasks[i].job \in Jobs
  <1>1. i \in 1..Len(m_tasks)
    BY LenProperties DEF TypeOK
  <1>2. m_tasks[i] \in Entries
    BY <1>1, ElementOfSeq DEF TypeOK
  <1> QED
    BY <1>2 DEF Entries

-----------------------------------------------------------------------------
(* The counters, and with them the types.                                  *)

LEMMA TypeInit == Init => TypeOK /\ CountInv /\ ThreadInv
  <1> SUFFICES ASSUME Init PROVE TypeOK /\ CountInv /\ ThreadInv
    OBVIOUS
  <1>1. TypeOK
    <2>1. m_tasks \in Seq(Entries)
      BY EmptySeq DEF Init
    <2> QED
      BY <2>1 DEF Init, TypeOK, Labels, MainLabels
  <1>2. BusySet = {} /\ IdleSet = {}
    BY DEF Init, BusySet, IdleSet, Busy
  <1>3. CountInv
    BY <1>2, FS_EmptySet DEF Init, CountInv
  <1>4. ThreadInv
    BY DEF Init, ThreadInv, Runners, Busy
  <1> QED
    BY <1>1, <1>3, <1>4

\* A step that moves thread t between labels of the same kind, or none at
\* all, leaves both sets of counted threads alone.
LEMMA CountsUnmoved ==
  ASSUME TypeOK, CountInv, UNCHANGED Counters,
         \A t \in Runners : /\ (pc'[t] \in Busy) <=> (pc[t] \in Busy)
                            /\ (pc'[t] \in {"idle", "unidle"})
                               <=> (pc[t] \in {"idle", "unidle"})
  PROVE  CountInv'
  <1>1. BusySet' = BusySet /\ IdleSet' = IdleSet
    BY DEF BusySet, IdleSet
  <1> QED
    BY <1>1 DEF CountInv, Counters

LEMMA ThreadStep == TypeOK /\ ThreadInv /\ [Next]_vars => ThreadInv'
  <1> SUFFICES ASSUME TypeOK, ThreadInv, [Next]_vars
               PROVE  ThreadInv'
    OBVIOUS
  <1> USE DEF TypeOK, ThreadInv, Goto, Runners
  <1>1. ASSUME NEW t \in Runners, Thread(t)
        PROVE  ThreadInv'
    <2>1. mainPc' = mainPc /\ \A u \in Runners : pc[u] = "unborn" => pc'[u] = "unborn"
      BY <1>1 DEF Thread, Scan, EnterIdle, Idle, LeaveIdle, Resume, Return,
                  Reschedule, Spawn, MarkReady, Finish, SwapOut
    <2>2. \A u \in Runners : pc'[u] \in Busy => task'[u] \in Jobs
      <3>1. CASE Scan(t)
        BY <3>1, EntryType DEF Scan, Eligible, Busy
      <3>2. CASE ~Scan(t)
        BY <1>1, <3>2 DEF Thread, EnterIdle, Idle, LeaveIdle, Resume, Return,
                  Reschedule, Spawn, MarkReady, Finish, SwapOut, Busy
      <3> QED
        BY <3>1, <3>2
    <2> QED
      BY <2>1, <2>2
  <1>2. CASE StopSteps \/ Start \/ Stop
    BY <1>2, SchedulerAssumption
       DEF StopSteps, ResumeRoot, RootEnd, Join, Start, Stop, Busy
  <1>3. CASE \E j \in Jobs, thr \in Pins : Submit(j, thr)
    BY <1>3 DEF Submit
  <1>4. CASE UNCHANGED vars
    BY <1>4 DEF vars
  <1> QED
    BY <1>1, <1>2, <1>3, <1>4 DEF Next

LEMMA TypeStep ==
  TypeOK /\ CountInv /\ ThreadInv /\ [Next]_vars => TypeOK' /\ CountInv'
  <1> SUFFICES ASSUME TypeOK, CountInv, ThreadInv, [Next]_vars
               PROVE  TypeOK' /\ CountInv'
    OBVIOUS
  <1> USE DEF TypeOK, Goto, Counters, ClientVars
  <1>1. ASSUME NEW t \in Runners, Scan(t)
        PROVE  TypeOK' /\ CountInv'
    <2>1. CASE Eligible(t) = {} /\ pc[t] = "scan"
               /\ pc' = [pc EXCEPT ![t] = "empty"]
               /\ UNCHANGED <<m_tasks, Counters, m_stopping, m_state, task,
                              idleTerm, mainPc, ClientVars>>
      <3>1. TypeOK'
        BY <2>1 DEF Labels
      <3>2. CountInv'
        BY <2>1, CountsUnmoved DEF Busy
      <3> QED
        BY <3>1, <3>2
    <2>2. ASSUME NEW i \in Eligible(t),
                 Goto(t, "scan", "dispatch"),
                 m_tasks' = RemoveAt(m_tasks, i),
                 task' = [task EXCEPT ![t] = m_tasks[i].job],
                 m_activeThreadCount' = m_activeThreadCount + 1,
                 UNCHANGED <<m_idleThreadCount, m_stopping, m_state,
                             idleTerm, mainPc, ClientVars>>
          PROVE  TypeOK' /\ CountInv'
      <3>1. i \in DOMAIN m_tasks
        BY DEF Eligible
      <3>2. m_tasks' \in Seq(Entries)
        BY <2>2, <3>1, RemoveAtProperties
      <3>3. m_tasks[i].job \in Jobs
        BY <3>1, EntryType
      <3>4. TypeOK'
        BY <2>2, <3>2, <3>3 DEF Labels
      <3>5. t \in Runners \ BusySet /\ BusySet' = BusySet \cup {t}
        BY <2>2 DEF BusySet, Busy
      <3>6. IdleSet' = IdleSet
        BY <2>2 DEF IdleSet
      <3>7. CountInv'
        BY <2>2, <3>5, <3>6, CountJoin DEF CountInv, BusySet
      <3> QED
        BY <3>4, <3>7
    <2> QED
      BY <1>1, <2>1, <2>2 DEF Scan
  <1>2. ASSUME NEW t \in Runners, EnterIdle(t)
        PROVE  TypeOK' /\ CountInv'
    <2>1. CASE t \in idleTerm
      <3>1. TypeOK'
        BY <1>2, <2>1 DEF EnterIdle, Labels
      <3>2. CountInv'
        BY <1>2, <2>1, CountsUnmoved DEF EnterIdle, Busy
      <3> QED
        BY <3>1, <3>2
    <2>2. CASE t \notin idleTerm
      <3>1. TypeOK'
        BY <1>2, <2>2 DEF EnterIdle, Labels
      <3>2. t \in Runners \ IdleSet /\ IdleSet' = IdleSet \cup {t}
        BY <1>2, <2>2 DEF EnterIdle, IdleSet
      <3>3. BusySet' = BusySet
        BY <1>2, <2>2 DEF EnterIdle, BusySet, Busy
      <3>4. CountInv'
        BY <1>2, <2>2, <3>2, <3>3, CountJoin DEF EnterIdle, CountInv, IdleSet
      <3> QED
        BY <3>1, <3>4
    <2> QED
      BY <2>1, <2>2
  <1>3. ASSUME NEW t \in Runners, Idle(t)
        PROVE  TypeOK' /\ CountInv'
    <2>1. TypeOK'
      BY <1>3 DEF Idle, Labels
    <2>2. CountInv'
      BY <1>3, CountsUnmoved DEF Idle, Busy
    <2> QED
      BY <2>1, <2>2
  <1>4. ASSUME NEW t \in Runners, LeaveIdle(t)
        PROVE  TypeOK' /\ CountInv'
    <2>1. t \in IdleSet /\ IdleSet' = IdleSet \ {t}
      BY <1>4 DEF LeaveIdle, IdleSet
    <2>2. BusySet' = BusySet
      BY <1>4 DEF LeaveIdle, BusySet, Busy
    <2>3. CountInv'
      BY <1>4, <2>1, <2>2, CountLeave DEF LeaveIdle, CountInv, IdleSet
    <2>4. m_idleThreadCount' \in Nat
      BY <2>1, <2>3, CountNat DEF CountInv, IdleSet
    <2>5. TypeOK'
      BY <1>4, <2>4 DEF LeaveIdle, Labels
    <2> QED
      BY <2>3, <2>5
  <1>5. ASSUME NEW t \in Runners, Resume(t)
        PROVE  TypeOK' /\ CountInv'
    <2>1. TypeOK'
      BY <1>5 DEF Resume, Labels
    <2>2. CountInv'
      BY <1>5, CountsUnmoved DEF Resume, Busy
    <2> QED
      BY <2>1, <2>2
  <1>6. ASSUME NEW t \in Runners, Return(t)
        PROVE  TypeOK' /\ CountInv'
    <2>1. t \in BusySet /\ BusySet' = BusySet \ {t}
      BY <1>6 DEF Return, BusySet, Busy
    <2>2. IdleSet' = IdleSet
      BY <1>6 DEF Return, IdleSet
    <2>3. CountInv'
      BY <1>6, <2>1, <2>2, CountLeave DEF Return, CountInv, BusySet
    <2>4. m_activeThreadCount' \in Nat
      BY <2>3, CountNat DEF CountInv, BusySet
    <2>5. TypeOK'
      BY <1>6, <2>4 DEF Return, Labels
    <2> QED
      BY <2>3, <2>5
  <1>7. ASSUME NEW t \in Runners, NEW thr \in Pins, Reschedule(t, thr)
        PROVE  TypeOK' /\ CountInv'
    <2>1. CountInv'
      BY <1>7, CountsUnmoved DEF Reschedule, Busy
    <2>2. task[t] \in Jobs /\ [job |-> task[t], thr |-> thr] \in Entries
      BY <1>7 DEF Reschedule, ThreadInv, Busy, Entries, Pins
    <2>3. m_tasks' \in Seq(Entries)
      BY <1>7, <2>2 DEF Reschedule, Schedule
    <2>4. yields' \in [Jobs -> Nat]
      BY <1>7, <2>2 DEF Reschedule
    <2>5. TypeOK'
      BY <1>7, <2>3, <2>4 DEF Reschedule, Labels
    <2> QED
      BY <2>1, <2>5
  <1>8. ASSUME NEW t \in Runners, NEW j \in Jobs, NEW thr \in Pins,
               Spawn(t, j, thr)
        PROVE  TypeOK' /\ CountInv'
    <2>1. CountInv'
      BY <1>8, CountsUnmoved DEF Spawn
    <2> QED
      BY <1>8, <2>1 DEF Spawn, Schedule, Entries, Pins
  <1>9. ASSUME NEW t \in Runners, MarkReady(t) \/ Finish(t) \/ SwapOut(t)
        PROVE  TypeOK' /\ CountInv'
    <2>1. TypeOK'
      BY <1>9 DEF MarkReady, Finish, SwapOut, Labels
    <2>2. CountInv'
      BY <1>9, CountsUnmoved DEF MarkReady, Finish, SwapOut, Busy
    <2> QED
      BY <2>1, <2>2
  <1>10. CASE Start
    <2>1. TypeOK'
      BY <1>10 DEF Start, Labels, MainLabels, Runners
    <2>2. CountInv'
      BY <1>10, CountsUnmoved DEF Start, Busy, ThreadInv
    <2> QED
      BY <2>1, <2>2
  <1>11. CASE ResumeRoot
    <2>1. TypeOK'
      BY <1>11 DEF ResumeRoot, Labels, MainLabels
    <2>2. CountInv'
      BY <1>11, CountsUnmoved DEF ResumeRoot, Busy, ThreadInv
    <2> QED
      BY <2>1, <2>2
  <1>12. CASE Stop \/ RootEnd \/ Join
    <2>1. TypeOK'
      BY <1>12 DEF Stop, RootEnd, Join, MainLabels
    <2>2. CountInv'
      BY <1>12, CountsUnmoved DEF Stop, RootEnd, Join
    <2> QED
      BY <2>1, <2>2
  <1>13. ASSUME NEW j \in Jobs, NEW thr \in Pins, Submit(j, thr)
         PROVE  TypeOK' /\ CountInv'
    <2>1. TypeOK'
      BY <1>13 DEF Submit, Schedule, Entries, Pins
    <2>2. CountInv'
      BY <1>13, CountsUnmoved DEF Submit
    <2> QED
      BY <2>1, <2>2
  <1>14. CASE UNCHANGED vars
    BY <1>14, CountsUnmoved DEF vars
  <1> QED
    BY <1>1, <1>2, <1>3, <1>4, <1>5, <1>6, <1>7, <1>8, <1>9, <1>10, <1>11,
       <1>12, <1>13, <1>14 DEF Next, Thread, StopSteps

-----------------------------------------------------------------------------
(* Where a job is.                                                         *)

LEMMA Appended ==
  ASSUME TypeOK, NEW e \in Entries, m_tasks' = Append(m_tasks, e)
  PROVE  /\ DOMAIN m_tasks' = DOMAIN m_tasks \cup {Len(m_tasks) + 1}
         /\ Len(m_tasks) + 1 \notin DOMAIN m_tasks
         /\ \A k \in DOMAIN m_tasks : m_tasks'[k] = m_tasks[k]
         /\ m_tasks'[Len(m_tasks) + 1] = e
  <1>1. m_tasks \in Seq(Entries) /\ Len(m_tasks) \in Nat
        /\ DOMAIN m_tasks = 1..Len(m_tasks)
    BY LenProperties DEF TypeOK
  <1> QED
    BY <1>1

\* The queue after a removal holds the other entries, in the same order.
LEMMA Removed ==
  ASSUME TypeOK, NEW i \in DOMAIN m_tasks, m_tasks' = RemoveAt(m_tasks, i)
  PROVE  /\ \A k \in DOMAIN m_tasks' :
              /\ (IF k < i THEN k ELSE k + 1) \in DOMAIN m_tasks \ {i}
              /\ m_tasks'[k] = m_tasks[IF k < i THEN k ELSE k + 1]
         /\ \A l \in DOMAIN m_tasks \ {i} :
              \E k \in DOMAIN m_tasks' : m_tasks'[k] = m_tasks[l]
         /\ DOMAIN m_tasks' \subseteq Nat /\ i \in Nat
  <1>1. m_tasks \in Seq(Entries) /\ Len(m_tasks) \in Nat
        /\ DOMAIN m_tasks = 1..Len(m_tasks)
    BY LenProperties DEF TypeOK
  <1>2. /\ DOMAIN m_tasks' = 1..(Len(m_tasks) - 1)
        /\ \A k \in 1..(Len(m_tasks) - 1) :
             m_tasks'[k] = IF k < i THEN m_tasks[k] ELSE m_tasks[k + 1]
    BY <1>1, RemoveAtProperties
  <1>3. ASSUME NEW l \in DOMAIN m_tasks \ {i}
        PROVE  \E k \in DOMAIN m_tasks' : m_tasks'[k] = m_tasks[l]
    <2>1. CASE l < i
      <3>1. l \in 1..(Len(m_tasks) - 1)
        BY <1>1, <2>1
      <3> QED
        BY <1>2, <2>1, <3>1
    <2>2. CASE l > i
      <3>1. l - 1 \in 1..(Len(m_tasks) - 1) /\ ~(l - 1 < i) /\ (l - 1) + 1 = l
        BY <1>1, <2>2
      <3>2. m_tasks'[l - 1] = m_tasks[l]
        BY <1>2, <3>1
      <3> QED
        BY <1>2, <3>1, <3>2
    <2> QED
      BY <1>1, <2>1, <2>2
  <1>4. ASSUME NEW k \in DOMAIN m_tasks'
        PROVE  /\ (IF k < i THEN k ELSE k + 1) \in DOMAIN m_tasks \ {i}
               /\ m_tasks'[k] = m_tasks[IF k < i THEN k ELSE k + 1]
    BY <1>1, <1>2
  <1> QED
    BY <1>1, <1>2, <1>3, <1>4

\* A step outside the labels of Held that touches no job.
LEMMA TokensUnmoved ==
  ASSUME TypeOK, TokenInv, UNCHANGED <<m_tasks, m_state, submitted>>,
         \A t \in Runners :
           /\ pc[t] \in Held \/ pc'[t] \in Held => pc'[t] = pc[t]
           /\ pc'[t] \in Busy => pc[t] \in Busy /\ task'[t] = task[t]
  PROVE  TokenInv'
  <1>1. \A j : Queued(j)' <=> Queued(j)
    BY DEF Queued
  <1>2. \A j : Holders(j, {"dispatch", "exec"})' = Holders(j, {"dispatch", "exec"})
    BY DEF Holders, Held, Busy
  <1>3. TakenInv'
    BY <1>1 DEF TokenInv, TakenInv, Held, Busy
  <1>4. QueueInv'
    BY DEF TokenInv, QueueInv, Held, Busy
  <1> QED
    BY <1>1, <1>2, <1>3, <1>4 DEF TokenInv

\* The two steps that add an entry: a new job, or the job that yields.
LEMMA TokensSubmitted ==
  ASSUME TypeOK, TokenInv, NEW j \in Jobs \ submitted, NEW thr \in Pins,
         Schedule(j, thr), submitted' = submitted \cup {j},
         UNCHANGED <<m_state, pc, task>>
  PROVE  TokenInv'
  <1> DEFINE n == Len(m_tasks) + 1
  <1>1. /\ DOMAIN m_tasks' = DOMAIN m_tasks \cup {n}
        /\ n \notin DOMAIN m_tasks
        /\ \A k \in DOMAIN m_tasks : m_tasks'[k] = m_tasks[k]
        /\ m_tasks'[n].job = j
    <2>1. [job |-> j, thr |-> thr] \in Entries
      BY DEF Entries, Pins
    <2> QED
      BY <2>1, Appended DEF Schedule
  <1> HIDE DEF n
  <1>2. \A k : Queued(k)' <=> Queued(k) \/ k = j
    BY <1>1 DEF Queued
  <1>3. TakenInv'
    BY <1>2 DEF TokenInv, TakenInv
  <1>4. QueueInv'
    <2>1. \A i \in DOMAIN m_tasks : m_tasks[i].job # j
      BY DEF TokenInv, QueueInv
    <2>2. \A t \in Runners : pc[t] \in Busy => task[t] # j
      BY DEF TokenInv, TakenInv
    <2>3. m_state[j] = "READY"
      BY DEF TokenInv
    <2> QED
      BY <1>1, <2>1, <2>2, <2>3 DEF TokenInv, QueueInv, Busy
  <1>5. \A k : Holders(k, {"dispatch", "exec"})' = Holders(k, {"dispatch", "exec"})
    BY DEF Holders
  <1> QED
    BY <1>2, <1>3, <1>4, <1>5 DEF TokenInv

LEMMA TokensRescheduled ==
  ASSUME TypeOK, ThreadInv, TokenInv, NEW t \in Runners, NEW thr \in Pins,
         Reschedule(t, thr)
  PROVE  TokenInv'
  <1> DEFINE n == Len(m_tasks) + 1
  <1>0. /\ task[t] \in Jobs
        /\ pc[t] = "exec" /\ pc' = [pc EXCEPT ![t] = "yielding"]
        /\ UNCHANGED <<m_state, task, submitted>>
    BY DEF Reschedule, Goto, ThreadInv, Busy
  <1>1. /\ DOMAIN m_tasks' = DOMAIN m_tasks \cup {n}
        /\ n \notin DOMAIN m_tasks
        /\ \A k \in DOMAIN m_tasks : m_tasks'[k] = m_tasks[k]
        /\ m_tasks'[n].job = task[t]
    <2>1. [job |-> task[t], thr |-> thr] \in Entries
      BY <1>0 DEF Entries, Pins
    <2> QED
      BY <2>1, Appended DEF Schedule, Reschedule
  <1> HIDE DEF n
  <1>2. \A k : Queued(k)' <=> Queued(k) \/ k = task[t]
    BY <1>1 DEF Queued
  <1>3. TakenInv'
    BY <1>0, <1>2 DEF TokenInv, TakenInv, TypeOK, Held, Busy
  <1>4. QueueInv'
    <2>1. \A i \in DOMAIN m_tasks : m_tasks[i].job # task[t]
      BY <1>0 DEF TokenInv, QueueInv
    <2>2. \A u \in Runners : u # t /\ pc[u] \in Held => task[u] # task[t]
      BY <1>0 DEF TokenInv, TakenInv, Held
    <2>3. m_state[task[t]] = "RUNNING" /\ task[t] \in submitted
      BY <1>0 DEF TokenInv, TakenInv, Busy
    <2> QED
      BY <1>0, <1>1, <2>1, <2>2, <2>3 DEF TokenInv, QueueInv, Held, TypeOK
  <1>5. \A k : k # task[t] => Holders(k, {"dispatch", "exec"})'
                             = Holders(k, {"dispatch", "exec"})
    BY <1>0 DEF Holders, TypeOK
  <1> QED
    BY <1>0, <1>2, <1>3, <1>4, <1>5 DEF TokenInv

\* The step that takes an entry: only a job that is not RUNNING is eligible,
\* so nobody executes it, not even the thread that queued it.
LEMMA TokensTaken ==
  ASSUME TypeOK, TokenInv, NEW t \in Runners, NEW i \in Eligible(t),
         Goto(t, "scan", "dispatch"), m_tasks' = RemoveAt(m_tasks, i),
         task' = [task EXCEPT ![t] = m_tasks[i].job],
         UNCHANGED <<m_state, submitted>>
  PROVE  TokenInv'
  <1> DEFINE at(k) == IF k < i THEN k ELSE k + 1
  <1>0. i \in DOMAIN m_tasks /\ m_state[m_tasks[i].job] # "RUNNING"
    BY DEF Eligible
  <1> PICK j \in Jobs : j = m_tasks[i].job
    BY <1>0, EntryType
  <1>1. i \in DOMAIN m_tasks /\ j \in submitted /\ m_state[j] = "READY"
    BY <1>0 DEF TokenInv, QueueInv, TypeOK
  <1>2. /\ \A k \in DOMAIN m_tasks' : /\ at(k) \in DOMAIN m_tasks \ {i}
                                      /\ m_tasks'[k] = m_tasks[at(k)]
        /\ \A l \in DOMAIN m_tasks \ {i} :
             \E k \in DOMAIN m_tasks' : m_tasks'[k] = m_tasks[l]
    BY <1>1, Removed
  <1>3. \A k, l \in DOMAIN m_tasks' : at(k) = at(l) => k = l
    BY <1>1, Removed
  <1>4. pc[t] = "scan" /\ pc' = [pc EXCEPT ![t] = "dispatch"]
    BY DEF Goto
  <1>5. \A u \in Runners : pc[u] \in Held => task[u] # j
    BY <1>1 DEF TokenInv, TakenInv, QueueInv, Held
  <1> HIDE DEF at
  <1>6. \A k \in DOMAIN m_tasks' : m_tasks'[k].job # j
    BY <1>1, <1>2 DEF TokenInv, QueueInv
  <1>7. \A k : k # j => (Queued(k)' <=> Queued(k))
    BY <1>1, <1>2 DEF Queued
  <1>8. TakenInv'
    BY <1>1, <1>4, <1>5, <1>7 DEF TokenInv, TakenInv, Held, Busy, TypeOK
  <1>9. QueueInv'
    <2>1. \A k, l \in DOMAIN m_tasks' : m_tasks'[k].job = m_tasks'[l].job => k = l
      BY <1>2, <1>3 DEF TokenInv, QueueInv
    <2>2. \A k \in DOMAIN m_tasks' : /\ m_tasks'[k].job \in submitted
                                    /\ m_state[m_tasks'[k].job] # "TERM"
      BY <1>2 DEF TokenInv, QueueInv
    <2>3. \A k \in DOMAIN m_tasks', u \in Runners :
            pc'[u] \in {"dispatch", "exec"} => task'[u] # m_tasks'[k].job
      BY <1>2, <1>4, <1>6 DEF TokenInv, QueueInv, TypeOK
    <2> QED
      BY <2>1, <2>2, <2>3 DEF QueueInv
  <1>10. \A k : Holders(k, {"dispatch", "exec"}) # {}
                => Holders(k, {"dispatch", "exec"})' # {}
    BY <1>4 DEF Holders, TypeOK
  <1>11. t \in Holders(j, {"dispatch", "exec"})'
    BY <1>4 DEF Holders, TypeOK
  <1> QED
    BY <1>7, <1>8, <1>9, <1>10, <1>11 DEF TokenInv

\* The steps that change the state of the job a thread has: resume() and the
\* two ways to give the job back.
LEMMA TokensResumed ==
  ASSUME TypeOK, ThreadInv, TokenInv, NEW t \in Runners, Resume(t)
  PROVE  TokenInv'
  <1> PICK j \in Jobs : j = task[t]
    BY DEF Resume, Goto, ThreadInv, Busy
  <1>1. /\ pc[t] = "dispatch" /\ pc' = [pc EXCEPT ![t] = "exec"]
        /\ m_state' = [m_state EXCEPT ![j] = "RUNNING"]
        /\ UNCHANGED <<m_tasks, task, submitted>>
    BY DEF Resume, Goto, ClientVars
  <1>2. \A k : Queued(k)' <=> Queued(k)
    BY <1>1 DEF Queued
  <1>3. j \in submitted /\ \A i \in DOMAIN m_tasks : m_tasks[i].job # j
    BY <1>1 DEF TokenInv, TakenInv, QueueInv, Busy
  <1>4. \A u \in Runners \ {t} : pc[u] \in Held => task[u] # j
    BY <1>1 DEF TokenInv, TakenInv, Held
  <1>5. TakenInv'
    BY <1>1, <1>2, <1>4 DEF TokenInv, TakenInv, Held, Busy, TypeOK
  <1>6. QueueInv'
    BY <1>1, <1>3 DEF TokenInv, QueueInv, TypeOK
  <1>7. \A k : Holders(k, {"dispatch", "exec"})' = Holders(k, {"dispatch", "exec"})
    BY <1>1 DEF Holders, TypeOK
  <1>8. t \in Holders(j, {"dispatch", "exec"})
    BY <1>1 DEF Holders
  <1> QED
    BY <1>1, <1>2, <1>3, <1>5, <1>6, <1>7, <1>8 DEF TokenInv, TypeOK

LEMMA TokensGivenBack ==
  ASSUME TypeOK, ThreadInv, TokenInv, NEW t \in Runners,
         MarkReady(t) \/ Finish(t)
  PROVE  TokenInv'
  <1> PICK j \in Jobs : j = task[t]
    BY DEF MarkReady, Finish, Goto, ThreadInv, Busy
  <1> PICK s \in {"READY", "TERM"} :
        m_state' = [m_state EXCEPT ![j] = s] /\ (s = "TERM" <=> pc[t] = "exec")
    BY DEF MarkReady, Finish, Goto
  <1>1. /\ pc[t] \in {"exec", "yielding"} /\ pc' = [pc EXCEPT ![t] = "swap"]
        /\ UNCHANGED <<m_tasks, task, submitted>>
    BY DEF MarkReady, Finish, Goto, ClientVars
  <1>2. \A k : Queued(k)' <=> Queued(k)
    BY <1>1 DEF Queued
  <1>3. j \in submitted
        /\ (pc[t] = "exec" => \A i \in DOMAIN m_tasks : m_tasks[i].job # j)
        /\ (pc[t] = "yielding" => Queued(j))
    BY <1>1 DEF TokenInv, TakenInv, QueueInv, Busy
  <1>4. \A u \in Runners \ {t} : pc[u] \in Held => task[u] # j
    BY <1>1 DEF TokenInv, TakenInv, Held
  <1>5. TakenInv'
    BY <1>1, <1>2, <1>4 DEF TokenInv, TakenInv, Held, Busy, TypeOK
  <1>6. QueueInv'
    BY <1>1, <1>3 DEF TokenInv, QueueInv, TypeOK
  <1>7. \A k : k # j => Holders(k, {"dispatch", "exec"})'
                      = Holders(k, {"dispatch", "exec"})
    BY <1>1 DEF Holders, TypeOK
  <1> QED
    BY <1>1, <1>2, <1>3, <1>5, <1>6, <1>7 DEF TokenInv, TypeOK

LEMMA TokenInit == Init => TokenInv
  BY SchedulerAssumption
     DEF Init, TokenInv, TakenInv, QueueInv, Held, Busy, Queued, Holders

LEMMA TokenStep ==
  TypeOK /\ ThreadInv /\ TokenInv /\ [Next]_vars => TokenInv'
  <1> SUFFICES ASSUME TypeOK, ThreadInv, TokenInv, [Next]_vars
               PROVE  TokenInv'
    OBVIOUS
  <1>1. ASSUME NEW t \in Runners, Scan(t)
        PROVE  TokenInv'
    <2>1. ASSUME NEW i \in Eligible(t),
                 Goto(t, "scan", "dispatch"), m_tasks' = RemoveAt(m_tasks, i),
                 task' = [task EXCEPT ![t] = m_tasks[i].job],
                 UNCHANGED <<m_state, submitted>>
          PROVE  TokenInv'
      BY <2>1, TokensTaken
    <2>2. CASE /\ Goto(t, "scan", "empty")
               /\ UNCHANGED <<m_tasks, m_state, task, submitted>>
      BY <2>2, TokensUnmoved DEF Goto, Held, Busy, TypeOK
    <2> QED
      BY <1>1, <2>1, <2>2 DEF Scan, ClientVars
  <1>2. ASSUME NEW t \in Runners,
               EnterIdle(t) \/ Idle(t) \/ LeaveIdle(t) \/ SwapOut(t) \/ Return(t)
        PROVE  TokenInv'
    <2>1. /\ UNCHANGED <<m_tasks, m_state, submitted>>
          /\ \A u \in Runners :
               /\ pc[u] \in Held \/ pc'[u] \in Held => pc'[u] = pc[u]
               /\ pc'[u] \in Busy => pc[u] \in Busy /\ task'[u] = task[u]
      BY <1>2 DEF EnterIdle, Idle, LeaveIdle, SwapOut, Return, Goto, Held, Busy,
                  ClientVars, TypeOK
    <2> QED
      BY <2>1, TokensUnmoved
  <1>3. ASSUME NEW t \in Runners, Resume(t)
        PROVE  TokenInv'
    BY <1>3, TokensResumed
  <1>4. ASSUME NEW t \in Runners, MarkReady(t) \/ Finish(t)
        PROVE  TokenInv'
    BY <1>4, TokensGivenBack
  <1>5. ASSUME NEW t \in Runners, NEW thr \in Pins, Reschedule(t, thr)
        PROVE  TokenInv'
    BY <1>5, TokensRescheduled
  <1>6. ASSUME NEW j \in Jobs, NEW thr \in Pins,
               Submit(j, thr) \/ \E t \in Runners : Spawn(t, j, thr)
        PROVE  TokenInv'
    BY <1>6, TokensSubmitted DEF Submit, Spawn
  <1>7. CASE Start \/ Stop \/ StopSteps
    <2>1. /\ UNCHANGED <<m_tasks, m_state, task, submitted>>
          /\ \A u \in Runners :
               /\ pc[u] \in Held \/ pc'[u] \in Held => pc'[u] = pc[u]
               /\ pc'[u] \in Busy => pc[u] \in Busy
      BY <1>7 DEF Start, Stop, StopSteps, ResumeRoot, RootEnd, Join, Held, Busy,
                  ClientVars, TypeOK, ThreadInv, Runners
    <2> QED
      BY <2>1, TokensUnmoved
  <1>8. CASE UNCHANGED vars
    BY <1>8, TokensUnmoved DEF vars
  <1> QED
    BY <1>1, <1>2, <1>3, <1>4, <1>5, <1>6, <1>7, <1>8 DEF Next, Thread

-----------------------------------------------------------------------------
(* Termination.                                                            *)

LEMMA ControlInit == Init => ControlInv
  BY DEF Init, ControlInv, Runners

LEMMA ControlStep ==
  TypeOK /\ CountInv /\ ThreadInv /\ ControlInv /\ [Next]_vars => ControlInv'
  <1> SUFFICES ASSUME TypeOK, CountInv, ThreadInv, ControlInv, [Next]_vars
               PROVE  ControlInv'
    OBVIOUS
  <1> USE DEF Goto, Counters, ClientVars
  <1>1. ASSUME NEW t \in Runners, Idle(t)
        PROVE  ControlInv'
    <2>1. CASE Stopping
      <3>1. BusySet = {}
        <4>1. IsFiniteSet(BusySet)
          BY RunnersFinite, FS_Subset DEF BusySet
        <4> QED
          BY <2>1, <4>1, FS_EmptySet DEF CountInv, Stopping
      <3> QED
        BY <1>1, <2>1, <3>1 DEF Idle, ControlInv, Stopping, BusySet, Busy,
                                TypeOK, Runners
    <2>2. CASE ~Stopping
      BY <1>1, <2>2 DEF Idle, ControlInv, Busy, TypeOK, Runners
    <2> QED
      BY <2>1, <2>2
  <1>2. ASSUME NEW t \in Runners, Scan(t)
        PROVE  ControlInv'
    <2>1. Eligible(t) = {} \/ idleTerm = {}
      BY DEF ControlInv, Eligible
    <2>2. CASE Eligible(t) = {}
      BY <1>2, <2>2 DEF Scan, ControlInv, Busy, TypeOK, Runners
    <2>3. CASE idleTerm = {}
      BY <1>2, <2>3 DEF Scan, ControlInv, TypeOK, Runners
    <2> QED
      BY <2>1, <2>2, <2>3
  <1>3. ASSUME NEW t \in Runners, EnterIdle(t) \/ LeaveIdle(t)
        PROVE  ControlInv'
    BY <1>3 DEF EnterIdle, LeaveIdle, ControlInv, Busy, TypeOK, Runners
  <1>4. ASSUME NEW t \in Runners, pc[t] \in Busy, UNCHANGED <<m_stopping, idleTerm, mainPc>>,
               NEW l \in Labels \ {"exited"}, pc' = [pc EXCEPT ![t] = l]
        PROVE  ControlInv'
    BY <1>4 DEF ControlInv, Busy, TypeOK, Runners
  <1>5. ASSUME NEW t \in Runners,
               \/ Resume(t) \/ MarkReady(t) \/ Finish(t) \/ SwapOut(t) \/ Return(t)
               \/ \E thr \in Pins : Reschedule(t, thr)
        PROVE  ControlInv'
    BY <1>4, <1>5 DEF Resume, MarkReady, Finish, SwapOut, Return, Reschedule,
                      Busy, Labels
  <1>6. ASSUME NEW t \in Runners, NEW j \in Jobs, NEW thr \in Pins,
               Spawn(t, j, thr)
        PROVE  ControlInv'
    BY <1>6 DEF Spawn, ControlInv, Busy, Runners
  <1>7. ASSUME NEW j \in Jobs, NEW thr \in Pins, Submit(j, thr)
        PROVE  ControlInv'
    BY <1>7 DEF Submit, ControlInv, Runners
  <1>8. CASE Start
    BY <1>8 DEF Start, ControlInv, Busy, Runners, TypeOK
  <1>9. CASE Stop \/ RootEnd \/ Join
    BY <1>9 DEF Stop, RootEnd, Join, ControlInv, Runners
  <1>10. CASE ResumeRoot
    BY <1>10 DEF ResumeRoot, ControlInv, Busy, Runners, TypeOK, ThreadInv
  <1>11. CASE UNCHANGED vars
    BY <1>11 DEF vars, ControlInv
  <1> QED
    BY <1>1, <1>2, <1>3, <1>5, <1>6, <1>7, <1>8, <1>9, <1>10, <1>11
       DEF Next, Thread, StopSteps

-----------------------------------------------------------------------------
(* The theorems.                                                           *)

IInv == TypeOK /\ CountInv /\ ThreadInv /\ TokenInv /\ ControlInv

LEMMA IInvStep == IInv /\ [Next]_vars => IInv'
  BY TypeStep, ThreadStep, TokenStep, ControlStep DEF IInv

THEOREM Invariance == Spec => []IInv
  <1>1. Init => IInv
    BY TypeInit, TokenInit, ControlInit DEF IInv
  <1> QED
    BY <1>1, IInvStep, PTL DEF Spec

\* The variables of run(), of the fibers and of stop() keep their types; in
\* particular neither thread counter is ever decremented below zero.
THEOREM TypeCorrect == Spec => []TypeOK
  <1>1. IInv => TypeOK
    BY DEF IInv
  <1> QED
    BY <1>1, Invariance, PTL

\* When stop() returns every submitted job has run to its end, the queue is
\* empty and every thread has left run() (scheduler.h:84), for any number of
\* threads and jobs and with or without use_caller.
THEOREM StopQuiescence == Spec => []StopReturnsQuiescent
  <1>1. IInv => StopReturnsQuiescent
    <2> SUFFICES ASSUME IInv, mainPc = "done"
                 PROVE  /\ \A j \in submitted : m_state[j] = "TERM"
                        /\ m_tasks = <<>>
                        /\ \A t \in Runners : pc[t] = "exited"
      BY DEF StopReturnsQuiescent
    <2>1. \A t \in Runners : pc[t] = "exited"
      BY DEF IInv, ControlInv, Runners
    <2>2. m_tasks = <<>>
      BY <2>1, SchedulerAssumption DEF IInv, ControlInv
    <2>3. \A j : ~Queued(j) /\ Holders(j, {"dispatch", "exec"}) = {}
      BY <2>1, <2>2 DEF Queued, Holders
    <2> QED
      BY <2>1, <2>2, <2>3 DEF IInv, TokenInv
  <1> QED
    BY <1>1, Invariance, PTL

\* The first idle fiber to end finds the scheduler quiescent for good.
THEOREM TerminationFinality == Spec => TerminationIsFinal
  <1>1. IInv /\ [Next]_vars =>
          [idleTerm # {} =>
             UNCHANGED <<m_tasks, task, m_activeThreadCount, m_state>>]_vars
    <2> SUFFICES ASSUME IInv, Next, idleTerm # {}
                 PROVE  UNCHANGED <<m_tasks, task, m_activeThreadCount, m_state>>
      OBVIOUS
    <2>1. /\ m_tasks = <<>> /\ mainPc \notin {"init", "running"}
          /\ \A t \in Runners : pc[t] \notin Busy
      BY DEF IInv, ControlInv
    <2>2. \A t \in Runners : Eligible(t) = {}
      BY <2>1 DEF Eligible
    <2>3. ASSUME NEW t \in Runners, Thread(t)
          PROVE  UNCHANGED <<m_tasks, task, m_activeThreadCount, m_state>>
      BY <2>1, <2>2, <2>3
         DEF Thread, Scan, EnterIdle, Idle, LeaveIdle, Resume, Return,
             Reschedule, Spawn, MarkReady, Finish, SwapOut, Goto, Busy, Counters
    <2>4. CASE StopSteps
      BY <2>4 DEF StopSteps, ResumeRoot, RootEnd, Join, Counters
    <2> QED
      BY <2>1, <2>3, <2>4 DEF Next, Start, Stop, Submit, vars
  <1> QED
    BY <1>1, Invariance, PTL DEF Spec, TerminationIsFinal

\* The assertion at the head of Fiber::resume() cannot fail.
THEOREM ResumeAssertion == Spec => []ResumeOnlyReady
  <1>1. IInv => ResumeOnlyReady
    BY DEF IInv, TokenInv, TakenInv, ResumeOnlyReady
  <1> QED
    BY <1>1, Invariance, PTL

\* No two threads execute the code of one job.
THEOREM ExecutorUniqueness == Spec => []OneExecutor
  <1>1. IInv => OneExecutor
    <2> SUFFICES ASSUME IInv, NEW j \in Jobs
                 PROVE  Cardinality(Holders(j, {"exec", "yielding"})) <= 1
      BY DEF OneExecutor
    <2> DEFINE H == Holders(j, {"exec", "yielding"})
    <2>1. \A t, u \in H : t = u
      BY DEF IInv, TokenInv, TakenInv, Holders, Held
    <2>2. CASE H = {}
      BY <2>2, FS_EmptySet
    <2>3. CASE H # {}
      <3>1. PICK t : t \in H
        BY <2>3
      <3>2. H = {t}
        BY <2>1, <3>1
      <3>3. Cardinality({t}) = 1
        BY FS_Singleton
      <3> QED
        BY <3>2, <3>3
    <2> QED
      BY <2>2, <2>3
  <1> QED
    BY <1>1, Invariance, PTL

-----------------------------------------------------------------------------
(* Refinement: every step of Scheduler is a step of TaskPool or stutters.  *)

Phase == IF mainPc \in {"init", "running"} THEN "open"
         ELSE IF mainPc = "done" THEN "closed" ELSE "closing"
Running(j) == Holders(j, {"exec", "yielding"})

\* A step that moves exactly one job from one phase to another.
LEMMA PhaseMoved ==
  ASSUME NEW j \in Jobs, NEW from, NEW to,
         JobPhase(j) = from, JobPhase(j)' = to,
         \A k \in Jobs \ {j} : JobPhase(k)' = JobPhase(k)
  PROVE  Pool!Move(j, from, to)
  BY DEF Pool!Move

LEMMA PoolQuiet ==
  ASSUME UNCHANGED <<submitted, m_state>>, Phase' = Phase,
         \A j \in Jobs : Running(j)' = Running(j)
  PROVE  UNCHANGED Pool!vars
  <1>1. \A j \in Jobs : JobPhase(j)' = JobPhase(j)
    BY DEF JobPhase, Running
  <1> QED
    BY <1>1 DEF Pool!vars, Phase

LEMMA PoolSubmit ==
  ASSUME IInv, NEW j \in Jobs \ submitted,
         submitted' = submitted \cup {j}, UNCHANGED <<m_state, pc, task, mainPc>>,
         mainPc \in {"init", "running"} \/ \E t \in Runners : pc[t] = "exec"
  PROVE  Pool!Submit(j)
  <1>1. \A k : Running(k)' = Running(k)
    BY DEF Running, Holders
  <1>2. Running(j) = {} /\ m_state[j] = "READY"
    BY DEF IInv, TokenInv, TakenInv, Running, Holders, Busy
  <1>3. JobPhase(j) = "new" /\ JobPhase(j)' = "waiting"
    BY <1>1, <1>2 DEF JobPhase, Running
  <1>4. \A k \in Jobs \ {j} : JobPhase(k)' = JobPhase(k)
    BY <1>1 DEF JobPhase, Running
  <1>5. Phase = "open" \/ \E k \in Jobs : JobPhase(k) = "running"
    <2>1. ASSUME NEW t \in Runners, pc[t] = "exec"
          PROVE  JobPhase(task[t]) = "running" /\ task[t] \in Jobs
      <3>1. task[t] \in submitted /\ t \in Running(task[t])
        BY <2>1 DEF IInv, TokenInv, TakenInv, Running, Holders, Busy
      <3> QED
        BY <3>1 DEF JobPhase, Running, IInv, TypeOK
    <2> QED
      BY <2>1 DEF Phase
  <1>6. Pool!Move(j, "new", "waiting")
    BY <1>3, <1>4, PhaseMoved
  <1> QED
    BY <1>5, <1>6 DEF Pool!Submit, Phase

\* The steps of one thread that concern the job it has.
LEMMA PoolOwnJob ==
  ASSUME IInv, NEW t \in Runners, Resume(t) \/ MarkReady(t) \/ Finish(t)
  PROVE  \E j \in Jobs : Pool!Run(j) \/ Pool!Yield(j) \/ Pool!Finish(j)
  <1> PICK j \in Jobs : j = task[t]
    BY DEF Resume, MarkReady, Finish, Goto, IInv, ThreadInv, Busy
  <1> USE DEF Goto
  <1>1. /\ pc[t] \in Held /\ j \in submitted
        /\ UNCHANGED <<task, submitted, mainPc>>
        /\ \A k \in Jobs \ {j} : m_state'[k] = m_state[k]
        /\ \A u \in Runners \ {t} : pc'[u] = pc[u]
    BY DEF Resume, MarkReady, Finish, Held, Busy, IInv, TypeOK, TokenInv,
           TakenInv, ClientVars
  <1>2. \A u \in Runners \ {t} : pc[u] \in Held => task[u] # j
    BY <1>1 DEF IInv, TokenInv, TakenInv
  <1>3. \A k \in Jobs \ {j} : JobPhase(k)' = JobPhase(k)
    <2>1. \A k \in Jobs \ {j} : Running(k)' = Running(k)
      BY <1>1 DEF Running, Holders
    <2> QED
      BY <1>1, <2>1 DEF JobPhase, Running
  <1>4. Phase' = Phase
    BY <1>1 DEF Phase
  <1>5. CASE Resume(t)
    <2>1. Running(j) = {} /\ t \in Running(j)' /\ m_state[j] = "READY"
      BY <1>1, <1>2, <1>5 DEF Resume, Running, Holders, Held, IInv, TypeOK,
                              TokenInv, TakenInv
    <2>2. JobPhase(j) = "waiting" /\ JobPhase(j)' = "running"
      BY <1>1, <2>1 DEF JobPhase, Running
    <2> QED
      BY <1>3, <1>4, <2>2, PhaseMoved DEF Pool!Run, Phase
  <1>6. CASE MarkReady(t)
    <2>1. t \in Running(j) /\ Running(j)' = {} /\ m_state'[j] = "READY"
      BY <1>1, <1>2, <1>6 DEF MarkReady, Running, Holders, Held, IInv, TypeOK
    <2>2. JobPhase(j) = "running" /\ JobPhase(j)' = "waiting"
      BY <1>1, <2>1 DEF JobPhase, Running
    <2> QED
      BY <1>3, <1>4, <2>2, PhaseMoved DEF Pool!Yield, Phase
  <1>7. CASE Finish(t)
    <2>1. t \in Running(j) /\ Running(j)' = {} /\ m_state'[j] = "TERM"
      BY <1>1, <1>2, <1>7 DEF Finish, Running, Holders, Held, IInv, TypeOK
    <2>2. JobPhase(j) = "running" /\ JobPhase(j)' = "done"
      BY <1>1, <2>1 DEF JobPhase, Running
    <2> QED
      BY <1>3, <1>4, <2>2, PhaseMoved DEF Pool!Finish, Phase
  <1> QED
    BY <1>5, <1>6, <1>7

\* Scheduler implements TaskPool: one thread at a time runs a job, nobody
\* but a running job adds a job once stop() is called, and stop() returns
\* only when every job is done.
THEOREM SchedulerImplementsPool == Spec => PoolSpec
  <1>1. Init => Pool!Init
    BY DEF Init, Pool!Init, JobPhase
  <1>2. IInv /\ StopReturnsQuiescent' /\ [Next]_vars => [Pool!Next]_(Pool!vars)
    <2> SUFFICES ASSUME IInv, StopReturnsQuiescent', [Next]_vars
                 PROVE  Pool!Next \/ UNCHANGED Pool!vars
      OBVIOUS
    <2>1. ASSUME NEW j \in Jobs, NEW thr \in Pins,
                 Submit(j, thr) \/ \E t \in Runners : Spawn(t, j, thr)
          PROVE  Pool!Next
      <3>1. Pool!Submit(j)
        BY <2>1, PoolSubmit DEF Submit, Spawn
      <3> QED
        BY <3>1 DEF Pool!Next
    <2>2. ASSUME NEW t \in Runners, Resume(t) \/ MarkReady(t) \/ Finish(t)
          PROVE  Pool!Next
      BY <2>2, PoolOwnJob DEF Pool!Next
    <2>3. ASSUME NEW t \in Runners,
                 \/ Scan(t) \/ EnterIdle(t) \/ Idle(t) \/ LeaveIdle(t)
                 \/ SwapOut(t) \/ Return(t)
                 \/ \E thr \in Pins : Reschedule(t, thr)
          PROVE  UNCHANGED Pool!vars
      <3>1. \A u \in Runners :
              /\ pc'[u] \in {"exec", "yielding"} <=> pc[u] \in {"exec", "yielding"}
              /\ pc[u] \in {"exec", "yielding"} => task'[u] = task[u]
        BY <2>3 DEF Scan, EnterIdle, Idle, LeaveIdle, SwapOut, Return,
                    Reschedule, Goto, ClientVars, IInv, TypeOK
      <3>2. UNCHANGED <<submitted, m_state, mainPc>>
        BY <2>3 DEF Scan, EnterIdle, Idle, LeaveIdle, SwapOut, Return,
                    Reschedule, ClientVars
      <3>3. \A j \in Jobs : Running(j)' = Running(j)
        BY <3>1 DEF Running, Holders
      <3> QED
        BY <3>2, <3>3, PoolQuiet DEF Phase
    <2>4. CASE Start \/ ResumeRoot \/ RootEnd
      <3>1. \A u \in Runners :
              pc'[u] \in {"exec", "yielding"} <=> pc[u] \in {"exec", "yielding"}
        BY <2>4 DEF Start, ResumeRoot, RootEnd, IInv, ThreadInv, TypeOK, Runners
      <3>2. UNCHANGED <<submitted, m_state, task>> /\ Phase' = Phase
        BY <2>4 DEF Start, ResumeRoot, RootEnd, ClientVars, Phase
      <3>3. \A j \in Jobs : Running(j)' = Running(j)
        BY <3>1, <3>2 DEF Running, Holders
      <3> QED
        BY <3>2, <3>3, PoolQuiet
    <2>5. CASE Stop
      <3>1. \A j \in Jobs : JobPhase(j)' = JobPhase(j)
        BY <2>5 DEF Stop, JobPhase, Holders, ClientVars
      <3>2. Pool!Close
        BY <2>5, <3>1 DEF Stop, Pool!Close
      <3> QED
        BY <3>2 DEF Pool!Next
    <2>6. CASE Join
      <3>1. \A j \in Jobs : JobPhase(j)' = JobPhase(j)
        BY <2>6 DEF Join, JobPhase, Holders, ClientVars
      <3>2. \A j \in Jobs : JobPhase(j)' \in {"new", "done"}
        BY <2>6 DEF Join, StopReturnsQuiescent, JobPhase, Holders
      <3>3. Pool!Return
        BY <2>6, <3>1, <3>2 DEF Join, Pool!Return
      <3> QED
        BY <3>3 DEF Pool!Next
    <2>7. CASE UNCHANGED vars
      BY <2>7, PoolQuiet DEF vars, Phase, Running, Holders
    <2> QED
      BY <2>1, <2>2, <2>3, <2>4, <2>5, <2>6, <2>7 DEF Next, Thread, StopSteps
  <1> QED
    BY <1>1, <1>2, Invariance, StopQuiescence, PTL DEF Spec, PoolSpec, Pool!Spec

-----------------------------------------------------------------------------
(* IOManager.                                                              *)

InQueue == {m_tasks[i].job : i \in DOMAIN m_tasks}
Taken == {task[t] : t \in {u \in Runners : pc[u] \in {"dispatch", "exec"}}}
Awaited == {ctx[e] : e \in Registered}
Listed == UNION {cbs[t] : t \in Runners}
Ended == {j \in Jobs : m_state[j] = "TERM"}

\* Callbacks of sleeps that have scheduled their fiber.
Rung == {w \in Wakes : yields[w] # 0}

\* Callbacks that will, and the fibers they will schedule.
Pending == m_timers \cup Listed \cup {w \in Wakes \ Rung : w \in InQueue \cup Taken}
Sleeping == {w[1] : w \in Pending}

\* A job has one entry in the queue, and no entry names a thread.
EntriesInv ==
  /\ \A i, k \in DOMAIN m_tasks : m_tasks[i].job = m_tasks[k].job => i = k
  /\ \A i \in DOMAIN m_tasks : m_tasks[i].thr = AnyThread

\* A job is held by one thread, in the state that belongs to the thread's step.
HeldInv ==
  /\ \A t, u \in Runners :
       pc[t] \in Held /\ pc[u] \in Held /\ task[t] = task[u] => t = u
  /\ \A t \in Runners : pc[t] = "dispatch" => m_state[task[t]] = "READY"
  /\ \A t \in Runners :
       pc[t] \in {"exec", "yielding"} => m_state[task[t]] = "RUNNING"
  /\ \A j \in Jobs : m_state[j] = "RUNNING" =>
       \E t \in Runners : task[t] = j /\ pc[t] \in {"exec", "yielding"}
  /\ \A t \in Runners : pc[t] = "yielding" => task[t] \in Fibers

\* A fiber waits for one event.
CtxInv == \A d, e \in Registered : ctx[d] = ctx[e] => d = e

\* A callback is with one thread, which is in idle() and posts it next.
CbsInv ==
  /\ \A t, u \in Runners, w \in Wakes : w \in cbs[t] /\ w \in cbs[u] => t = u
  /\ \A t \in Runners : io[t] # "check" => pc[t] = "idle"
  /\ \A t \in Runners : cbs[t] # {} => io[t] = "post"

\* A fiber that is submitted and has not ended is in one place.
FibersInv ==
  /\ InQueue \cap Taken = {}
  /\ (InQueue \cup Taken) \cap (Awaited \cup Sleeping) = {}
  /\ Awaited \cap Sleeping = {}
  /\ \A v, w \in Pending : v[1] = w[1] => v = w
  /\ Fibers \cap (InQueue \cup Taken \cup Awaited \cup Sleeping)
       = (Fibers \cap submitted) \ Ended
  /\ \A f \in Fibers : f \notin submitted => f \notin Ended

\* The callback of a sleep is in one place, in none before the sleep and after it
\* has ended.
WakesInv ==
  /\ m_timers \cap Listed = {}
  /\ (m_timers \cup Listed) \cap (InQueue \cup Taken) = {}
  /\ Wakes \cap (m_timers \cup Listed \cup InQueue \cup Taken) \cap Ended = {}
  /\ (m_timers \cup Listed \cup InQueue) \cap Rung = {}
  /\ \A w \in Wakes : w[2] > yields[w[1]] =>
       w \notin m_timers \cup Listed \cup InQueue \cup Taken \cup Ended \cup Rung

\* A thread that takes no further task.
Leaving(t) == pc[t] = "exited" \/ (t \in idleTerm /\ pc[t] = "empty")

\* While there is a task not all threads leave.
LeaveInv ==
  /\ m_stopping <=> mainPc \in {"stop", "root", "join", "done"}
  /\ mainPc \in {"join", "done"} /\ UseCaller => pc[Main] = "exited"
  /\ mainPc = "done" => \A t \in Workers : pc[t] = "exited"
  /\ \A t \in Runners : pc[t] = "exited" => t \in idleTerm
  /\ \A t \in Runners : t \in idleTerm => pc[t] # "idle"
  /\ idleTerm # {} => m_stopping
  /\ m_tasks # <<>> => \E t \in Runners : ~Leaving(t)

\* Unless a thread took a task after its idle fiber had ended, those whose idle
\* fiber has ended do nothing, and while there is a timer or an event one thread
\* has not yet found that there is none.
QuietInv ==
  lateRun \/
    (/\ \A t \in idleTerm : pc[t] \notin Busy
     /\ m_timers # {} =>
          \E t \in Runners \ idleTerm : io[t] \notin {"pending", "stopping"}
     /\ Registered # {} => \E t \in Runners \ idleTerm : io[t] # "stopping")

TypesInv == IOTypeOK /\ CountInv /\ ThreadInv
TokensInv == EntriesInv /\ HeldInv /\ CtxInv /\ CbsInv /\ FibersInv /\ WakesInv
IOIInv == TypesInv /\ TokensInv /\ LeaveInv /\ QuietInv
-----------------------------------------------------------------------------
(* Facts of one state.                                                     *)

LEMMA WakeParts ==
  ASSUME NEW w \in Wakes
  PROVE  /\ w[1] \in Fibers /\ w[2] \in Nat /\ w[2] \in 1..MaxYields
         /\ w = <<w[1], w[2]>> /\ w \in Jobs /\ w \notin Fibers
  BY IOManagerAssumption, SchedulerAssumption DEF Wakes

LEMMA FiberIsJob ==
  ASSUME NEW f \in Fibers
  PROVE  f \in Jobs /\ f \notin Wakes /\ f # NoJob
  BY IOManagerAssumption, SchedulerAssumption

LEMMA RegisteredFinite ==
  ASSUME NEW S \in SUBSET Events
  PROVE  IsFiniteSet(S) /\ Cardinality(S) \in Nat
  <1>1. IsFiniteSet({"READ", "WRITE"})
    <2>1. IsFiniteSet({"READ"})
      BY FS_Singleton
    <2>2. IsFiniteSet({"READ"} \cup {"WRITE"})
      BY <2>1, FS_AddElement
    <2>3. {"READ"} \cup {"WRITE"} = {"READ", "WRITE"}
      OBVIOUS
    <2> QED
      BY <2>2, <2>3
  <1>2. IsFiniteSet(S)
    BY <1>1, FS_Subset, IOManagerAssumption
  <1> QED
    BY <1>2, FS_CardinalityType

\* The fibers that are triggered are those of the events, each once.
LEMMA InOrderLists ==
  ASSUME IOTypeOK, CtxInv, NEW fired \in SUBSET Registered
  PROVE  /\ InOrder(fired) \in Seq(Fibers)
         /\ IsInjective(InOrder(fired))
         /\ ToSet(InOrder(fired)) = {ctx[e] : e \in fired}
         /\ InOrder(fired) = <<>> <=> fired = {}
  <1>1. /\ fired \subseteq {"READ", "WRITE"}
        /\ \A e \in fired : ctx[e] \in Fibers
        /\ "READ" \in fired /\ "WRITE" \in fired => ctx["READ"] # ctx["WRITE"]
    BY IOManagerAssumption DEF Registered, IOTypeOK, CtxInv
  <1>2. CASE "READ" \in fired /\ "WRITE" \in fired
    <2>0. \A p, q \in Seq(Fibers) :
            /\ p \o q \in Seq(Fibers)
            /\ ToSet(p \o q) = ToSet(p) \cup ToSet(q)
            /\ IsInjective(p) /\ IsInjective(q) /\ ToSet(p) \cap ToSet(q) = {}
                 => IsInjective(p \o q)
      BY ConcatEntries
    <2> PICK a \in Fibers, b \in Fibers :
             a = ctx["READ"] /\ b = ctx["WRITE"] /\ a # b /\ InOrder(fired) = <<a>> \o <<b>>
      BY <1>1, <1>2 DEF InOrder
    <2>1. \A x \in Fibers : /\ <<x>> \in Seq(Fibers)
                            /\ ToSet(<<x>>) = {x} /\ IsInjective(<<x>>)
      BY DEF ToSet, IsInjective
    <2>2. /\ InOrder(fired) \in Seq(Fibers)
          /\ ToSet(InOrder(fired)) = {a, b}
          /\ IsInjective(InOrder(fired))
      <3> PICK p \in Seq(Fibers), q \in Seq(Fibers) : p = <<a>> /\ q = <<b>>
        BY <2>1
      <3>1. /\ ToSet(p) = {a} /\ ToSet(q) = {b} /\ ToSet(p) \cap ToSet(q) = {}
            /\ IsInjective(p) /\ IsInjective(q) /\ InOrder(fired) = p \o q
        BY <2>1
      <3> QED
        BY <2>0, <3>1
    <2>3. fired = {"READ", "WRITE"}
      BY <1>1, <1>2
    <2>4. InOrder(fired) # <<>>
      BY <2>2 DEF ToSet
    <2> QED
      BY <2>2, <2>3, <2>4
  <1>3. CASE "READ" \in fired /\ "WRITE" \notin fired
    <2>1. InOrder(fired) = <<ctx["READ"]>>
      BY <1>3 DEF InOrder
    <2>2. fired = {"READ"}
      BY <1>1, <1>3
    <2> QED
      BY <1>1, <1>3, <2>1, <2>2 DEF IsInjective, ToSet
  <1>4. CASE "READ" \notin fired /\ "WRITE" \in fired
    <2>1. InOrder(fired) = <<ctx["WRITE"]>>
      BY <1>4 DEF InOrder
    <2>2. fired = {"WRITE"}
      BY <1>1, <1>4
    <2> QED
      BY <1>1, <1>4, <2>1, <2>2 DEF IsInjective, ToSet
  <1>5. CASE "READ" \notin fired /\ "WRITE" \notin fired
    <2>1. InOrder(fired) = <<>>
      BY <1>5 DEF InOrder
    <2>2. fired = {}
      BY <1>1, <1>5
    <2> QED
      BY <2>1, <2>2 DEF IsInjective, ToSet
  <1> QED
    BY <1>2, <1>3, <1>4, <1>5

-----------------------------------------------------------------------------
(* The queue as a set of jobs.                                             *)

LEMMA QueueAppends ==
  ASSUME TypeOK, EntriesInv, NEW j \in Jobs \ InQueue,
         m_tasks' = Append(m_tasks, [job |-> j, thr |-> AnyThread])
  PROVE  /\ m_tasks' \in Seq(Entries) /\ EntriesInv'
         /\ InQueue' = InQueue \cup {j}
  <1> PICK e \in Entries : e = [job |-> j, thr |-> AnyThread]
    BY DEF Entries
  <1> PICK n : n = Len(m_tasks) + 1
    OBVIOUS
  <1>1. /\ DOMAIN m_tasks' = DOMAIN m_tasks \cup {n}
        /\ \A k \in DOMAIN m_tasks : m_tasks'[k] = m_tasks[k]
        /\ m_tasks'[n].job = j /\ m_tasks'[n].thr = AnyThread
    BY Appended
  <1>2. m_tasks' \in Seq(Entries)
    BY DEF TypeOK
  <1>3. InQueue' = InQueue \cup {j}
    BY <1>1 DEF InQueue
  <1>4. \A k \in DOMAIN m_tasks : m_tasks[k].job # j
    BY DEF InQueue
  <1>5. EntriesInv'
    BY <1>1, <1>4 DEF EntriesInv
  <1> QED
    BY <1>2, <1>3, <1>5

\* Entries for some jobs after those of the queue.
LEMMA QueueExtended ==
  ASSUME TypeOK, EntriesInv, NEW jobs \in Seq(Jobs), IsInjective(jobs),
         ToSet(jobs) \cap InQueue = {},
         NEW more \in Seq(Entries), DOMAIN more = DOMAIN jobs,
         \A i \in DOMAIN jobs : more[i].job = jobs[i] /\ more[i].thr = AnyThread,
         m_tasks' = m_tasks \o more
  PROVE  /\ m_tasks' \in Seq(Entries) /\ EntriesInv'
         /\ InQueue' = InQueue \cup ToSet(jobs)
  <1> PICK m \in Nat : m = Len(m_tasks)
    BY LenProperties DEF TypeOK
  <1>0. m_tasks \in Seq(Entries) /\ DOMAIN m_tasks = 1..m
    BY LenProperties DEF TypeOK
  <1>1. DOMAIN jobs \subseteq Nat \ {0}
    BY LenProperties
  <1>2. /\ m_tasks' \in Seq(Entries)
        /\ \A i \in DOMAIN m_tasks : i \in DOMAIN m_tasks' /\ m_tasks'[i] = m_tasks[i]
        /\ \A k \in DOMAIN jobs :
             m + k \in DOMAIN m_tasks' /\ m_tasks'[m + k] = more[k]
        /\ \A i \in DOMAIN m_tasks' :
             i \in DOMAIN m_tasks \/ \E k \in DOMAIN jobs : i = m + k
    <2>1. \A s, t \in Seq(Entries) :
            /\ s \o t \in Seq(Entries)
            /\ \A i \in DOMAIN s : i \in DOMAIN (s \o t) /\ (s \o t)[i] = s[i]
            /\ \A k \in DOMAIN t :
                 Len(s) + k \in DOMAIN (s \o t) /\ (s \o t)[Len(s) + k] = t[k]
            /\ \A i \in DOMAIN (s \o t) :
                 i \in DOMAIN s \/ \E k \in DOMAIN t : i = Len(s) + k
      BY ConcatPositions
    <2> PICK s \in Seq(Entries) : s = m_tasks
      BY <1>0
    <2>2. /\ s \o more \in Seq(Entries)
          /\ \A i \in DOMAIN s : i \in DOMAIN (s \o more) /\ (s \o more)[i] = s[i]
          /\ \A k \in DOMAIN more :
               Len(s) + k \in DOMAIN (s \o more) /\ (s \o more)[Len(s) + k] = more[k]
          /\ \A i \in DOMAIN (s \o more) :
               i \in DOMAIN s \/ \E k \in DOMAIN more : i = Len(s) + k
      BY <2>1, Zenon
    <2> PICK u : u = s \o more
      OBVIOUS
    <2>3. m_tasks' = u /\ m = Len(s) /\ s = m_tasks /\ DOMAIN more = DOMAIN jobs
      OBVIOUS
    <2> QED
      BY <2>2, <2>3, Zenon
  <1>3. \A k \in DOMAIN jobs : /\ m + k \in DOMAIN m_tasks'
                              /\ m_tasks'[m + k].job = jobs[k]
                              /\ m_tasks'[m + k].thr = AnyThread
    BY <1>2
  <1>4. \A k, l \in DOMAIN jobs : jobs[k] = jobs[l] => k = l
    BY DEF IsInjective
  <1>5. \A i \in DOMAIN m_tasks, k \in DOMAIN jobs : m_tasks[i].job # jobs[k]
    BY DEF InQueue, ToSet
  <1>6. \A i, k \in DOMAIN m_tasks' : m_tasks'[i].job = m_tasks'[k].job => i = k
    BY <1>2, <1>3, <1>4, <1>5 DEF EntriesInv
  <1>7. \A i \in DOMAIN m_tasks' : m_tasks'[i].thr = AnyThread
    BY <1>2, <1>3 DEF EntriesInv
  <1>8. \A j \in InQueue' : j \in InQueue \/ j \in ToSet(jobs)
    BY <1>2, <1>3 DEF InQueue, ToSet
  <1>9. \A j \in InQueue : j \in InQueue'
    BY <1>2 DEF InQueue
  <1>10. \A j \in ToSet(jobs) : j \in InQueue'
    BY <1>3 DEF InQueue, ToSet
  <1> QED
    BY <1>2, <1>6, <1>7, <1>8, <1>9, <1>10 DEF EntriesInv

LEMMA QueueGrows ==
  ASSUME TypeOK, EntriesInv, NEW jobs \in Seq(Jobs), IsInjective(jobs),
         ToSet(jobs) \cap InQueue = {},
         m_tasks' = m_tasks \o [i \in DOMAIN jobs |->
                                  [job |-> jobs[i], thr |-> AnyThread]]
  PROVE  /\ m_tasks' \in Seq(Entries) /\ EntriesInv'
         /\ InQueue' = InQueue \cup ToSet(jobs)
  <1> PICK more : more = [i \in DOMAIN jobs |-> [job |-> jobs[i], thr |-> AnyThread]]
    OBVIOUS
  <1>1. DOMAIN jobs = 1..Len(jobs) /\ Len(jobs) \in Nat
    BY LenProperties
  <1>2. DOMAIN more = DOMAIN jobs
    OBVIOUS
  <1>3. \A i \in DOMAIN jobs : /\ more[i].job = jobs[i] /\ more[i].thr = AnyThread
                              /\ jobs[i] \in Jobs /\ more[i] \in Entries
    BY <1>1 DEF Entries
  <1>4. more \in Seq(Entries)
    BY <1>1, <1>3
  <1>5. m_tasks' = m_tasks \o more
    OBVIOUS
  <1> QED
    BY <1>2, <1>3, <1>4, <1>5, QueueExtended

LEMMA QueueShrinks ==
  ASSUME TypeOK, EntriesInv, NEW i \in DOMAIN m_tasks,
         m_tasks' = RemoveAt(m_tasks, i)
  PROVE  /\ EntriesInv'
         /\ InQueue' = InQueue \ {m_tasks[i].job}
  <1> DEFINE at(k) == IF k < i THEN k ELSE k + 1
  <1>1. /\ \A k \in DOMAIN m_tasks' : /\ at(k) \in DOMAIN m_tasks \ {i}
                                      /\ m_tasks'[k] = m_tasks[at(k)]
        /\ \A l \in DOMAIN m_tasks \ {i} :
             \E k \in DOMAIN m_tasks' : m_tasks'[k] = m_tasks[l]
    BY Removed
  <1>2. \A k, l \in DOMAIN m_tasks' : at(k) = at(l) => k = l
    BY Removed
  <1> HIDE DEF at
  <1>3. EntriesInv'
    BY <1>1, <1>2 DEF EntriesInv
  <1>4. \A k \in DOMAIN m_tasks' : m_tasks'[k].job \in InQueue \ {m_tasks[i].job}
    BY <1>1 DEF EntriesInv, InQueue
  <1>5. \A j \in InQueue \ {m_tasks[i].job} : \E k \in DOMAIN m_tasks' : m_tasks'[k].job = j
    BY <1>1 DEF InQueue
  <1> QED
    BY <1>3, <1>4, <1>5 DEF InQueue

-----------------------------------------------------------------------------
(* What triggering some events does.                                       *)

LEMMA TriggerEffect ==
  ASSUME IOIInv, NEW t \in Runners, NEW fired \in SUBSET Registered,
         TriggerEvents(t, fired)
  PROVE  /\ m_tasks' \in Seq(Entries) /\ EntriesInv' /\ CtxInv'
         /\ InQueue' = InQueue \cup {ctx[e] : e \in fired}
         /\ ctx' \in [Events -> Fibers \cup {NoJob}]
         /\ Registered' = Registered \ fired
         /\ Awaited' = Awaited \ {ctx[e] : e \in fired}
         /\ m_pendingEventCount' = Cardinality(Registered')
  <1>1. /\ TypeOK /\ EntriesInv /\ CtxInv /\ IOTypeOK
        /\ ctx \in [Events -> Fibers \cup {NoJob}]
        /\ m_pendingEventCount = Cardinality(Registered)
        /\ Awaited \cap InQueue = {}
    BY DEF IOIInv, TypesInv, TokensInv, IOTypeOK, FibersInv
  <1>2. /\ ctx' = [e \in Events |-> IF e \in fired THEN NoJob ELSE ctx[e]]
        /\ m_pendingEventCount' = m_pendingEventCount - Cardinality(fired)
        /\ ScheduleAll(t, InOrder(fired))
    BY DEF TriggerEvents
  <1>3. /\ InOrder(fired) \in Seq(Jobs)
        /\ IsInjective(InOrder(fired))
        /\ ToSet(InOrder(fired)) = {ctx[e] : e \in fired}
    <2>1. /\ InOrder(fired) \in Seq(Fibers)
          /\ IsInjective(InOrder(fired))
          /\ ToSet(InOrder(fired)) = {ctx[e] : e \in fired}
      BY <1>1, InOrderLists
    <2>2. Fibers \subseteq Jobs
      BY FiberIsJob
    <2> QED
      BY <2>1, <2>2
  <1>4. ToSet(InOrder(fired)) \cap InQueue = {}
    BY <1>1, <1>3 DEF Awaited
  <1>5. /\ m_tasks' \in Seq(Entries) /\ EntriesInv'
        /\ InQueue' = InQueue \cup ToSet(InOrder(fired))
    BY <1>1, <1>2, <1>3, <1>4, QueueGrows DEF ScheduleAll
  <1>6. ctx' \in [Events -> Fibers \cup {NoJob}]
    BY <1>1, <1>2
  <1>7. Registered' = Registered \ fired
    BY <1>1, <1>2 DEF Registered
  <1>8. \A e \in Registered' : e \in Registered /\ ctx'[e] = ctx[e]
    BY <1>2, <1>7 DEF Registered
  <1>9. CtxInv'
    BY <1>1, <1>8 DEF CtxInv
  <1>10. Awaited' = Awaited \ {ctx[e] : e \in fired}
    <2>1. \A e \in Registered \ fired, d \in fired : ctx[e] # ctx[d]
      BY <1>1 DEF CtxInv
    <2>2. Awaited' = {ctx[e] : e \in Registered \ fired}
      BY <1>7, <1>8 DEF Awaited
    <2> QED
      BY <2>1, <2>2 DEF Awaited
  <1>11. m_pendingEventCount' = Cardinality(Registered')
    <2>1. IsFiniteSet(Registered) /\ IsFiniteSet(fired)
      BY RegisteredFinite DEF Registered
    <2>2. /\ Registered \cap fired = fired
          /\ Cardinality(Registered \ fired)
               = Cardinality(Registered) - Cardinality(Registered \cap fired)
      BY <2>1, FS_Difference
    <2> QED
      BY <1>1, <1>2, <1>7, <2>2
  <1> QED
    BY <1>3, <1>5, <1>6, <1>7, <1>9, <1>10, <1>11

\* The job a thread executes.
LEMMA Executes ==
  ASSUME IOIInv, NEW t \in Runners, pc[t] = "exec"
  PROVE  /\ task[t] \in Jobs /\ m_state[task[t]] = "RUNNING"
         /\ task[t] \in Taken /\ task[t] \notin InQueue \cup Awaited \cup Sleeping
         /\ io[t] = "check"
         /\ \A u \in Runners : pc[u] \in Held /\ task[u] = task[t] => u = t
  <1>1. task[t] \in Jobs
    BY DEF IOIInv, TypesInv, ThreadInv, Busy
  <1>2. task[t] \in Taken
    BY DEF Taken
  <1>3. task[t] \notin InQueue \cup Awaited \cup Sleeping
    BY <1>2 DEF IOIInv, TokensInv, FibersInv
  <1>4. io[t] = "check"
    BY DEF IOIInv, TokensInv, CbsInv
  <1> QED
    BY <1>1, <1>2, <1>3, <1>4 DEF IOIInv, TokensInv, HeldInv, Held

\* A callback that is listed or in a timer is in no other place.
LEMMA Waits ==
  ASSUME IOIInv, NEW w \in m_timers \cup Listed
  PROVE  /\ w \in Wakes /\ w \in Jobs /\ w \notin InQueue \cup Taken
         /\ w \notin Ended /\ w \notin Rung
  <1>1. w \in Wakes
    BY DEF IOIInv, TypesInv, IOTypeOK, Listed
  <1> QED
    BY <1>1, WakeParts DEF IOIInv, TokensInv, WakesInv
-----------------------------------------------------------------------------
(* Types.                                                                  *)

LEMMA IOTypesInit == IOInit => TypesInv
  <1> SUFFICES ASSUME IOInit PROVE TypesInv
    OBVIOUS
  <1>1. TypeOK /\ CountInv /\ ThreadInv
    BY TypeInit DEF IOInit
  <1>2. Registered = {}
    BY DEF IOInit, Registered
  <1>3. m_pendingEventCount = Cardinality(Registered)
    BY <1>2, FS_EmptySet DEF IOInit
  <1>4. owes \in [Threads -> 0..Cardinality(Runners)]
    BY CountNat DEF IOInit
  <1>5. IOTypeOK
    BY <1>1, <1>3, <1>4 DEF IOInit, IOTypeOK, IdleLabels
  <1> QED
    BY <1>1, <1>5 DEF TypesInv

\* The steps that Scheduler does not have, as it sees them.
LEMMA OwnStep ==
  ASSUME TypesInv, m_tasks' \in Seq(Entries), submitted' \subseteq Jobs,
         yields' \in [Jobs -> Nat],
         UNCHANGED <<Counters, m_stopping, m_state, task, idleTerm, mainPc>>,
         pc' = pc \/ (\E t \in Runners :
           Goto(t, "exec", "yielding") \/ Goto(t, "idle", "unidle"))
  PROVE  TypeOK' /\ CountInv' /\ ThreadInv'
  <1>1. TypeOK /\ CountInv /\ ThreadInv /\ pc \in [Runners -> Labels]
    BY DEF TypesInv, IOTypeOK, TypeOK
  <1>2. pc' \in [Runners -> Labels]
    BY <1>1 DEF Goto, Labels
  <1>3. TypeOK'
    BY <1>1, <1>2 DEF TypeOK, Counters
  <1>4. \A u \in Runners : /\ (pc'[u] \in Busy) <=> (pc[u] \in Busy)
                           /\ (pc'[u] \in {"idle", "unidle"})
                                <=> (pc[u] \in {"idle", "unidle"})
                           /\ pc[u] = "unborn" => pc'[u] = "unborn"
    BY <1>1 DEF Goto, Busy
  <1>5. CountInv'
    BY <1>1, <1>4, CountsUnmoved
  <1>6. ThreadInv'
    BY <1>1, <1>4 DEF ThreadInv, Runners
  <1> QED
    BY <1>3, <1>5, <1>6

\* The steps it has.
LEMMA BaseStep ==
  ASSUME TypesInv, [Next]_vars
  PROVE  TypeOK' /\ CountInv' /\ ThreadInv'
  BY TypeStep, ThreadStep DEF TypesInv, IOTypeOK

LEMMA OwesStep ==
  ASSUME IOTypeOK, NEW t \in Threads, owes[t] = 0,
         \/ owes' = owes
         \/ \E b \in BOOLEAN : TickleIf(t, b)
  PROVE  owes' \in [Threads -> 0..Cardinality(Runners)]
  <1>1. owes \in [Threads -> 0..Cardinality(Runners)] /\ Cardinality(Runners) \in Nat
    BY CountNat DEF IOTypeOK
  <1>2. 1 \in 0..Cardinality(Runners)
    <2>1. Cardinality(Runners) # 0
      BY RunnersFinite, FS_EmptySet, SchedulerAssumption
    <2> QED
      BY <1>1, <2>1
  <1>3. CASE owes' = owes
    BY <1>1, <1>3
  <1>4. ASSUME NEW b \in BOOLEAN, TickleIf(t, b)
        PROVE  owes' \in [Threads -> 0..Cardinality(Runners)]
    BY <1>1, <1>2, <1>4 DEF TickleIf
  <1> QED
    BY <1>3, <1>4

\* Steps that are those of Scheduler, or are not seen by it.
LEMMA BaseTypes ==
  ASSUME TypesInv, NEW t \in Runners,
         \/ Tickle(t) \/ Tickle(Main) \/ IOScan(t) \/ IORun(t) \/ IOFinish(t)
         \/ (\E f \in Fibers : IOSpawn(t, f) \/ IOSubmit(f))
         \/ IOStopSteps \/ IOStart \/ IOStop
         \/ ReadTimers(t) \/ ReadPending(t) \/ ReadStopping(t)
         \/ EpollWait(t) \/ ListExpired(t)
         \/ (\E w \in Wakes : Elapse(w)) \/ (\E c \in Conditions : Arrive(c))
         \/ UNCHANGED iomVars
  PROVE  TypeOK' /\ CountInv' /\ ThreadInv' /\ UNCHANGED <<ctx, m_pendingEventCount>>
  <1>1. UNCHANGED <<ctx, m_pendingEventCount>>
    BY DEF Tickle, IOScan, IORun, IOFinish, IOSpawn, IOSubmit, IOStopSteps, IOStart,
           IOStop, ReadTimers, ReadPending, ReadStopping, EpollWait, ListExpired,
           Elapse, Arrive, iomVars, ioVars, fdVars
  <1>2. [Next]_vars
    <2>1. CASE \E f \in Fibers : IOSpawn(t, f) \/ IOSubmit(f)
      <3>1. \E f \in Jobs, thr \in Pins : Spawn(t, f, thr) \/ Submit(f, thr)
        BY <2>1, FiberIsJob DEF IOSpawn, IOSubmit, Pins
      <3> QED
        BY <3>1 DEF Next, Thread
    <2>2. CASE IOScan(t) \/ IORun(t) \/ IOFinish(t)
      BY <2>2 DEF IOScan, IORun, IOFinish, Next, Thread
    <2>3. CASE IOStopSteps \/ IOStart \/ IOStop
      BY <2>3 DEF IOStopSteps, IOStart, IOStop, Next
    <2>4. CASE ReadStopping(t)
      BY <2>4 DEF ReadStopping, Next, Thread
    <2>5. CASE \/ Tickle(t) \/ Tickle(Main) \/ ReadTimers(t) \/ ReadPending(t)
               \/ EpollWait(t) \/ ListExpired(t)
               \/ (\E w \in Wakes : Elapse(w)) \/ (\E c \in Conditions : Arrive(c))
               \/ UNCHANGED iomVars
      BY <2>5 DEF Tickle, ReadTimers, ReadPending, EpollWait, ListExpired, Elapse,
                  Arrive, iomVars
    <2> QED
      BY <2>1, <2>2, <2>3, <2>4, <2>5
  <1> QED
    BY <1>1, <1>2, BaseStep

\* What is left of IOTypeOK when the scheduler's and the events' parts are known.
LEMMA RestTypes ==
  ASSUME TypesInv, TypeOK', CountInv', ThreadInv',
         ctx' \in [Events -> Fibers \cup {NoJob}],
         m_pendingEventCount' = Cardinality(Registered'),
         m_timers' \subseteq Wakes, due' \subseteq m_timers', m_tickled' \in BOOLEAN,
         ready' \subseteq Conditions, pipe' \in BOOLEAN,
         owes' \in [Threads -> 0..Cardinality(Runners)]
                   \/ owes' = owes \/ \E t \in Threads, b \in BOOLEAN :
                                        owes[t] = 0 /\ TickleIf(t, b),
         io' = io \/ \E t \in Runners, label \in IdleLabels : io' = [io EXCEPT ![t] = label],
         cbs' = cbs \/ \E t \in Runners, S \in SUBSET Wakes : cbs' = [cbs EXCEPT ![t] = S],
         evs' = evs \/ \E t \in Runners, S \in SUBSET Conditions : evs' = [evs EXCEPT ![t] = S],
         lateRun' \in BOOLEAN, aborted' \in BOOLEAN
  PROVE  TypesInv'
  <1>1. /\ IOTypeOK
        /\ io \in [Runners -> IdleLabels]
        /\ cbs \in [Runners -> SUBSET Wakes]
        /\ evs \in [Runners -> SUBSET Conditions]
        /\ owes \in [Threads -> 0..Cardinality(Runners)]
    BY DEF TypesInv, IOTypeOK
  <1>2. owes' \in [Threads -> 0..Cardinality(Runners)]
    BY <1>1, OwesStep
  <1>3. io' \in [Runners -> IdleLabels]
    BY <1>1
  <1>4. cbs' \in [Runners -> SUBSET Wakes]
    BY <1>1
  <1>5. evs' \in [Runners -> SUBSET Conditions]
    BY <1>1
  <1> QED
    BY <1>2, <1>3, <1>4, <1>5 DEF TypesInv, IOTypeOK

LEMMA BaseTypesInv ==
  ASSUME TypesInv, NEW t \in Runners,
         \/ Tickle(t) \/ Tickle(Main) \/ IOScan(t) \/ IORun(t) \/ IOFinish(t)
         \/ (\E f \in Fibers : IOSpawn(t, f) \/ IOSubmit(f))
         \/ IOStopSteps \/ IOStart \/ IOStop
         \/ ReadTimers(t) \/ ReadPending(t) \/ ReadStopping(t)
         \/ EpollWait(t) \/ ListExpired(t)
         \/ (\E w \in Wakes : Elapse(w)) \/ (\E c \in Conditions : Arrive(c))
         \/ UNCHANGED iomVars
  PROVE  TypesInv'
  <1>1. /\ TypeOK' /\ CountInv' /\ ThreadInv'
        /\ ctx' = ctx /\ m_pendingEventCount' = m_pendingEventCount
    BY BaseTypes
  <1>2. /\ IOTypeOK
        /\ ctx \in [Events -> Fibers \cup {NoJob}]
        /\ m_pendingEventCount = Cardinality(Registered)
        /\ m_timers \subseteq Wakes /\ due \subseteq m_timers /\ m_tickled \in BOOLEAN
        /\ ready \subseteq Conditions /\ pipe \in BOOLEAN
        /\ lateRun \in BOOLEAN /\ aborted \in BOOLEAN
        /\ owes \in [Threads -> 0..Cardinality(Runners)]
        /\ Cardinality(Runners) \in Nat
    BY CountNat DEF TypesInv, IOTypeOK
  <1>3. Registered' = Registered
    BY <1>1 DEF Registered
  <1>4. /\ ctx' \in [Events -> Fibers \cup {NoJob}]
        /\ m_pendingEventCount' = Cardinality(Registered')
    BY <1>1, <1>2, <1>3
  <1>5. t \in Threads /\ Main \in Threads
    BY DEF Threads
  <1>6. CASE Tickle(t) \/ Tickle(Main)
    <2>1. PICK u \in Threads : Tickle(u)
      BY <1>5, <1>6
    <2>2. owes' \in [Threads -> 0..Cardinality(Runners)]
      BY <1>2, <2>1 DEF Tickle
    <2> QED
      BY <1>1, <1>2, <1>4, <2>1, <2>2, RestTypes DEF Tickle, timerVars, fdVars, idleVars
  <1>7. CASE IOScan(t)
    <2>1. \E b \in BOOLEAN : TickleIf(t, b)
      <3>1. PICK b \in BOOLEAN : b = \E i \in Eligible(t) : i < Len(m_tasks)
                                        /\ \A k \in Eligible(t) : i <= k
        OBVIOUS
      <3> QED
        BY <1>7, <3>1 DEF IOScan
    <2>2. lateRun' \in BOOLEAN
      BY <1>2, <1>7 DEF IOScan
    <2>3. owes[t] = 0 /\ UNCHANGED <<timerVars, fdVars, idleVars, pipe, aborted>>
      BY <1>7 DEF IOScan
    <2> QED
      BY <1>1, <1>2, <1>4, <1>5, <2>1, <2>2, <2>3, RestTypes DEF timerVars, fdVars, idleVars
  <1>8. CASE IORun(t) \/ IOFinish(t) \/ IOStopSteps \/ IOStart \/ UNCHANGED iomVars
    <2>1. UNCHANGED ioVars
      BY <1>8 DEF IORun, IOFinish, IOStopSteps, IOStart, iomVars
    <2> QED
      BY <1>1, <1>2, <1>4, <2>1, RestTypes DEF ioVars, timerVars, fdVars, idleVars
  <1>9. CASE \E f \in Fibers : IOSpawn(t, f) \/ IOSubmit(f)
    <2>1. /\ \E u \in Threads : owes[u] = 0 /\ \E b \in BOOLEAN : TickleIf(u, b)
          /\ UNCHANGED <<timerVars, fdVars, idleVars, pipe, lateRun, aborted>>
      <3>1. PICK b \in BOOLEAN : b = (m_tasks = <<>>)
        OBVIOUS
      <3> QED
        BY <1>5, <1>9, <3>1 DEF IOSpawn, IOSubmit, Exec
    <2> QED
      BY <1>1, <1>2, <1>4, <2>1, RestTypes DEF timerVars, fdVars, idleVars
  <1>10. CASE IOStop
    <2>1. owes' \in [Threads -> 0..Cardinality(Runners)]
      BY <1>2, <1>5, <1>10 DEF IOStop
    <2> QED
      BY <1>1, <1>2, <1>4, <1>10, <2>1, RestTypes DEF IOStop, timerVars, fdVars, idleVars
  <1>11. CASE ReadTimers(t) \/ ReadPending(t) \/ ReadStopping(t)
    <2>1. \E label \in IdleLabels : io' = [io EXCEPT ![t] = label]
      BY <1>11 DEF ReadTimers, ReadPending, ReadStopping, IdleLabels
    <2>2. /\ m_tickled' \in BOOLEAN
          /\ UNCHANGED <<m_timers, due, ready, cbs, evs, pipe, owes, lateRun, aborted>>
      BY <1>2, <1>11 DEF ReadTimers, ReadPending, ReadStopping, timerVars, fdVars
    <2> QED
      BY <1>1, <1>2, <1>4, <2>1, <2>2, RestTypes
  <1>12. CASE EpollWait(t)
    <2>1. \E label \in IdleLabels : io' = [io EXCEPT ![t] = label]
      BY <1>12 DEF EpollWait, IdleLabels
    <2>2. \E S \in SUBSET Conditions : evs' = [evs EXCEPT ![t] = S]
      BY <1>2, <1>12 DEF EpollWait, Reported
    <2>3. /\ pipe' \in BOOLEAN
          /\ UNCHANGED <<m_timers, due, m_tickled, ready, cbs, owes, lateRun, aborted>>
      BY <1>12 DEF EpollWait, timerVars, fdVars
    <2> QED
      BY <1>1, <1>2, <1>4, <2>1, <2>2, <2>3, RestTypes
  <1>13. CASE ListExpired(t)
    <2>1. \E label \in IdleLabels : io' = [io EXCEPT ![t] = label]
      BY <1>13 DEF ListExpired, IdleLabels
    <2>2. \E S \in SUBSET Wakes : cbs' = [cbs EXCEPT ![t] = S]
      BY <1>2, <1>13 DEF ListExpired
    <2>3. /\ m_timers' \subseteq Wakes /\ due' \subseteq m_timers'
          /\ UNCHANGED <<m_tickled, ready, evs, pipe, owes, lateRun, aborted>>
      BY <1>2, <1>13 DEF ListExpired, fdVars
    <2> QED
      BY <1>1, <1>2, <1>4, <2>1, <2>2, <2>3, RestTypes
  <1>14. CASE (\E w \in Wakes : Elapse(w)) \/ (\E c \in Conditions : Arrive(c))
    <2>1. /\ due' \subseteq m_timers /\ ready' \subseteq Conditions
          /\ UNCHANGED <<m_timers, m_tickled, idleVars, pipe, owes, lateRun, aborted>>
      BY <1>2, <1>14 DEF Elapse, Arrive, timerVars, fdVars
    <2> QED
      BY <1>1, <1>2, <1>4, <2>1, RestTypes DEF idleVars
  <1> QED
    BY <1>6, <1>7, <1>8, <1>9, <1>10, <1>11, <1>12, <1>13, <1>14

LEMMA OneJobGrows ==
  ASSUME IOIInv, NEW t \in Runners, NEW j \in Jobs \ InQueue, ScheduleAll(t, <<j>>)
  PROVE  /\ m_tasks' \in Seq(Entries) /\ EntriesInv'
         /\ InQueue' = InQueue \cup {j}
  <1>1. TypeOK /\ EntriesInv
    BY DEF IOIInv, TypesInv, IOTypeOK, TokensInv
  <1> PICK jobs : jobs = <<j>>
    OBVIOUS
  <1>2. jobs \in Seq(Jobs) /\ IsInjective(jobs) /\ ToSet(jobs) = {j}
    BY DEF IsInjective, ToSet
  <1>3. m_tasks' = m_tasks \o [i \in DOMAIN jobs |-> [job |-> jobs[i], thr |-> AnyThread]]
    BY DEF ScheduleAll
  <1>4. ToSet(jobs) \cap InQueue = {}
    BY <1>2
  <1>5. /\ m_tasks' \in Seq(Entries) /\ EntriesInv'
        /\ InQueue' = InQueue \cup ToSet(jobs)
    BY <1>1, <1>2, <1>3, <1>4, QueueGrows
  <1> QED
    BY <1>2, <1>5

LEMMA Tickles ==
  ASSUME IOIInv, NEW t \in Runners, owes[t] = 0, NEW jobs, ScheduleAll(t, jobs)
  PROVE  \E u \in Threads, b \in BOOLEAN : owes[u] = 0 /\ TickleIf(u, b)
  <1>1. PICK b \in BOOLEAN : b = (m_tasks = <<>> /\ jobs # <<>>)
    OBVIOUS
  <1>2. TickleIf(t, b) /\ t \in Threads
    BY <1>1 DEF ScheduleAll, Threads
  <1> QED
    BY <1>2

\* What stays typed as long as it is not changed.
LEMMA TypesHeld ==
  ASSUME TypesInv
  PROVE  /\ IOTypeOK /\ TypeOK
         /\ m_tasks \in Seq(Entries) /\ submitted \subseteq Jobs /\ yields \in [Jobs -> Nat]
         /\ ctx \in [Events -> Fibers \cup {NoJob}]
         /\ m_pendingEventCount = Cardinality(Registered)
         /\ m_timers \subseteq Wakes /\ due \subseteq m_timers /\ m_tickled \in BOOLEAN
         /\ ready \subseteq Conditions /\ pipe \in BOOLEAN
         /\ lateRun \in BOOLEAN /\ aborted \in BOOLEAN
         /\ pc \in [Runners -> Labels] /\ task \in [Runners -> Jobs \cup {NoJob}]
         /\ m_state \in [Jobs -> {"READY", "RUNNING", "TERM"}]
         /\ io \in [Runners -> IdleLabels] /\ cbs \in [Runners -> SUBSET Wakes]
         /\ evs \in [Runners -> SUBSET Conditions]
  BY DEF TypesInv, IOTypeOK, TypeOK

LEMMA WakeFiberEffect ==
  ASSUME IOIInv, NEW t \in Runners, WakeFiber(t)
  PROVE  /\ TypesInv' /\ EntriesInv'
         /\ task[t] \in Wakes \ Rung
         /\ InQueue' = InQueue \cup {task[t][1]}
         /\ Rung' = Rung \cup {task[t]}
         /\ task[t] \in Pending /\ task[t][1] \in Sleeping /\ task[t][1] \in Fibers
  <1> PICK w : w = task[t]
    OBVIOUS
  <1>1. /\ pc[t] = "exec" /\ owes[t] = 0 /\ w \in Wakes /\ yields[w] = 0
        /\ ScheduleAll(t, <<w[1]>>)
        /\ yields' = [yields EXCEPT ![w] = 1]
        /\ UNCHANGED <<Counters, m_stopping, m_state, pc, task, idleTerm, mainPc,
                       submitted>>
        /\ UNCHANGED <<timerVars, fdVars, idleVars, pipe, lateRun, aborted>>
    BY DEF WakeFiber, Exec
  <1>2. TypesInv
    BY DEF IOIInv
  <1>3. w \in Taken /\ w \notin Rung
    BY <1>1, Executes DEF Rung
  <1>4. w \in Pending /\ w[1] \in Sleeping
    BY <1>1, <1>3 DEF Pending, Sleeping
  <1>5. w[1] \in Jobs \ InQueue /\ w[1] \in Fibers /\ w \in Jobs
    BY <1>1, <1>4, WakeParts, FiberIsJob DEF IOIInv, TokensInv, FibersInv
  <1>6. /\ m_tasks' \in Seq(Entries) /\ EntriesInv'
        /\ InQueue' = InQueue \cup {w[1]}
    BY <1>1, <1>5, OneJobGrows
  <1>7. yields' \in [Jobs -> Nat] /\ Rung' = Rung \cup {w}
    BY <1>1, <1>2, <1>5, TypesHeld, WakeParts DEF Rung
  <1>8. TypeOK' /\ CountInv' /\ ThreadInv'
    <2>1. submitted' \subseteq Jobs
      BY <1>1, <1>2, TypesHeld
    <2> QED
      BY <1>1, <1>2, <1>6, <1>7, <2>1, OwnStep
  <1>9. TypesInv'
    <2>1. \E u \in Threads, b \in BOOLEAN : owes[u] = 0 /\ TickleIf(u, b)
      BY <1>1, Tickles
    <2>2. UNCHANGED <<ctx, m_pendingEventCount, m_timers, due, m_tickled, ready, pipe,
                      io, cbs, evs, lateRun, aborted>>
      BY <1>1 DEF timerVars, fdVars, idleVars
    <2>3. Registered' = Registered
      BY <2>2 DEF Registered
    <2> QED
      BY <1>2, <1>8, <2>1, <2>2, <2>3, TypesHeld, RestTypes
  <1> QED
    BY <1>1, <1>3, <1>4, <1>5, <1>6, <1>7, <1>9

LEMMA SuspendEffect ==
  ASSUME IOIInv, NEW t \in Runners, Suspend(t)
  PROVE  /\ TypeOK' /\ CountInv' /\ ThreadInv'
         /\ task[t] \in Fibers /\ pc[t] = "exec" /\ owes[t] = 0
         /\ pc' = [pc EXCEPT ![t] = "yielding"]
         /\ yields[task[t]] + 1 \in 1..MaxYields /\ yields[task[t]] \in Nat
         /\ yields' = [yields EXCEPT ![task[t]] = @ + 1]
         /\ yields'[task[t]] = yields[task[t]] + 1
         /\ UNCHANGED <<m_tasks, m_state, task, submitted>>
         /\ \A w \in Wakes : yields'[w] = yields[w]
         /\ Rung' = Rung
         /\ Taken' = Taken \ {task[t]}
  <1> PICK f : f = task[t]
    OBVIOUS
  <1>1. /\ pc[t] = "exec" /\ owes[t] = 0 /\ f \in Fibers /\ yields[f] < MaxYields
        /\ pc' = [pc EXCEPT ![t] = "yielding"]
        /\ yields' = [yields EXCEPT ![f] = @ + 1]
        /\ UNCHANGED <<m_tasks, Counters, m_stopping, m_state, task, idleTerm,
                       mainPc, submitted>>
    BY DEF Suspend, Exec
  <1>2. TypesInv /\ f \in Jobs /\ f \notin Wakes
    BY <1>1, FiberIsJob DEF IOIInv
  <1>3. /\ m_tasks \in Seq(Entries) /\ submitted \subseteq Jobs
        /\ yields \in [Jobs -> Nat] /\ pc \in [Runners -> Labels]
    BY <1>2, TypesHeld
  <1>4. yields' \in [Jobs -> Nat]
    BY <1>1, <1>2, <1>3
  <1>5. TypeOK' /\ CountInv' /\ ThreadInv'
    BY <1>1, <1>2, <1>3, <1>4, OwnStep DEF Goto
  <1>6. \A w \in Wakes : yields'[w] = yields[w]
    BY <1>1, <1>2, <1>3, WakeParts
  <1>7. Rung' = Rung
    BY <1>6 DEF Rung
  <1>8. yields[f] + 1 \in 1..MaxYields /\ yields'[f] = yields[f] + 1 /\ yields[f] \in Nat
    BY <1>1, <1>2, <1>3, SchedulerAssumption
  <1>9. Taken' = Taken \ {f}
    <2>1. \A u \in Runners : pc[u] \in Held /\ task[u] = f => u = t
      BY <1>1, Executes
    <2>2. /\ pc'[t] = "yielding"
          /\ \A u \in Runners \ {t} : pc'[u] = pc[u]
          /\ task' = task
      BY <1>1, <1>3
    <2> QED
      BY <1>1, <2>1, <2>2 DEF Taken, Held
  <1> QED
    BY <1>1, <1>5, <1>6, <1>7, <1>8, <1>9

LEMMA SleepEffect ==
  ASSUME IOIInv, NEW t \in Runners, Sleep(t)
  PROVE  /\ TypesInv'
         /\ \E w \in Wakes : /\ w[1] = task[t] /\ w[2] = yields[task[t]] + 1
                             /\ m_timers' = m_timers \cup {w}
         /\ UNCHANGED <<ctx, cbs, io>>
  <1> PICK f : f = task[t]
    OBVIOUS
  <1>1. /\ TypeOK' /\ CountInv' /\ ThreadInv' /\ f \in Fibers /\ owes[t] = 0
        /\ yields'[f] = yields[f] + 1 /\ yields[f] + 1 \in 1..MaxYields
    BY SuspendEffect DEF Sleep
  <1> PICK w : w = <<f, yields[f] + 1>>
    OBVIOUS
  <1>2. w \in Wakes /\ w[1] = f /\ w[2] = yields[f] + 1
    BY <1>1 DEF Wakes
  <1>3. m_timers' = m_timers \cup {w}
    BY <1>1 DEF Sleep
  <1>4. PICK first \in BOOLEAN :
          /\ m_tickled' = (m_tickled \/ first)
          /\ TickleIf(t, first /\ ~m_tickled)
    BY DEF Sleep
  <1>5. /\ m_tickled' \in BOOLEAN
        /\ \E u \in Threads, b \in BOOLEAN : owes[u] = 0 /\ TickleIf(u, b)
    <2>1. PICK b \in BOOLEAN : b = (first /\ ~m_tickled)
      OBVIOUS
    <2>2. TickleIf(t, b) /\ t \in Threads
      BY <1>4, <2>1 DEF Threads
    <2>3. m_tickled' \in BOOLEAN
      BY <1>4
    <2> QED
      BY <1>1, <2>2, <2>3
  <1>6. UNCHANGED <<due, ctx, m_pendingEventCount, ready, pipe, io, cbs, evs,
                    lateRun, aborted>>
    BY DEF Sleep, fdVars, idleVars
  <1>7. TypesInv'
    <2>1. TypesInv
      BY DEF IOIInv
    <2>2. Registered' = Registered
      BY <1>6 DEF Registered
    <2>3. m_timers' \subseteq Wakes /\ due' \subseteq m_timers'
      BY <1>2, <1>3, <1>6, <2>1, TypesHeld
    <2> QED
      BY <1>1, <1>5, <1>6, <2>1, <2>2, <2>3, TypesHeld, RestTypes
  <1> QED
    BY <1>2, <1>3, <1>6, <1>7

LEMMA WaitForEffect ==
  ASSUME IOIInv, NEW t \in Runners, NEW e \in Events, WaitFor(t, e)
  PROVE  /\ TypesInv' /\ CtxInv'
         /\ Registered' = Registered \cup {e}
         /\ Awaited' = Awaited \cup {task[t]}
         /\ UNCHANGED <<m_timers, cbs, io>>
  <1> PICK f : f = task[t]
    OBVIOUS
  <1>1. /\ TypeOK' /\ CountInv' /\ ThreadInv' /\ f \in Fibers /\ pc[t] = "exec"
    BY SuspendEffect DEF WaitFor
  <1>2. f \notin Awaited /\ f # NoJob
    BY <1>1, Executes, FiberIsJob
  <1>3. /\ ctx[e] = NoJob
        /\ ctx' = [ctx EXCEPT ![e] = f]
        /\ m_pendingEventCount' = m_pendingEventCount + 1
        /\ ready' = ready \ {e}
        /\ UNCHANGED <<timerVars, idleVars, pipe, owes, lateRun, aborted>>
    BY DEF WaitFor
  <1>4. /\ ctx \in [Events -> Fibers \cup {NoJob}]
        /\ m_pendingEventCount = Cardinality(Registered) /\ ready \subseteq Conditions
        /\ TypesInv /\ CtxInv
    BY TypesHeld DEF IOIInv, TokensInv
  <1>5. /\ ctx' \in [Events -> Fibers \cup {NoJob}]
        /\ ctx'[e] = f /\ \A d \in Events \ {e} : ctx'[d] = ctx[d]
    BY <1>1, <1>3, <1>4
  <1>6. Registered' = Registered \cup {e} /\ e \notin Registered
    BY <1>2, <1>3, <1>5 DEF Registered
  <1>7. Awaited' = Awaited \cup {f}
    BY <1>5, <1>6 DEF Awaited, Registered
  <1>8. CtxInv'
    BY <1>2, <1>4, <1>5, <1>6 DEF CtxInv, Awaited, Registered
  <1>9. m_pendingEventCount' = Cardinality(Registered')
    <2>1. IsFiniteSet(Registered)
      BY RegisteredFinite DEF Registered
    <2> QED
      BY <1>3, <1>4, <1>6, <2>1, FS_AddElement
  <1>10. TypesInv'
    <2>1. UNCHANGED <<m_timers, due, m_tickled, pipe, owes, io, cbs, evs, lateRun, aborted>>
      BY <1>3 DEF timerVars, idleVars
    <2>2. ready' \subseteq Conditions
      BY <1>3, <1>4
    <2> QED
      BY <1>1, <1>4, <1>5, <1>9, <2>1, <2>2, TypesHeld, RestTypes
  <1> QED
    BY <1>3, <1>6, <1>7, <1>8, <1>10 DEF timerVars, idleVars

LEMMA CancelEffect ==
  ASSUME IOIInv, NEW t \in Runners, Cancel(t)
  PROVE  /\ TypesInv' /\ EntriesInv' /\ CtxInv'
         /\ \E fired \in SUBSET Registered :
              /\ InQueue' = InQueue \cup {ctx[e] : e \in fired}
              /\ Awaited' = Awaited \ {ctx[e] : e \in fired}
              /\ Registered' = Registered \ fired
         /\ UNCHANGED <<m_state, pc, task, submitted, yields, m_timers, cbs, io>>
  <1>1. PICK fired \in SUBSET Registered : TriggerEvents(t, fired)
    BY DEF Cancel
  <1>2. /\ pc[t] = "exec" /\ owes[t] = 0
        /\ UNCHANGED <<Counters, m_stopping, m_state, pc, task, idleTerm, mainPc,
                       ClientVars>>
        /\ UNCHANGED <<timerVars, ready, idleVars, pipe, lateRun, aborted>>
    BY DEF Cancel, Exec
  <1>3. /\ m_tasks' \in Seq(Entries) /\ EntriesInv' /\ CtxInv'
        /\ InQueue' = InQueue \cup {ctx[e] : e \in fired}
        /\ ctx' \in [Events -> Fibers \cup {NoJob}]
        /\ Registered' = Registered \ fired
        /\ Awaited' = Awaited \ {ctx[e] : e \in fired}
        /\ m_pendingEventCount' = Cardinality(Registered')
    BY <1>1, TriggerEffect
  <1>4. TypesInv
    BY DEF IOIInv
  <1>5. TypeOK' /\ CountInv' /\ ThreadInv'
    <2>1. submitted' \subseteq Jobs /\ yields' \in [Jobs -> Nat]
      BY <1>2, <1>4, TypesHeld DEF ClientVars
    <2> QED
      BY <1>2, <1>3, <1>4, <2>1, OwnStep
  <1>6. UNCHANGED <<m_timers, due, m_tickled, ready, pipe, io, cbs, evs, lateRun, aborted>>
    BY <1>2 DEF timerVars, idleVars
  <1>7. \E u \in Threads, b \in BOOLEAN : owes[u] = 0 /\ TickleIf(u, b)
    BY <1>1, <1>2, Tickles DEF TriggerEvents
  <1>8. TypesInv'
    BY <1>3, <1>4, <1>5, <1>6, <1>7, TypesHeld, RestTypes
  <1> QED
    BY <1>2, <1>3, <1>6, <1>8 DEF ClientVars

LEMMA ProcessEventsEffect ==
  ASSUME IOIInv, NEW t \in Runners, ProcessEvents(t)
  PROVE  /\ TypesInv' /\ EntriesInv' /\ CtxInv'
         /\ \E fired \in SUBSET Registered :
              /\ InQueue' = InQueue \cup {ctx[e] : e \in fired}
              /\ Awaited' = Awaited \ {ctx[e] : e \in fired}
              /\ Registered' = Registered \ fired
         /\ pc[t] = "idle" /\ pc' = [pc EXCEPT ![t] = "unidle"]
         /\ io[t] = "events" /\ io' = [io EXCEPT ![t] = "check"]
         /\ UNCHANGED <<m_state, task, submitted, yields, m_timers, cbs, idleTerm,
                        m_stopping, mainPc, lateRun>>
  <1> PICK real : real = RealEvents(t)
    OBVIOUS
  <1>1. /\ owes[t] = 0 /\ pc[t] = "idle" /\ io[t] = "events"
        /\ \/ /\ real \cap Registered = {}
              /\ UNCHANGED <<ctx, m_pendingEventCount, m_tasks, owes, aborted>>
           \/ /\ TriggerEvents(t, real \cap Registered)
              /\ aborted' = ~(real \subseteq Registered)
        /\ evs' = [evs EXCEPT ![t] = {}]
        /\ io' = [io EXCEPT ![t] = "check"]
        /\ pc' = [pc EXCEPT ![t] = "unidle"]
        /\ UNCHANGED <<Counters, m_stopping, m_state, task, idleTerm, mainPc, ClientVars>>
        /\ UNCHANGED <<timerVars, ready, cbs, pipe, lateRun>>
    BY DEF ProcessEvents, InIdle
  <1>2. TypesInv /\ EntriesInv /\ CtxInv
    BY DEF IOIInv, TokensInv
  <1>3. /\ m_tasks' \in Seq(Entries) /\ EntriesInv' /\ CtxInv'
        /\ \E fired \in SUBSET Registered :
             /\ InQueue' = InQueue \cup {ctx[e] : e \in fired}
             /\ Awaited' = Awaited \ {ctx[e] : e \in fired}
             /\ Registered' = Registered \ fired
        /\ ctx' \in [Events -> Fibers \cup {NoJob}]
        /\ m_pendingEventCount' = Cardinality(Registered')
        /\ aborted' \in BOOLEAN
        /\ owes' = owes \/ \E u \in Threads, b \in BOOLEAN : owes[u] = 0 /\ TickleIf(u, b)
    <2>1. CASE UNCHANGED <<ctx, m_pendingEventCount, m_tasks, owes, aborted>>
      <3>1. Registered' = Registered /\ InQueue' = InQueue
        BY <2>1 DEF Registered, InQueue
      <3>2. Awaited' = Awaited
        BY <2>1, <3>1 DEF Awaited
      <3>3. EntriesInv' /\ CtxInv'
        BY <1>2, <2>1, <3>1 DEF EntriesInv, CtxInv
      <3>4. \E fired \in SUBSET Registered :
             /\ InQueue' = InQueue \cup {ctx[e] : e \in fired}
             /\ Awaited' = Awaited \ {ctx[e] : e \in fired}
             /\ Registered' = Registered \ fired
        <4> WITNESS {} \in SUBSET Registered
        <4> QED
          BY <3>1, <3>2
      <3>5. /\ m_tasks' \in Seq(Entries) /\ ctx' \in [Events -> Fibers \cup {NoJob}]
            /\ m_pendingEventCount' = Cardinality(Registered') /\ aborted' \in BOOLEAN
            /\ owes' = owes
        BY <1>2, <2>1, <3>1, TypesHeld
      <3> QED
        BY <3>3, <3>4, <3>5
    <2>2. CASE TriggerEvents(t, real \cap Registered) /\ aborted' = ~(real \subseteq Registered)
      <3> PICK fired \in SUBSET Registered : fired = real \cap Registered
        OBVIOUS
      <3>1. TriggerEvents(t, fired)
        BY <2>2
      <3>2. /\ m_tasks' \in Seq(Entries) /\ EntriesInv' /\ CtxInv'
            /\ InQueue' = InQueue \cup {ctx[e] : e \in fired}
            /\ ctx' \in [Events -> Fibers \cup {NoJob}]
            /\ Registered' = Registered \ fired
            /\ Awaited' = Awaited \ {ctx[e] : e \in fired}
            /\ m_pendingEventCount' = Cardinality(Registered')
        BY <3>1, TriggerEffect
      <3>3. \E u \in Threads, b \in BOOLEAN : owes[u] = 0 /\ TickleIf(u, b)
        BY <1>1, <3>1, Tickles DEF TriggerEvents
      <3>4. aborted' \in BOOLEAN
        BY <2>2
      <3> QED
        BY <3>2, <3>3, <3>4
    <2> QED
      BY <1>1, <2>1, <2>2
  <1>4. TypeOK' /\ CountInv' /\ ThreadInv'
    <2>1. submitted' \subseteq Jobs /\ yields' \in [Jobs -> Nat]
      BY <1>1, <1>2, TypesHeld DEF ClientVars
    <2>2. Goto(t, "idle", "unidle")
      BY <1>1 DEF Goto
    <2> QED
      BY <1>1, <1>2, <1>3, <2>1, <2>2, OwnStep
  <1>5. TypesInv'
    <2>1. UNCHANGED <<m_timers, due, m_tickled, ready, cbs, pipe, lateRun>>
      BY <1>1 DEF timerVars
    <2>2. "check" \in IdleLabels /\ {} \in SUBSET Conditions
      BY DEF IdleLabels
    <2> QED
      BY <1>1, <1>2, <1>3, <1>4, <2>1, <2>2, TypesHeld, RestTypes
  <1> QED
    BY <1>1, <1>3, <1>5 DEF ClientVars, timerVars

LEMMA PostEffect ==
  ASSUME IOIInv, NEW t \in Runners, NEW w \in cbs[t], InIdle(t, "post"),
         ScheduleAll(t, <<w>>), submitted' = submitted \cup {w},
         cbs' = [cbs EXCEPT ![t] = @ \ {w}],
         UNCHANGED <<Counters, m_stopping, m_state, pc, task, idleTerm, mainPc,
                     yields, io>>,
         UNCHANGED <<timerVars, fdVars, evs, pipe, lateRun, aborted>>
  PROVE  /\ TypesInv' /\ EntriesInv'
         /\ InQueue' = InQueue \cup {w}
         /\ Listed' = Listed \ {w}
  <1>1. TypesInv /\ CbsInv /\ w \in Listed
    BY DEF IOIInv, TokensInv, Listed
  <1>2. w \in Wakes /\ w \in Jobs \ InQueue
    BY <1>1, Waits
  <1>3. /\ m_tasks' \in Seq(Entries) /\ EntriesInv'
        /\ InQueue' = InQueue \cup {w}
    BY <1>2, OneJobGrows
  <1>4. TypeOK' /\ CountInv' /\ ThreadInv'
    <2>1. submitted' \subseteq Jobs /\ yields' \in [Jobs -> Nat]
      BY <1>1, <1>2, TypesHeld
    <2> QED
      BY <1>1, <1>3, <2>1, OwnStep
  <1>5. cbs \in [Runners -> SUBSET Wakes] /\ cbs[t] \ {w} \in SUBSET Wakes
    BY <1>1, TypesHeld
  <1>6. TypesInv'
    <2>1. \E u \in Threads, b \in BOOLEAN : owes[u] = 0 /\ TickleIf(u, b)
      BY Tickles DEF InIdle
    <2>2. UNCHANGED <<ctx, m_pendingEventCount, m_timers, due, m_tickled, ready, pipe,
                      io, evs, lateRun, aborted>>
      BY DEF timerVars, fdVars
    <2>3. Registered' = Registered
      BY <2>2 DEF Registered
    <2> QED
      BY <1>1, <1>4, <1>5, <2>1, <2>2, <2>3, TypesHeld, RestTypes
  <1>7. Listed' = Listed \ {w}
    <2>1. \A u \in Runners \ {t} : w \notin cbs[u] /\ cbs'[u] = cbs[u]
      BY <1>1, <1>2, <1>5 DEF CbsInv
    <2>2. cbs'[t] = cbs[t] \ {w}
      BY <1>5
    <2> QED
      BY <2>1, <2>2 DEF Listed
  <1> QED
    BY <1>3, <1>6, <1>7

-----------------------------------------------------------------------------
(* The places a fiber or a callback may be in, and the ways between them.  *)

LEMMA PlacesOf ==
  ASSUME IOIInv
  PROVE  /\ FibersInv /\ WakesInv
         /\ Pending \subseteq Wakes /\ Sleeping \subseteq Fibers
         /\ Awaited \subseteq Fibers
         /\ m_timers \subseteq Wakes /\ Listed \subseteq Wakes
  <1>1. FibersInv /\ WakesInv
    BY DEF IOIInv, TokensInv
  <1>2. /\ m_timers \subseteq Wakes /\ Listed \subseteq Wakes
        /\ \A e \in Registered : ctx[e] \in Fibers
    BY TypesHeld DEF IOIInv, Listed, Registered
  <1>3. Pending \subseteq Wakes
    BY <1>2 DEF Pending
  <1>4. Sleeping \subseteq Fibers
    BY <1>3, WakeParts DEF Sleeping
  <1>5. Awaited \subseteq Fibers
    BY <1>2 DEF Awaited
  <1> QED
    BY <1>1, <1>2, <1>3, <1>4, <1>5

\* A new fiber is queued.
LEMMA PlaceNew ==
  ASSUME IOIInv, NEW f \in Fibers \ submitted,
         InQueue' = InQueue \cup {f}, submitted' = submitted \cup {f},
         UNCHANGED <<Taken, Awaited, m_timers, Listed, Ended, Rung, yields>>
  PROVE  FibersInv' /\ WakesInv'
  <1>1. FibersInv /\ WakesInv
    BY PlacesOf
  <1>2. f \notin Wakes
    BY FiberIsJob
  <1>3. Pending' = Pending
    BY <1>2 DEF Pending
  <1>4. Sleeping' = Sleeping
    BY <1>3 DEF Sleeping
  <1>5. f \notin InQueue \cup Taken \cup Awaited \cup Sleeping \cup Ended
    BY <1>1 DEF FibersInv
  <1>6. FibersInv'
    <2>1. /\ InQueue' \cap Taken' = {}
          /\ (InQueue' \cup Taken') \cap (Awaited' \cup Sleeping') = {}
          /\ Awaited' \cap Sleeping' = {}
      BY <1>1, <1>4, <1>5 DEF FibersInv
    <2>2. \A v, w \in Pending' : v[1] = w[1] => v = w
      BY <1>1, <1>3 DEF FibersInv
    <2>3. Fibers \cap (InQueue' \cup Taken' \cup Awaited' \cup Sleeping')
            = (Fibers \cap submitted') \ Ended'
      BY <1>1, <1>4, <1>5 DEF FibersInv
    <2>4. \A g \in Fibers : g \notin submitted' => g \notin Ended'
      BY <1>1 DEF FibersInv
    <2> QED
      BY <2>1, <2>2, <2>3, <2>4 DEF FibersInv
  <1>7. WakesInv'
    <2>1. f \notin m_timers \cup Listed \cup Rung
      BY <1>2, PlacesOf DEF Rung
    <2>2. /\ m_timers' \cap Listed' = {}
          /\ (m_timers' \cup Listed') \cap (InQueue' \cup Taken') = {}
          /\ Wakes \cap (m_timers' \cup Listed' \cup InQueue' \cup Taken') \cap Ended' = {}
          /\ (m_timers' \cup Listed' \cup InQueue') \cap Rung' = {}
      BY <1>1, <1>2, <2>1 DEF WakesInv
    <2>3. \A w \in Wakes : w[2] > yields'[w[1]] =>
            w \notin m_timers' \cup Listed' \cup InQueue' \cup Taken' \cup Ended' \cup Rung'
      <3> SUFFICES ASSUME NEW w \in Wakes, w[2] > yields'[w[1]]
                   PROVE  w \notin m_timers' \cup Listed' \cup InQueue' \cup Taken'
                                     \cup Ended' \cup Rung'
        OBVIOUS
      <3>1. w # f /\ w \notin m_timers \cup Listed \cup InQueue \cup Taken \cup Ended \cup Rung
        BY <1>1, <1>2 DEF WakesInv
      <3> QED
        BY <3>1
    <2> QED
      BY <2>2, <2>3 DEF WakesInv
  <1> QED
    BY <1>6, <1>7

\* A job is taken from the queue.
LEMMA PlaceTaken ==
  ASSUME IOIInv, NEW j \in InQueue,
         InQueue' = InQueue \ {j}, Taken' = Taken \cup {j},
         UNCHANGED <<submitted, Awaited, m_timers, Listed, Ended, Rung, yields>>
  PROVE  FibersInv' /\ WakesInv'
  <1>1. FibersInv /\ WakesInv
    BY PlacesOf
  <1>2. Pending' = Pending
    BY DEF Pending
  <1>3. Sleeping' = Sleeping
    BY <1>2 DEF Sleeping
  <1>4. FibersInv'
    <2>1. /\ InQueue' \cap Taken' = {}
          /\ (InQueue' \cup Taken') \cap (Awaited' \cup Sleeping') = {}
          /\ Awaited' \cap Sleeping' = {}
      BY <1>1, <1>3 DEF FibersInv
    <2>2. \A v, w \in Pending' : v[1] = w[1] => v = w
      BY <1>1, <1>2 DEF FibersInv
    <2>3. Fibers \cap (InQueue' \cup Taken' \cup Awaited' \cup Sleeping')
            = (Fibers \cap submitted') \ Ended'
      BY <1>1, <1>3 DEF FibersInv
    <2>4. \A g \in Fibers : g \notin submitted' => g \notin Ended'
      BY <1>1 DEF FibersInv
    <2> QED
      BY <2>1, <2>2, <2>3, <2>4 DEF FibersInv
  <1>5. WakesInv'
    BY <1>1 DEF WakesInv
  <1> QED
    BY <1>4, <1>5

\* A job ends; a callback has scheduled its fiber before.
LEMMA PlaceEnded ==
  ASSUME IOIInv, NEW j \in Taken, j \in Jobs, j \in Wakes => j \in Rung,
         j \in Fibers => j \in submitted,
         Taken' = Taken \ {j}, Ended' = Ended \cup {j},
         UNCHANGED <<InQueue, submitted, Awaited, m_timers, Listed, Rung, yields>>
  PROVE  FibersInv' /\ WakesInv'
  <1>1. FibersInv /\ WakesInv
    BY PlacesOf
  <1>2. Pending' = Pending
    BY DEF Pending
  <1>3. Sleeping' = Sleeping
    BY <1>2 DEF Sleeping
  <1>4. j \notin InQueue \cup Awaited \cup Sleeping
    BY <1>1 DEF FibersInv
  <1>5. FibersInv'
    <2>1. /\ InQueue' \cap Taken' = {}
          /\ (InQueue' \cup Taken') \cap (Awaited' \cup Sleeping') = {}
          /\ Awaited' \cap Sleeping' = {}
      BY <1>1, <1>3 DEF FibersInv
    <2>2. \A v, w \in Pending' : v[1] = w[1] => v = w
      BY <1>1, <1>2 DEF FibersInv
    <2>3. Fibers \cap (InQueue' \cup Taken' \cup Awaited' \cup Sleeping')
            = (Fibers \cap submitted') \ Ended'
      BY <1>1, <1>3, <1>4 DEF FibersInv
    <2>4. \A g \in Fibers : g \notin submitted' => g \notin Ended'
      BY <1>1 DEF FibersInv
    <2> QED
      BY <2>1, <2>2, <2>3, <2>4 DEF FibersInv
  <1>6. WakesInv'
    <2>1. /\ m_timers' \cap Listed' = {}
          /\ (m_timers' \cup Listed') \cap (InQueue' \cup Taken') = {}
          /\ (m_timers' \cup Listed' \cup InQueue') \cap Rung' = {}
      BY <1>1 DEF WakesInv
    <2>2. Wakes \cap (m_timers' \cup Listed' \cup InQueue' \cup Taken') \cap Ended' = {}
      BY <1>1, <1>4 DEF WakesInv
    <2>3. \A w \in Wakes : w[2] > yields'[w[1]] =>
            w \notin m_timers' \cup Listed' \cup InQueue' \cup Taken' \cup Ended' \cup Rung'
      BY <1>1 DEF WakesInv
    <2> QED
      BY <2>1, <2>2, <2>3 DEF WakesInv
  <1> QED
    BY <1>5, <1>6

\* A callback schedules its fiber.
LEMMA PlaceRung ==
  ASSUME IOIInv, NEW w \in (Taken \cap Wakes) \ Rung,
         InQueue' = InQueue \cup {w[1]}, Rung' = Rung \cup {w},
         UNCHANGED <<Taken, submitted, Awaited, m_timers, Listed, Ended>>,
         \A f \in Fibers : yields'[f] = yields[f]
  PROVE  FibersInv' /\ WakesInv'
  <1>1. FibersInv /\ WakesInv /\ Pending \subseteq Wakes
    BY PlacesOf
  <1>2. w \in Pending /\ w[1] \in Fibers /\ w[1] \notin Wakes
    BY WakeParts, FiberIsJob DEF Pending
  <1>3. Pending' = Pending \ {w}
    <2>1. w \notin m_timers \cup Listed \cup InQueue
      BY <1>1 DEF WakesInv, FibersInv
    <2> QED
      BY <1>2, <2>1 DEF Pending
  <1>4. w[1] \in Sleeping /\ Sleeping' = Sleeping \ {w[1]}
    <2>1. \A v \in Pending \ {w} : v[1] # w[1]
      BY <1>1, <1>2 DEF FibersInv
    <2> QED
      BY <1>2, <1>3, <2>1 DEF Sleeping
  <1>5. FibersInv'
    <2>1. /\ InQueue' \cap Taken' = {}
          /\ (InQueue' \cup Taken') \cap (Awaited' \cup Sleeping') = {}
          /\ Awaited' \cap Sleeping' = {}
      BY <1>1, <1>4 DEF FibersInv
    <2>2. \A u, v \in Pending' : u[1] = v[1] => u = v
      BY <1>1, <1>3 DEF FibersInv
    <2>3. Fibers \cap (InQueue' \cup Taken' \cup Awaited' \cup Sleeping')
            = (Fibers \cap submitted') \ Ended'
      BY <1>1, <1>2, <1>4 DEF FibersInv
    <2>4. \A g \in Fibers : g \notin submitted' => g \notin Ended'
      BY <1>1 DEF FibersInv
    <2> QED
      BY <2>1, <2>2, <2>3, <2>4 DEF FibersInv
  <1>6. WakesInv'
    <2>1. /\ m_timers' \cap Listed' = {}
          /\ Wakes \cap (m_timers' \cup Listed' \cup InQueue' \cup Taken') \cap Ended' = {}
      BY <1>1, <1>2 DEF WakesInv
    <2>2. (m_timers' \cup Listed') \cap (InQueue' \cup Taken') = {}
      <3>1. w[1] \notin m_timers \cup Listed
        BY <1>2, PlacesOf
      <3> QED
        BY <1>1, <3>1 DEF WakesInv
    <2>3. (m_timers' \cup Listed' \cup InQueue') \cap Rung' = {}
      <3>1. w \notin m_timers \cup Listed \cup InQueue /\ w # w[1]
        BY <1>1, <1>2 DEF WakesInv, FibersInv
      <3>2. w[1] \notin Rung
        BY <1>2 DEF Rung
      <3> QED
        BY <1>1, <3>1, <3>2 DEF WakesInv
    <2>4. \A v \in Wakes : v[2] > yields'[v[1]] =>
            v \notin m_timers' \cup Listed' \cup InQueue' \cup Taken' \cup Ended' \cup Rung'
      <3> SUFFICES ASSUME NEW v \in Wakes, v[2] > yields'[v[1]]
                   PROVE  v \notin m_timers' \cup Listed' \cup InQueue' \cup Taken'
                                     \cup Ended' \cup Rung'
        OBVIOUS
      <3>1. v[2] > yields[v[1]]
        BY WakeParts
      <3>2. v \notin m_timers \cup Listed \cup InQueue \cup Taken \cup Ended \cup Rung
        BY <1>1, <3>1 DEF WakesInv
      <3>3. v # w /\ v # w[1]
        BY <1>2, <3>2
      <3> QED
        BY <3>2, <3>3
    <2> QED
      BY <2>1, <2>2, <2>3, <2>4 DEF WakesInv
  <1> QED
    BY <1>5, <1>6

\* A fiber that executes goes to sleep: a timer that was in no place.
LEMMA PlaceSleep ==
  ASSUME IOIInv, NEW f \in Fibers, f \in Taken, NEW w \in Wakes,
         w[1] = f, w[2] = yields[f] + 1, yields[f] \in Nat,
         Taken' = Taken \ {f}, m_timers' = m_timers \cup {w},
         UNCHANGED <<InQueue, submitted, Awaited, Listed, Ended, Rung>>,
         yields' = [yields EXCEPT ![f] = yields[f] + 1], yields \in [Jobs -> Nat]
  PROVE  FibersInv' /\ WakesInv'
  <1>1. FibersInv /\ WakesInv /\ Pending \subseteq Wakes
    BY PlacesOf
  <1>2. f \notin Wakes /\ f \in Jobs
    BY FiberIsJob
  <1>3. w \notin m_timers \cup Listed \cup InQueue \cup Taken \cup Ended \cup Rung
    <2>1. w[2] > yields[w[1]]
      OBVIOUS
    <2> QED
      BY <1>1, <2>1 DEF WakesInv
  <1>4. Pending' = Pending \cup {w}
    BY <1>2 DEF Pending
  <1>5. Sleeping' = Sleeping \cup {f}
    BY <1>4 DEF Sleeping
  <1>6. f \notin InQueue \cup Awaited \cup Sleeping /\ \A v \in Pending : v[1] # f
    <2>1. f \notin InQueue \cup Awaited \cup Sleeping
      BY <1>1 DEF FibersInv
    <2> QED
      BY <2>1 DEF Sleeping
  <1>7. FibersInv'
    <2>1. /\ InQueue' \cap Taken' = {}
          /\ (InQueue' \cup Taken') \cap (Awaited' \cup Sleeping') = {}
          /\ Awaited' \cap Sleeping' = {}
      BY <1>1, <1>5, <1>6 DEF FibersInv
    <2>2. \A u, v \in Pending' : u[1] = v[1] => u = v
      BY <1>1, <1>4, <1>6 DEF FibersInv
    <2>3. Fibers \cap (InQueue' \cup Taken' \cup Awaited' \cup Sleeping')
            = (Fibers \cap submitted') \ Ended'
      BY <1>1, <1>5, <1>6 DEF FibersInv
    <2>4. \A g \in Fibers : g \notin submitted' => g \notin Ended'
      BY <1>1 DEF FibersInv
    <2> QED
      BY <2>1, <2>2, <2>3, <2>4 DEF FibersInv
  <1>8. WakesInv'
    <2>1. /\ m_timers' \cap Listed' = {}
          /\ (m_timers' \cup Listed') \cap (InQueue' \cup Taken') = {}
          /\ Wakes \cap (m_timers' \cup Listed' \cup InQueue' \cup Taken') \cap Ended' = {}
          /\ (m_timers' \cup Listed' \cup InQueue') \cap Rung' = {}
      BY <1>1, <1>3 DEF WakesInv
    <2>2. \A v \in Wakes : v[2] > yields'[v[1]] => v[2] > yields[v[1]] /\ v # w
      <3> SUFFICES ASSUME NEW v \in Wakes, v[2] > yields'[v[1]]
                   PROVE  v[2] > yields[v[1]] /\ v # w
        OBVIOUS
      <3>1. v[1] \in Jobs /\ v[2] \in Nat /\ yields[v[1]] \in Nat
        BY WakeParts, FiberIsJob
      <3>2. CASE v[1] = f
        <4>1. yields'[v[1]] = yields[f] + 1
          BY <1>2, <3>2
        <4> QED
          BY <3>1, <3>2, <4>1
      <3>3. CASE v[1] # f
        <4>1. yields'[v[1]] = yields[v[1]]
          BY <1>2, <3>1, <3>3
        <4> QED
          BY <3>3, <4>1
      <3> QED
        BY <3>2, <3>3
    <2>3. \A v \in Wakes : v[2] > yields'[v[1]] =>
            v \notin m_timers' \cup Listed' \cup InQueue' \cup Taken' \cup Ended' \cup Rung'
      BY <1>1, <2>2 DEF WakesInv
    <2> QED
      BY <2>1, <2>3 DEF WakesInv
  <1> QED
    BY <1>7, <1>8

\* A fiber that executes waits for an event.
LEMMA PlaceAwait ==
  ASSUME IOIInv, NEW f \in Fibers, f \in Taken,
         Taken' = Taken \ {f}, Awaited' = Awaited \cup {f},
         UNCHANGED <<InQueue, submitted, m_timers, Listed, Ended, Rung>>,
         yields' = [yields EXCEPT ![f] = yields[f] + 1], yields \in [Jobs -> Nat]
  PROVE  FibersInv' /\ WakesInv'
  <1>1. FibersInv /\ WakesInv /\ Pending \subseteq Wakes
    BY PlacesOf
  <1>2. f \notin Wakes /\ f \in Jobs
    BY FiberIsJob
  <1>3. Pending' = Pending
    BY <1>2 DEF Pending
  <1>4. Sleeping' = Sleeping
    BY <1>3 DEF Sleeping
  <1>5. f \notin InQueue \cup Awaited \cup Sleeping
    BY <1>1 DEF FibersInv
  <1>6. FibersInv'
    <2>1. /\ InQueue' \cap Taken' = {}
          /\ (InQueue' \cup Taken') \cap (Awaited' \cup Sleeping') = {}
          /\ Awaited' \cap Sleeping' = {}
      BY <1>1, <1>4, <1>5 DEF FibersInv
    <2>2. \A u, v \in Pending' : u[1] = v[1] => u = v
      BY <1>1, <1>3 DEF FibersInv
    <2>3. Fibers \cap (InQueue' \cup Taken' \cup Awaited' \cup Sleeping')
            = (Fibers \cap submitted') \ Ended'
      BY <1>1, <1>4, <1>5 DEF FibersInv
    <2>4. \A g \in Fibers : g \notin submitted' => g \notin Ended'
      BY <1>1 DEF FibersInv
    <2> QED
      BY <2>1, <2>2, <2>3, <2>4 DEF FibersInv
  <1>7. WakesInv'
    <2>1. /\ m_timers' \cap Listed' = {}
          /\ (m_timers' \cup Listed') \cap (InQueue' \cup Taken') = {}
          /\ Wakes \cap (m_timers' \cup Listed' \cup InQueue' \cup Taken') \cap Ended' = {}
          /\ (m_timers' \cup Listed' \cup InQueue') \cap Rung' = {}
      BY <1>1 DEF WakesInv
    <2>2. \A v \in Wakes : v[2] > yields'[v[1]] => v[2] > yields[v[1]]
      <3> SUFFICES ASSUME NEW v \in Wakes, v[2] > yields'[v[1]]
                   PROVE  v[2] > yields[v[1]]
        OBVIOUS
      <3>1. v[1] \in Jobs /\ v[2] \in Nat /\ yields[v[1]] \in Nat
        BY WakeParts, FiberIsJob
      <3>2. yields'[v[1]] = IF v[1] = f THEN yields[v[1]] + 1 ELSE yields[v[1]]
        BY <1>2, <3>1
      <3> QED
        BY <3>1, <3>2
    <2>3. \A v \in Wakes : v[2] > yields'[v[1]] =>
            v \notin m_timers' \cup Listed' \cup InQueue' \cup Taken' \cup Ended' \cup Rung'
      BY <1>1, <2>2 DEF WakesInv
    <2> QED
      BY <2>1, <2>3 DEF WakesInv
  <1> QED
    BY <1>6, <1>7

\* Fibers that waited for events are queued.
LEMMA PlaceTriggered ==
  ASSUME IOIInv, NEW F \in SUBSET Awaited,
         InQueue' = InQueue \cup F, Awaited' = Awaited \ F,
         UNCHANGED <<Taken, submitted, m_timers, Listed, Ended, Rung, yields>>
  PROVE  FibersInv' /\ WakesInv'
  <1>1. FibersInv /\ WakesInv /\ Awaited \subseteq Fibers
    BY PlacesOf
  <1>2. /\ F \subseteq Fibers /\ F \cap Wakes = {} /\ F \cap (InQueue \cup Taken \cup Sleeping) = {}
        /\ F \cap Ended = {} /\ F \subseteq submitted
    <2>1. F \subseteq Fibers
      BY <1>1
    <2>2. F \cap Wakes = {}
      BY <2>1, FiberIsJob
    <2>3. F \cap (InQueue \cup Taken \cup Sleeping) = {}
      BY <1>1 DEF FibersInv
    <2>4. F \cap Ended = {} /\ F \subseteq submitted
      BY <1>1, <2>1 DEF FibersInv
    <2> QED
      BY <2>1, <2>2, <2>3, <2>4
  <1>3. Pending' = Pending
    BY <1>2 DEF Pending
  <1>4. Sleeping' = Sleeping
    BY <1>3 DEF Sleeping
  <1>5. FibersInv'
    <2>1. /\ InQueue' \cap Taken' = {}
          /\ (InQueue' \cup Taken') \cap (Awaited' \cup Sleeping') = {}
          /\ Awaited' \cap Sleeping' = {}
      BY <1>1, <1>2, <1>4 DEF FibersInv
    <2>2. \A u, v \in Pending' : u[1] = v[1] => u = v
      BY <1>1, <1>3 DEF FibersInv
    <2>3. Fibers \cap (InQueue' \cup Taken' \cup Awaited' \cup Sleeping')
            = (Fibers \cap submitted') \ Ended'
      BY <1>1, <1>2, <1>4 DEF FibersInv
    <2>4. \A g \in Fibers : g \notin submitted' => g \notin Ended'
      BY <1>1 DEF FibersInv
    <2> QED
      BY <2>1, <2>2, <2>3, <2>4 DEF FibersInv
  <1>6. WakesInv'
    <2>1. F \cap (m_timers \cup Listed) = {} /\ F \cap Rung = {}
      BY <1>2, PlacesOf DEF Rung
    <2>2. /\ m_timers' \cap Listed' = {}
          /\ (m_timers' \cup Listed') \cap (InQueue' \cup Taken') = {}
          /\ Wakes \cap (m_timers' \cup Listed' \cup InQueue' \cup Taken') \cap Ended' = {}
          /\ (m_timers' \cup Listed' \cup InQueue') \cap Rung' = {}
      BY <1>1, <1>2, <2>1 DEF WakesInv
    <2>3. \A v \in Wakes : v[2] > yields'[v[1]] =>
            v \notin m_timers' \cup Listed' \cup InQueue' \cup Taken' \cup Ended' \cup Rung'
      <3> SUFFICES ASSUME NEW v \in Wakes, v[2] > yields'[v[1]]
                   PROVE  v \notin m_timers' \cup Listed' \cup InQueue' \cup Taken'
                                     \cup Ended' \cup Rung'
        OBVIOUS
      <3>1. v \notin F /\ v \notin m_timers \cup Listed \cup InQueue \cup Taken \cup Ended \cup Rung
        BY <1>1, <1>2 DEF WakesInv
      <3> QED
        BY <3>1
    <2> QED
      BY <2>2, <2>3 DEF WakesInv
  <1> QED
    BY <1>5, <1>6

\* Timers expire: their callbacks are listed by a thread that lists none.
LEMMA PlaceExpired ==
  ASSUME IOIInv, NEW D \in SUBSET m_timers,
         m_timers' = m_timers \ D, Listed' = Listed \cup D,
         UNCHANGED <<InQueue, Taken, submitted, Awaited, Ended, Rung, yields>>
  PROVE  FibersInv' /\ WakesInv'
  <1>1. FibersInv /\ WakesInv
    BY PlacesOf
  <1>2. Pending' = Pending
    BY DEF Pending
  <1>3. Sleeping' = Sleeping
    BY <1>2 DEF Sleeping
  <1>4. FibersInv'
    BY <1>1, <1>2, <1>3 DEF FibersInv
  <1>5. WakesInv'
    BY <1>1 DEF WakesInv
  <1> QED
    BY <1>4, <1>5

\* A callback is queued.
LEMMA PlacePosted ==
  ASSUME IOIInv, NEW w \in Listed, InQueue' = InQueue \cup {w},
         Listed' = Listed \ {w}, submitted' = submitted \cup {w},
         UNCHANGED <<m_timers, Taken, Awaited, Ended, Rung, yields>>
  PROVE  FibersInv' /\ WakesInv'
  <1>1. FibersInv /\ WakesInv
    BY PlacesOf
  <1>2. /\ w \in Wakes /\ w \notin Fibers /\ w \notin InQueue \cup Taken
        /\ w \notin Ended /\ w \notin Rung
    BY Waits, WakeParts
  <1>3. Pending' = Pending
    BY <1>2 DEF Pending
  <1>4. Sleeping' = Sleeping
    BY <1>3 DEF Sleeping
  <1>5. w \notin Awaited \cup Sleeping
    BY <1>2, PlacesOf
  <1>6. FibersInv'
    <2>1. /\ InQueue' \cap Taken' = {}
          /\ (InQueue' \cup Taken') \cap (Awaited' \cup Sleeping') = {}
          /\ Awaited' \cap Sleeping' = {}
      BY <1>1, <1>2, <1>4, <1>5 DEF FibersInv
    <2>2. \A u, v \in Pending' : u[1] = v[1] => u = v
      BY <1>1, <1>3 DEF FibersInv
    <2>3. Fibers \cap (InQueue' \cup Taken' \cup Awaited' \cup Sleeping')
            = (Fibers \cap submitted') \ Ended'
      BY <1>1, <1>2, <1>4 DEF FibersInv
    <2>4. \A g \in Fibers : g \notin submitted' => g \notin Ended'
      BY <1>1 DEF FibersInv
    <2> QED
      BY <2>1, <2>2, <2>3, <2>4 DEF FibersInv
  <1>7. WakesInv'
    <2>1. w \notin m_timers
      BY <1>1 DEF WakesInv
    <2> QED
      BY <1>1, <1>2, <2>1 DEF WakesInv
  <1> QED
    BY <1>6, <1>7

-----------------------------------------------------------------------------
(* TokensInv is kept.                                                      *)

LEMMA TokensInit == IOInit => TokensInv
  <1> SUFFICES ASSUME IOInit PROVE TokensInv
    OBVIOUS
  <1>1. /\ InQueue = {} /\ Taken = {} /\ Registered = {} /\ Listed = {} /\ Ended = {}
        /\ m_timers = {} /\ submitted = {}
    BY DEF IOInit, Init, InQueue, Taken, Registered, Listed, Ended
  <1>2. Awaited = {} /\ Pending = {} /\ Rung = {}
    BY <1>1, WakeParts DEF IOInit, Init, Awaited, Pending, Rung
  <1>3. Sleeping = {}
    BY <1>2 DEF Sleeping
  <1>4. EntriesInv /\ CtxInv /\ CbsInv
    BY <1>1 DEF IOInit, Init, EntriesInv, CtxInv, CbsInv
  <1>5. HeldInv
    BY DEF IOInit, Init, HeldInv, Held
  <1>6. FibersInv
    BY <1>1, <1>2, <1>3 DEF FibersInv
  <1>7. WakesInv
    BY <1>1, <1>2 DEF WakesInv
  <1> QED
    BY <1>4, <1>5, <1>6, <1>7 DEF TokensInv

\* A step that moves no job.
LEMMA TokensQuiet ==
  ASSUME IOIInv, UNCHANGED <<m_tasks, m_state, submitted, yields, m_timers, cbs, ctx>>,
         \A u \in Runners : pc[u] \in Held \/ pc'[u] \in Held =>
                              pc'[u] = pc[u] /\ task'[u] = task[u],
         \A u \in Runners : io'[u] # "check" => pc'[u] = "idle",
         \A u \in Runners : cbs[u] # {} => io'[u] = "post"
  PROVE  TokensInv'
  <1>1. TokensInv
    BY DEF IOIInv
  <1>2. /\ InQueue' = InQueue /\ Taken' = Taken /\ Listed' = Listed
        /\ Ended' = Ended /\ Registered' = Registered /\ Rung' = Rung
    BY DEF InQueue, Taken, Held, Listed, Ended, Registered, Rung
  <1>3. Awaited' = Awaited /\ Pending' = Pending
    BY <1>2 DEF Awaited, Pending
  <1>4. Sleeping' = Sleeping
    BY <1>3 DEF Sleeping
  <1>5. EntriesInv' /\ CtxInv'
    BY <1>1, <1>2 DEF TokensInv, EntriesInv, CtxInv
  <1>6. HeldInv'
    BY <1>1 DEF TokensInv, HeldInv, Held
  <1>7. CbsInv'
    BY <1>1 DEF TokensInv, CbsInv
  <1>8. FibersInv'
    BY <1>1, <1>2, <1>3, <1>4 DEF TokensInv, FibersInv
  <1>9. WakesInv'
    BY <1>1, <1>2 DEF TokensInv, WakesInv
  <1> QED
    BY <1>5, <1>6, <1>7, <1>8, <1>9 DEF TokensInv

\* No thread leaves idle() in the middle.
LEMMA CbsKept ==
  ASSUME IOIInv, UNCHANGED <<io, cbs>>,
         \A u \in Runners : pc[u] = "idle" /\ io[u] # "check" => pc'[u] = "idle"
  PROVE  CbsInv'
  BY DEF IOIInv, TokensInv, CbsInv

LEMMA QuietSteps ==
  ASSUME IOIInv, NEW t \in Runners,
         \/ Tickle(t) \/ Tickle(Main) \/ IOStopSteps \/ IOStart \/ IOStop
         \/ (owes[t] = 0 /\ (EnterIdle(t) \/ LeaveIdle(t) \/ SwapOut(t) \/ Return(t))
             /\ UNCHANGED ioVars)
         \/ (IOScan(t) /\ Eligible(t) = {})
         \/ ReadTimers(t) \/ ReadPending(t) \/ ReadStopping(t) \/ EpollWait(t)
         \/ (InIdle(t, "post") /\ cbs[t] = {} /\ io' = [io EXCEPT ![t] = "events"]
             /\ UNCHANGED <<vars, timerVars, ctx, cbs>>)
         \/ (\E w \in Wakes : Elapse(w)) \/ (\E c \in Conditions : Arrive(c))
         \/ UNCHANGED iomVars
  PROVE  TokensInv'
  <1>1. /\ pc \in [Runners -> Labels] /\ task \in [Runners -> Jobs \cup {NoJob}]
        /\ io \in [Runners -> IdleLabels]
    BY TypesHeld DEF IOIInv
  <1>2. /\ \A u \in Runners : io[u] # "check" => pc[u] = "idle"
        /\ \A u \in Runners : cbs[u] # {} => io[u] = "post"
    BY DEF IOIInv, TokensInv, CbsInv
  <1>3. CASE Tickle(t) \/ Tickle(Main) \/ IOStop \/ (\E w \in Wakes : Elapse(w))
             \/ (\E c \in Conditions : Arrive(c)) \/ UNCHANGED iomVars
    <2>1. UNCHANGED <<m_tasks, m_state, submitted, yields, m_timers, cbs, ctx, pc, task, io>>
      BY <1>3 DEF Tickle, IOStop, Stop, Elapse, Arrive, iomVars, ioVars, vars, timerVars,
                  fdVars, idleVars, ClientVars
    <2> QED
      BY <1>2, <2>1, TokensQuiet
  <1>4. CASE IOStart \/ IOStopSteps
    <2>1. UNCHANGED <<m_tasks, m_state, submitted, yields, m_timers, cbs, ctx, task, io>>
      BY <1>4 DEF IOStart, Start, IOStopSteps, StopSteps, ResumeRoot, RootEnd, Join,
                  ioVars, timerVars, fdVars, idleVars, ClientVars
    <2>2. \A u \in Runners : pc'[u] = pc[u] \/ (pc[u] = "unborn" /\ pc'[u] = "scan")
      <3>1. ThreadInv
        BY DEF IOIInv, TypesInv
      <3>2. CASE IOStart
        BY <1>1, <3>1, <3>2 DEF IOStart, Start, ThreadInv, Runners
      <3>3. CASE IOStopSteps
        BY <1>1, <3>1, <3>3 DEF IOStopSteps, StopSteps, ResumeRoot, RootEnd, Join,
                                ThreadInv, Runners
      <3> QED
        BY <1>4, <3>2, <3>3
    <2>3. \A u \in Runners : pc[u] \in Held \/ pc'[u] \in Held =>
                              pc'[u] = pc[u] /\ task'[u] = task[u]
      BY <2>1, <2>2 DEF Held
    <2>4. \A u \in Runners : io'[u] # "check" => pc'[u] = "idle"
      BY <1>2, <2>1, <2>2
    <2> QED
      BY <1>2, <2>1, <2>3, <2>4, TokensQuiet
  <1>5. CASE (EnterIdle(t) \/ LeaveIdle(t) \/ SwapOut(t) \/ Return(t)) /\ UNCHANGED ioVars
    <2>1. /\ UNCHANGED <<m_tasks, m_state, submitted, yields, m_timers, cbs, ctx, io>>
          /\ pc[t] \in {"empty", "unidle", "swap", "ret"}
          /\ pc'[t] \in {"idle", "exited", "scan", "ret"}
          /\ \A u \in Runners \ {t} : pc'[u] = pc[u] /\ task'[u] = task[u]
      BY <1>1, <1>5 DEF EnterIdle, LeaveIdle, SwapOut, Return, Goto, ioVars, timerVars,
                  fdVars, idleVars, ClientVars
    <2>2. \A u \in Runners : pc[u] \in Held \/ pc'[u] \in Held =>
                              pc'[u] = pc[u] /\ task'[u] = task[u]
      BY <2>1 DEF Held
    <2>3. \A u \in Runners : io'[u] # "check" => pc'[u] = "idle"
      BY <1>2, <2>1
    <2> QED
      BY <1>2, <2>1, <2>2, <2>3, TokensQuiet
  <1>6. CASE IOScan(t) /\ Eligible(t) = {}
    <2>1. /\ UNCHANGED <<m_tasks, m_state, submitted, yields, m_timers, cbs, ctx, io, task>>
          /\ pc[t] = "scan" /\ pc'[t] = "empty"
          /\ \A u \in Runners \ {t} : pc'[u] = pc[u]
      BY <1>1, <1>6 DEF IOScan, Scan, Goto, timerVars, fdVars, idleVars, ClientVars
    <2>2. \A u \in Runners : pc[u] \in Held \/ pc'[u] \in Held =>
                              pc'[u] = pc[u] /\ task'[u] = task[u]
      BY <2>1 DEF Held
    <2>3. \A u \in Runners : io'[u] # "check" => pc'[u] = "idle"
      BY <1>2, <2>1
    <2> QED
      BY <1>2, <2>1, <2>2, <2>3, TokensQuiet
  <1>7. CASE \/ ReadTimers(t) \/ ReadPending(t) \/ ReadStopping(t) \/ EpollWait(t)
             \/ (InIdle(t, "post") /\ cbs[t] = {} /\ io' = [io EXCEPT ![t] = "events"]
                 /\ UNCHANGED <<vars, timerVars, ctx, cbs>>)
    <2>1. /\ UNCHANGED <<m_tasks, m_state, submitted, yields, m_timers, cbs, ctx, task>>
          /\ pc[t] = "idle" /\ pc'[t] \in {"idle", "unidle"}
          /\ pc'[t] = "idle" \/ io'[t] = "check"
          /\ \A u \in Runners \ {t} : pc'[u] = pc[u] /\ io'[u] = io[u]
          /\ cbs[t] = {}
      BY <1>1, <1>2, <1>7 DEF ReadTimers, ReadPending, ReadStopping, EpollWait, InIdle,
            Idle, Goto, vars, timerVars, fdVars, ClientVars
    <2>2. \A u \in Runners : pc[u] \in Held \/ pc'[u] \in Held =>
                              pc'[u] = pc[u] /\ task'[u] = task[u]
      BY <2>1 DEF Held
    <2>3. /\ \A u \in Runners : io'[u] # "check" => pc'[u] = "idle"
          /\ \A u \in Runners : cbs[u] # {} => io'[u] = "post"
      BY <1>2, <2>1
    <2> QED
      BY <2>1, <2>2, <2>3, TokensQuiet
  <1> QED
    BY <1>3, <1>4, <1>5, <1>6, <1>7

LEMMA NewFiberTokens ==
  ASSUME IOIInv, NEW t \in Runners, NEW f \in Fibers, IOSpawn(t, f) \/ IOSubmit(f)
  PROVE  TokensInv'
  <1>1. /\ f \in Fibers \ submitted
        /\ m_tasks' = Append(m_tasks, [job |-> f, thr |-> AnyThread])
        /\ submitted' = submitted \cup {f}
        /\ UNCHANGED <<m_state, pc, task, yields, m_timers, ctx, cbs, io>>
    BY DEF IOSpawn, Spawn, IOSubmit, Submit, Schedule, timerVars, fdVars, idleVars
  <1>2. TypeOK /\ TokensInv /\ FibersInv /\ EntriesInv
    BY TypesHeld DEF IOIInv, TokensInv
  <1>3. f \in Jobs \ InQueue
    <2>1. f \notin InQueue
      BY <1>1, <1>2 DEF FibersInv
    <2> QED
      BY <2>1, FiberIsJob
  <1>4. EntriesInv' /\ InQueue' = InQueue \cup {f}
    BY <1>1, <1>2, <1>3, QueueAppends
  <1>5. /\ Taken' = Taken /\ Listed' = Listed /\ Ended' = Ended
        /\ Registered' = Registered /\ Rung' = Rung
    BY <1>1 DEF Taken, Listed, Ended, Registered, Rung
  <1>6. Awaited' = Awaited
    BY <1>1, <1>5 DEF Awaited
  <1>7. FibersInv' /\ WakesInv'
    BY <1>1, <1>4, <1>5, <1>6, PlaceNew
  <1>8. HeldInv' /\ CtxInv' /\ CbsInv'
    BY <1>1, <1>2, <1>5 DEF TokensInv, HeldInv, CtxInv, CbsInv, Held
  <1> QED
    BY <1>4, <1>7, <1>8 DEF TokensInv

LEMMA TakeTokens ==
  ASSUME IOIInv, NEW t \in Runners, IOScan(t), Eligible(t) # {}
  PROVE  TokensInv'
  <1>1. /\ TypeOK /\ TokensInv /\ EntriesInv /\ HeldInv /\ FibersInv
        /\ pc \in [Runners -> Labels] /\ task \in [Runners -> Jobs \cup {NoJob}]
    BY TypesHeld DEF IOIInv, TokensInv
  <1>2. PICK i \in Eligible(t) :
          /\ pc[t] = "scan" /\ pc' = [pc EXCEPT ![t] = "dispatch"]
          /\ m_tasks' = RemoveAt(m_tasks, i)
          /\ task' = [task EXCEPT ![t] = m_tasks[i].job]
          /\ UNCHANGED <<m_state, submitted, yields>>
    BY DEF IOScan, Scan, Goto, ClientVars
  <1>3. UNCHANGED <<m_timers, ctx, cbs, io>>
    BY DEF IOScan, timerVars, fdVars, idleVars
  <1> PICK j : j = m_tasks[i].job
    OBVIOUS
  <1>4. i \in DOMAIN m_tasks /\ j \in InQueue /\ j \in Jobs
    BY <1>1, EntryType DEF Eligible, InQueue
  <1>5. m_state[j] = "READY"
    <2>1. m_state[j] # "RUNNING"
      BY <1>2 DEF Eligible
    <2>2. j \notin Ended
      <3>1. j \in Fibers \/ j \in Wakes
        BY <1>4, IOManagerAssumption
      <3>2. WakesInv
        BY <1>1 DEF TokensInv
      <3> QED
        BY <1>1, <1>4, <3>1, <3>2 DEF FibersInv, WakesInv
    <2> QED
      BY <1>1, <1>4, <2>1, <2>2 DEF TypeOK, Ended
  <1>6. EntriesInv' /\ InQueue' = InQueue \ {j}
    BY <1>1, <1>2, <1>4, QueueShrinks
  <1>7. /\ pc'[t] = "dispatch" /\ task'[t] = j
        /\ \A u \in Runners \ {t} : pc'[u] = pc[u] /\ task'[u] = task[u]
    BY <1>1, <1>2
  <1>8. Taken' = Taken \cup {j}
    BY <1>2, <1>7 DEF Taken
  <1>9. /\ Listed' = Listed /\ Ended' = Ended /\ Registered' = Registered /\ Rung' = Rung
    BY <1>2, <1>3 DEF Listed, Ended, Registered, Rung
  <1>10. Awaited' = Awaited
    BY <1>3, <1>9 DEF Awaited
  <1>11. FibersInv' /\ WakesInv'
    BY <1>2, <1>3, <1>4, <1>6, <1>8, <1>9, <1>10, PlaceTaken
  <1>12. \A u \in Runners : pc[u] \in Held => task[u] # j
    <2> SUFFICES ASSUME NEW u \in Runners, pc[u] \in Held, task[u] = j PROVE FALSE
      OBVIOUS
    <2>1. CASE pc[u] \in {"dispatch", "exec"}
      BY <1>1, <1>4, <2>1 DEF Taken, FibersInv
    <2>2. CASE pc[u] = "yielding"
      BY <1>1, <1>5, <2>2 DEF HeldInv
    <2> QED
      BY <2>1, <2>2 DEF Held
  <1>13. HeldInv'
    <2>1. \A u, v \in Runners :
            pc'[u] \in Held /\ pc'[v] \in Held /\ task'[u] = task'[v] => u = v
      BY <1>1, <1>2, <1>7, <1>12 DEF HeldInv
    <2>2. \A u \in Runners : pc'[u] = "dispatch" => m_state'[task'[u]] = "READY"
      BY <1>1, <1>2, <1>5, <1>7 DEF HeldInv
    <2>3. \A u \in Runners : pc'[u] \in {"exec", "yielding"} =>
            pc'[u] = pc[u] /\ task'[u] = task[u]
      BY <1>7
    <2>4. \A k \in Jobs : m_state'[k] = "RUNNING" =>
            \E u \in Runners : task'[u] = k /\ pc'[u] \in {"exec", "yielding"}
      BY <1>1, <1>2, <1>7 DEF HeldInv
    <2> QED
      BY <1>1, <1>2, <2>1, <2>2, <2>3, <2>4 DEF HeldInv, Held
  <1>14. CtxInv'
    BY <1>1, <1>3, <1>9 DEF TokensInv, CtxInv
  <1>15. CbsInv'
    BY <1>2, <1>3, <1>7, CbsKept
  <1> QED
    BY <1>6, <1>11, <1>13, <1>14, <1>15 DEF TokensInv

\* The thread changes the state of the job it holds.
LEMMA StateTokens ==
  ASSUME IOIInv, NEW t \in Runners, UNCHANGED ioVars,
         Resume(t) \/ MarkReady(t)
  PROVE  TokensInv'
  <1>1. /\ TypeOK /\ TokensInv /\ EntriesInv /\ HeldInv /\ FibersInv /\ ThreadInv
        /\ pc \in [Runners -> Labels] /\ task \in [Runners -> Jobs \cup {NoJob}]
        /\ m_state \in [Jobs -> {"READY", "RUNNING", "TERM"}]
    BY TypesHeld DEF IOIInv, TypesInv, TokensInv
  <1>2. /\ UNCHANGED <<m_tasks, task, submitted, yields>>
        /\ UNCHANGED <<m_timers, ctx, cbs, io>>
        /\ \/ /\ pc[t] = "dispatch" /\ pc' = [pc EXCEPT ![t] = "exec"]
              /\ m_state' = [m_state EXCEPT ![task[t]] = "RUNNING"]
           \/ /\ pc[t] = "yielding" /\ pc' = [pc EXCEPT ![t] = "swap"]
              /\ m_state' = [m_state EXCEPT ![task[t]] = "READY"]
    BY DEF Resume, MarkReady, Goto, ClientVars, ioVars, timerVars, fdVars, idleVars
  <1> PICK j : j = task[t]
    OBVIOUS
  <1>3. /\ j \in Jobs /\ m_state[j] # "TERM"
        /\ \A u \in Runners \ {t} : pc[u] \in Held => task[u] # j
    BY <1>1, <1>2 DEF ThreadInv, HeldInv, Held, Busy
  <1>4. /\ m_state'[j] \in {"READY", "RUNNING"}
        /\ \A k \in Jobs \ {j} : m_state'[k] = m_state[k]
        /\ \A u \in Runners \ {t} : pc'[u] = pc[u]
    BY <1>1, <1>2, <1>3
  <1>5. /\ InQueue' = InQueue /\ Listed' = Listed /\ Registered' = Registered
        /\ Rung' = Rung
    BY <1>2 DEF InQueue, Listed, Registered, Rung
  <1>6. Ended' = Ended
    BY <1>3, <1>4 DEF Ended
  <1>7. Taken' = Taken
    BY <1>1, <1>2, <1>4 DEF Taken
  <1>8. Awaited' = Awaited /\ Pending' = Pending
    BY <1>2, <1>5, <1>7 DEF Awaited, Pending
  <1>9. Sleeping' = Sleeping
    BY <1>8 DEF Sleeping
  <1>10. FibersInv' /\ WakesInv'
    BY <1>1, <1>2, <1>5, <1>6, <1>7, <1>8, <1>9 DEF TokensInv, FibersInv, WakesInv
  <1>11. HeldInv'
    <2>1. CASE /\ pc[t] = "dispatch" /\ pc'[t] = "exec" /\ m_state'[j] = "RUNNING"
      <3>1. \A u, v \in Runners :
              pc'[u] \in Held /\ pc'[v] \in Held /\ task[u] = task[v] => u = v
        BY <1>1, <1>4, <2>1 DEF HeldInv, Held
      <3>2. \A u \in Runners : pc'[u] = "dispatch" => m_state'[task[u]] = "READY"
        BY <1>1, <1>3, <1>4, <2>1 DEF HeldInv, Held, ThreadInv, Busy
      <3>3. \A u \in Runners :
              pc'[u] \in {"exec", "yielding"} => m_state'[task[u]] = "RUNNING"
        BY <1>1, <1>3, <1>4, <2>1 DEF HeldInv, Held, ThreadInv, Busy
      <3>4. \A k \in Jobs : m_state'[k] = "RUNNING" =>
              \E u \in Runners : task[u] = k /\ pc'[u] \in {"exec", "yielding"}
        BY <1>1, <1>4, <2>1 DEF HeldInv
      <3>5. \A u \in Runners : pc'[u] = "yielding" => task[u] \in Fibers
        BY <1>1, <1>4, <2>1 DEF HeldInv
      <3> QED
        BY <1>2, <3>1, <3>2, <3>3, <3>4, <3>5 DEF HeldInv, Held
    <2>2. CASE /\ pc[t] = "yielding" /\ pc'[t] = "swap" /\ m_state'[j] = "READY"
      <3>1. \A u, v \in Runners :
              pc'[u] \in Held /\ pc'[v] \in Held /\ task[u] = task[v] => u = v
        BY <1>1, <1>4, <2>2 DEF HeldInv, Held
      <3>2. \A u \in Runners : pc'[u] = "dispatch" => m_state'[task[u]] = "READY"
        BY <1>1, <1>3, <1>4, <2>2 DEF HeldInv, Held, ThreadInv, Busy
      <3>3. \A u \in Runners :
              pc'[u] \in {"exec", "yielding"} => m_state'[task[u]] = "RUNNING"
        BY <1>1, <1>3, <1>4, <2>2 DEF HeldInv, Held, ThreadInv, Busy
      <3>4. \A k \in Jobs : m_state'[k] = "RUNNING" =>
              \E u \in Runners : task[u] = k /\ pc'[u] \in {"exec", "yielding"}
        BY <1>1, <1>4, <2>2 DEF HeldInv
      <3>5. \A u \in Runners : pc'[u] = "yielding" => task[u] \in Fibers
        BY <1>1, <1>4, <2>2 DEF HeldInv
      <3> QED
        BY <1>2, <3>1, <3>2, <3>3, <3>4, <3>5 DEF HeldInv, Held
    <2> QED
      BY <1>1, <1>2, <1>3, <2>1, <2>2
  <1>12. EntriesInv' /\ CtxInv'
    BY <1>1, <1>2, <1>5 DEF TokensInv, EntriesInv, CtxInv
  <1>13. CbsInv'
    BY <1>1, <1>2, <1>4, CbsKept
  <1> QED
    BY <1>10, <1>11, <1>12, <1>13 DEF TokensInv

LEMMA FinishTokens ==
  ASSUME IOIInv, NEW t \in Runners, IOFinish(t)
  PROVE  TokensInv'
  <1>1. /\ TokensInv /\ HeldInv /\ FibersInv /\ ThreadInv
        /\ pc \in [Runners -> Labels] /\ task \in [Runners -> Jobs \cup {NoJob}]
        /\ m_state \in [Jobs -> {"READY", "RUNNING", "TERM"}]
    BY TypesHeld DEF IOIInv, TypesInv, TokensInv
  <1> PICK j : j = task[t]
    OBVIOUS
  <1>2. /\ UNCHANGED <<m_tasks, task, submitted, yields>>
        /\ UNCHANGED <<m_timers, ctx, cbs, io>>
        /\ pc[t] = "exec" /\ pc' = [pc EXCEPT ![t] = "swap"]
        /\ m_state' = [m_state EXCEPT ![j] = "TERM"]
        /\ j \in Wakes => yields[j] = 1
    BY DEF IOFinish, Exec, Finish, Goto, ClientVars, ioVars, timerVars, fdVars, idleVars
  <1>3. /\ j \in Jobs /\ j \in Taken
        /\ \A u \in Runners \ {t} : pc[u] \in Held => task[u] # j
    BY <1>2, Executes
  <1>4. /\ m_state'[j] = "TERM"
        /\ \A k \in Jobs \ {j} : m_state'[k] = m_state[k]
        /\ pc'[t] = "swap"
        /\ \A u \in Runners \ {t} : pc'[u] = pc[u]
    BY <1>1, <1>2, <1>3
  <1>5. /\ InQueue' = InQueue /\ Listed' = Listed /\ Registered' = Registered
        /\ Rung' = Rung
    BY <1>2 DEF InQueue, Listed, Registered, Rung
  <1>6. Ended' = Ended \cup {j}
    BY <1>3, <1>4 DEF Ended
  <1>7. Taken' = Taken \ {j}
    BY <1>2, <1>3, <1>4 DEF Taken, Held
  <1>8. Awaited' = Awaited
    BY <1>2, <1>5 DEF Awaited
  <1>9. /\ j \in Wakes => j \in Rung
        /\ j \in Fibers => j \in submitted
    BY <1>1, <1>2, <1>3 DEF Rung, FibersInv
  <1>10. FibersInv' /\ WakesInv'
    BY <1>2, <1>3, <1>5, <1>6, <1>7, <1>8, <1>9, PlaceEnded
  <1>11. HeldInv'
    <2>1. \A u, v \in Runners :
            pc'[u] \in Held /\ pc'[v] \in Held /\ task[u] = task[v] => u = v
      BY <1>1, <1>4 DEF HeldInv, Held
    <2>2. \A u \in Runners : pc'[u] = "dispatch" => m_state'[task[u]] = "READY"
      BY <1>1, <1>3, <1>4 DEF HeldInv, Held, ThreadInv, Busy
    <2>3. \A u \in Runners :
            pc'[u] \in {"exec", "yielding"} => m_state'[task[u]] = "RUNNING"
      BY <1>1, <1>3, <1>4 DEF HeldInv, Held, ThreadInv, Busy
    <2>4. \A k \in Jobs : m_state'[k] = "RUNNING" =>
            \E u \in Runners : task[u] = k /\ pc'[u] \in {"exec", "yielding"}
      BY <1>1, <1>4 DEF HeldInv
    <2>5. \A u \in Runners : pc'[u] = "yielding" => task[u] \in Fibers
      BY <1>1, <1>4 DEF HeldInv
    <2> QED
      BY <1>2, <2>1, <2>2, <2>3, <2>4, <2>5 DEF HeldInv, Held
  <1>12. EntriesInv' /\ CtxInv'
    BY <1>1, <1>2, <1>5 DEF TokensInv, EntriesInv, CtxInv
  <1>13. CbsInv'
    BY <1>1, <1>2, <1>4, CbsKept
  <1> QED
    BY <1>10, <1>11, <1>12, <1>13 DEF TokensInv

LEMMA WakeTokens ==
  ASSUME IOIInv, NEW t \in Runners, WakeFiber(t)
  PROVE  TokensInv'
  <1>1. /\ EntriesInv'
        /\ task[t] \in Wakes \ Rung
        /\ InQueue' = InQueue \cup {task[t][1]}
        /\ Rung' = Rung \cup {task[t]}
    BY WakeFiberEffect
  <1>2. /\ UNCHANGED <<m_state, pc, task, submitted, m_timers, ctx, cbs, io>>
        /\ pc[t] = "exec"
        /\ yields' = [yields EXCEPT ![task[t]] = 1]
    BY DEF WakeFiber, Exec, timerVars, fdVars, idleVars
  <1>3. task[t] \in Taken
    BY <1>2, Executes
  <1>4. /\ Taken' = Taken /\ Listed' = Listed /\ Ended' = Ended /\ Registered' = Registered
    BY <1>2 DEF Taken, Listed, Ended, Registered
  <1>5. Awaited' = Awaited
    BY <1>2, <1>4 DEF Awaited
  <1>6. \A f \in Fibers : yields'[f] = yields[f]
    <2>1. yields \in [Jobs -> Nat]
      BY TypesHeld DEF IOIInv
    <2> QED
      BY <1>1, <1>2, <2>1, FiberIsJob
  <1>7. FibersInv' /\ WakesInv'
    <2> PICK w : w = task[t]
      OBVIOUS
    <2>1. /\ w \in (Taken \cap Wakes) \ Rung
          /\ InQueue' = InQueue \cup {w[1]} /\ Rung' = Rung \cup {w}
      BY <1>1, <1>3
    <2> QED
      BY <1>2, <1>4, <1>5, <1>6, <2>1, PlaceRung
  <1>8. TokensInv
    BY DEF IOIInv
  <1>9. HeldInv' /\ CtxInv' /\ CbsInv'
    BY <1>2, <1>4, <1>8 DEF TokensInv, HeldInv, CtxInv, CbsInv, Held
  <1> QED
    BY <1>1, <1>7, <1>9 DEF TokensInv

\* A fiber that is about to yield still is held by its thread, RUNNING.
LEMMA SuspendHolds ==
  ASSUME IOIInv, NEW t \in Runners, Suspend(t), io' = io, cbs' = cbs
  PROVE  HeldInv' /\ CbsInv'
  <1>1. /\ task[t] \in Fibers /\ pc[t] = "exec"
        /\ pc' = [pc EXCEPT ![t] = "yielding"]
        /\ UNCHANGED <<m_state, task>>
    BY SuspendEffect
  <1>2. HeldInv /\ pc \in [Runners -> Labels]
    BY TypesHeld DEF IOIInv, TokensInv
  <1>3. pc'[t] = "yielding" /\ \A u \in Runners \ {t} : pc'[u] = pc[u]
    BY <1>1, <1>2
  <1>4. HeldInv'
    BY <1>1, <1>2, <1>3 DEF HeldInv, Held
  <1>5. CbsInv'
    BY <1>1, <1>3, CbsKept
  <1> QED
    BY <1>4, <1>5

LEMMA SleepTokens ==
  ASSUME IOIInv, NEW t \in Runners, Sleep(t)
  PROVE  TokensInv'
  <1>1. Suspend(t)
    BY DEF Sleep
  <1> PICK f : f = task[t]
    OBVIOUS
  <1>2. PICK w \in Wakes : /\ w[1] = f /\ w[2] = yields[f] + 1
                           /\ m_timers' = m_timers \cup {w}
    BY SleepEffect
  <1>3. UNCHANGED <<ctx, cbs, io>>
    BY SleepEffect
  <1>4. /\ f \in Fibers /\ pc[t] = "exec" /\ yields[f] \in Nat
        /\ yields' = [yields EXCEPT ![f] = yields[f] + 1]
        /\ UNCHANGED <<m_tasks, m_state, task, submitted>>
        /\ Rung' = Rung /\ Taken' = Taken \ {f}
    BY <1>1, SuspendEffect
  <1>5. f \in Taken /\ TokensInv /\ yields \in [Jobs -> Nat]
    BY <1>4, Executes, TypesHeld DEF IOIInv
  <1>6. /\ InQueue' = InQueue /\ Listed' = Listed /\ Ended' = Ended
        /\ Registered' = Registered
    BY <1>3, <1>4 DEF InQueue, Listed, Ended, Registered
  <1>7. Awaited' = Awaited
    BY <1>3, <1>6 DEF Awaited
  <1>8. FibersInv' /\ WakesInv'
    BY <1>2, <1>4, <1>5, <1>6, <1>7, PlaceSleep
  <1>9. HeldInv' /\ CbsInv'
    BY <1>1, <1>3, SuspendHolds
  <1>10. EntriesInv' /\ CtxInv'
    BY <1>3, <1>4, <1>5, <1>6 DEF TokensInv, EntriesInv, CtxInv
  <1> QED
    BY <1>8, <1>9, <1>10 DEF TokensInv

LEMMA WaitForTokens ==
  ASSUME IOIInv, NEW t \in Runners, NEW e \in Events, WaitFor(t, e)
  PROVE  TokensInv'
  <1>1. Suspend(t)
    BY DEF WaitFor
  <1> PICK f : f = task[t]
    OBVIOUS
  <1>2. /\ CtxInv' /\ Awaited' = Awaited \cup {f}
        /\ UNCHANGED <<m_timers, cbs, io>>
    BY WaitForEffect
  <1>3. /\ f \in Fibers /\ pc[t] = "exec" /\ yields[f] \in Nat
        /\ yields' = [yields EXCEPT ![f] = yields[f] + 1]
        /\ UNCHANGED <<m_tasks, m_state, task, submitted>>
        /\ Rung' = Rung /\ Taken' = Taken \ {f}
    BY <1>1, SuspendEffect
  <1>4. f \in Taken /\ TokensInv /\ yields \in [Jobs -> Nat]
    BY <1>3, Executes, TypesHeld DEF IOIInv
  <1>5. InQueue' = InQueue /\ Listed' = Listed /\ Ended' = Ended
    BY <1>2, <1>3 DEF InQueue, Listed, Ended
  <1>6. FibersInv' /\ WakesInv'
    BY <1>2, <1>3, <1>4, <1>5, PlaceAwait
  <1>7. HeldInv' /\ CbsInv'
    BY <1>1, <1>2, SuspendHolds
  <1>8. EntriesInv'
    BY <1>3, <1>4 DEF TokensInv, EntriesInv
  <1> QED
    BY <1>2, <1>6, <1>7, <1>8 DEF TokensInv

LEMMA TriggerTokens ==
  ASSUME IOIInv, NEW t \in Runners, Cancel(t) \/ ProcessEvents(t)
  PROVE  TokensInv'
  <1>1. /\ EntriesInv' /\ CtxInv'
        /\ \E fired \in SUBSET Registered :
             /\ InQueue' = InQueue \cup {ctx[e] : e \in fired}
             /\ Awaited' = Awaited \ {ctx[e] : e \in fired}
        /\ UNCHANGED <<m_state, task, submitted, yields, m_timers, cbs>>
        /\ \/ UNCHANGED <<pc, io>>
           \/ /\ pc[t] = "idle" /\ pc' = [pc EXCEPT ![t] = "unidle"]
              /\ io[t] = "events" /\ io' = [io EXCEPT ![t] = "check"]
    BY CancelEffect, ProcessEventsEffect
  <1>2. PICK fired \in SUBSET Registered :
             /\ InQueue' = InQueue \cup {ctx[e] : e \in fired}
             /\ Awaited' = Awaited \ {ctx[e] : e \in fired}
    BY <1>1
  <1>3. /\ TokensInv /\ HeldInv /\ CbsInv
        /\ pc \in [Runners -> Labels] /\ io \in [Runners -> IdleLabels]
    BY TypesHeld DEF IOIInv, TokensInv
  <1>4. /\ \A u \in Runners \ {t} : pc'[u] = pc[u] /\ io'[u] = io[u]
        /\ \/ pc'[t] = pc[t] /\ io'[t] = io[t]
           \/ pc[t] = "idle" /\ pc'[t] = "unidle" /\ io[t] = "events" /\ io'[t] = "check"
    BY <1>1, <1>3
  <1>5. Taken' = Taken
    BY <1>1, <1>4 DEF Taken
  <1>6. Listed' = Listed /\ Ended' = Ended /\ Rung' = Rung
    BY <1>1 DEF Listed, Ended, Rung
  <1>7. FibersInv' /\ WakesInv'
    <2> PICK F : F = {ctx[e] : e \in fired}
      OBVIOUS
    <2>1. F \in SUBSET Awaited
      BY DEF Awaited
    <2>2. InQueue' = InQueue \cup F /\ Awaited' = Awaited \ F
      BY <1>2
    <2> QED
      BY <1>1, <1>5, <1>6, <2>1, <2>2, PlaceTriggered
  <1>8. HeldInv'
    BY <1>1, <1>3, <1>4 DEF HeldInv, Held
  <1>9. CbsInv'
    BY <1>1, <1>3, <1>4 DEF CbsInv
  <1> QED
    BY <1>1, <1>7, <1>8, <1>9 DEF TokensInv

LEMMA ExpireTokens ==
  ASSUME IOIInv, NEW t \in Runners, ListExpired(t)
  PROVE  TokensInv'
  <1>1. /\ pc[t] = "idle" /\ io[t] = "expire"
        /\ cbs' = [cbs EXCEPT ![t] = due]
        /\ m_timers' = m_timers \ due
        /\ io' = [io EXCEPT ![t] = "post"]
        /\ UNCHANGED <<m_tasks, m_state, pc, task, submitted, yields, ctx>>
    BY DEF ListExpired, InIdle, vars, fdVars
  <1>2. /\ TokensInv /\ HeldInv /\ CbsInv /\ WakesInv
        /\ pc \in [Runners -> Labels] /\ io \in [Runners -> IdleLabels]
        /\ cbs \in [Runners -> SUBSET Wakes] /\ due \in SUBSET m_timers
        /\ m_timers \subseteq Wakes
    BY TypesHeld DEF IOIInv, TokensInv
  <1>3. /\ cbs[t] = {} /\ cbs'[t] = due /\ io'[t] = "post"
        /\ \A u \in Runners \ {t} : cbs'[u] = cbs[u] /\ io'[u] = io[u]
    BY <1>1, <1>2 DEF CbsInv
  <1>4. Listed' = Listed \cup due
    BY <1>3 DEF Listed
  <1>5. /\ InQueue' = InQueue /\ Taken' = Taken /\ Ended' = Ended
        /\ Registered' = Registered /\ Rung' = Rung
    BY <1>1 DEF InQueue, Taken, Ended, Registered, Rung
  <1>6. Awaited' = Awaited
    BY <1>1, <1>5 DEF Awaited
  <1>7. FibersInv' /\ WakesInv'
    BY <1>1, <1>2, <1>4, <1>5, <1>6, PlaceExpired
  <1>8. CbsInv'
    <2>1. \A u \in Runners \ {t}, w \in Wakes : w \in cbs'[u] => w \notin cbs'[t]
      <3>1. \A u \in Runners \ {t}, w \in Wakes : w \in cbs'[u] => w \in Listed
        BY <1>3 DEF Listed
      <3>2. \A w \in Wakes : w \in cbs'[t] => w \in m_timers
        BY <1>2, <1>3
      <3> QED
        BY <1>2, <3>1, <3>2 DEF WakesInv
    <2>2. \A u, v \in Runners, w \in Wakes : w \in cbs'[u] /\ w \in cbs'[v] => u = v
      BY <1>2, <1>3, <2>1 DEF CbsInv
    <2>3. \A u \in Runners : io'[u] # "check" => pc'[u] = "idle"
      BY <1>1, <1>2, <1>3 DEF CbsInv
    <2>4. \A u \in Runners : cbs'[u] # {} => io'[u] = "post"
      BY <1>2, <1>3 DEF CbsInv
    <2> QED
      BY <2>2, <2>3, <2>4 DEF CbsInv
  <1>9. EntriesInv' /\ HeldInv' /\ CtxInv'
    BY <1>1, <1>2, <1>5 DEF TokensInv, EntriesInv, HeldInv, CtxInv, Held
  <1> QED
    BY <1>7, <1>8, <1>9 DEF TokensInv

LEMMA PostTokens ==
  ASSUME IOIInv, NEW t \in Runners, Post(t)
  PROVE  TokensInv'
  <1>1. CASE cbs[t] = {}
    <2>1. /\ InIdle(t, "post") /\ cbs[t] = {} /\ io' = [io EXCEPT ![t] = "events"]
          /\ UNCHANGED <<vars, timerVars, ctx, cbs>>
      BY <1>1 DEF Post, fdVars
    <2> QED
      BY <2>1, QuietSteps
  <1>2. CASE cbs[t] # {}
    <2>1. PICK w \in cbs[t] :
            /\ ScheduleAll(t, <<w>>) /\ submitted' = submitted \cup {w}
            /\ cbs' = [cbs EXCEPT ![t] = @ \ {w}]
            /\ UNCHANGED <<Counters, m_stopping, m_state, pc, task, idleTerm, mainPc,
                           yields, io>>
      BY <1>2 DEF Post
    <2>2. InIdle(t, "post") /\ UNCHANGED <<timerVars, fdVars, evs, pipe, lateRun, aborted>>
      BY DEF Post
    <2>3. EntriesInv' /\ InQueue' = InQueue \cup {w} /\ Listed' = Listed \ {w}
      BY <2>1, <2>2, PostEffect
    <2>4. UNCHANGED <<m_timers, ctx>>
      BY <2>2 DEF timerVars, fdVars
    <2>5. TokensInv /\ CbsInv /\ cbs \in [Runners -> SUBSET Wakes]
      BY TypesHeld DEF IOIInv, TokensInv
    <2>6. Taken' = Taken /\ Ended' = Ended /\ Registered' = Registered /\ Rung' = Rung
      BY <2>1, <2>4 DEF Taken, Ended, Registered, Rung
    <2>7. Awaited' = Awaited
      BY <2>4, <2>6 DEF Awaited
    <2>8. w \in Listed
      BY DEF Listed
    <2>9. FibersInv' /\ WakesInv'
      BY <2>1, <2>3, <2>4, <2>6, <2>7, <2>8, PlacePosted
    <2>10. HeldInv' /\ CtxInv'
      BY <2>1, <2>4, <2>5, <2>6 DEF TokensInv, HeldInv, CtxInv, Held
    <2>11. CbsInv'
      <3>1. \A u \in Runners : cbs'[u] \subseteq cbs[u]
        BY <2>1, <2>5
      <3> QED
        BY <2>1, <2>5, <3>1 DEF CbsInv
    <2> QED
      BY <2>3, <2>9, <2>10, <2>11 DEF TokensInv
  <1> QED
    BY <1>1, <1>2

-----------------------------------------------------------------------------
(* What leaving threads leave.                                             *)

\* A thread step; (the last premise) someone is left for what is queued.
LEMMA LeaveKept ==
  ASSUME IOIInv, NEW t \in Runners, UNCHANGED <<m_stopping, mainPc>>,
         \A u \in Runners \ {t} : pc'[u] = pc[u],
         idleTerm' = idleTerm \/ (idleTerm' = idleTerm \cup {t} /\ m_stopping),
         pc[t] = "exited" => pc'[t] = "exited",
         pc'[t] = "exited" => t \in idleTerm',
         t \in idleTerm' => pc'[t] # "idle",
         m_tasks' # <<>> => \E u \in Runners :
           ~(pc'[u] = "exited" \/ (u \in idleTerm' /\ pc'[u] = "empty"))
  PROVE  LeaveInv'
  <1>1. LeaveInv
    BY DEF IOIInv
  <1>2. mainPc' \in {"join", "done"} /\ UseCaller => pc'[Main] = "exited"
    BY <1>1 DEF LeaveInv, Runners
  <1>3. mainPc' = "done" => \A u \in Workers : pc'[u] = "exited"
    BY <1>1 DEF LeaveInv, Runners
  <1>4. /\ \A u \in Runners : pc'[u] = "exited" => u \in idleTerm'
        /\ \A u \in Runners : u \in idleTerm' => pc'[u] # "idle"
        /\ idleTerm' # {} => m_stopping'
    BY <1>1 DEF LeaveInv
  <1>5. m_stopping' <=> mainPc' \in {"stop", "root", "join", "done"}
    BY <1>1 DEF LeaveInv
  <1> QED
    BY <1>2, <1>3, <1>4, <1>5 DEF LeaveInv, Leaving

\* A thread that goes on is one that has not left.
LEMMA LeaveMoves ==
  ASSUME IOIInv, NEW t \in Runners, UNCHANGED <<m_stopping, mainPc>>,
         \A u \in Runners \ {t} : pc'[u] = pc[u],
         idleTerm' = idleTerm \/ (idleTerm' = idleTerm \cup {t} /\ m_stopping),
         pc[t] # "exited", pc'[t] \notin {"exited", "empty"},
         t \in idleTerm' => pc'[t] # "idle"
  PROVE  LeaveInv'
  BY LeaveKept

LEMMA LeaveIdles ==
  ASSUME IOIInv, NEW t \in Runners, pc[t] = "idle"
  PROVE  t \notin idleTerm
  BY DEF IOIInv, LeaveInv

LEMMA LeaveOwner ==
  ASSUME IOIInv, NEW t \in Runners,
         IOStart \/ IOStop \/ IOStopSteps \/ \E f \in Fibers : IOSubmit(f)
  PROVE  LeaveInv'
  <1>1. /\ LeaveInv /\ ThreadInv /\ mainPc \in MainLabels
        /\ pc \in [Runners -> Labels]
    BY TypesHeld DEF IOIInv, TypesInv, TypeOK
  <1>2. ~m_stopping => idleTerm = {} /\ \A u \in Runners : pc[u] # "exited"
    BY <1>1 DEF LeaveInv
  <1>3. CASE IOStart
    <2>1. /\ mainPc = "init" /\ mainPc' = "running" /\ ~m_stopping
          /\ UNCHANGED <<m_stopping, idleTerm, m_tasks>>
          /\ \A u \in Runners : pc'[u] \in {pc[u], "scan"}
      BY <1>1, <1>3 DEF IOStart, Start, Runners
    <2> QED
      BY <1>2, <2>1 DEF LeaveInv, Leaving
  <1>4. CASE \E f \in Fibers : IOSubmit(f)
    <2>1. /\ mainPc \in {"init", "running"}
          /\ UNCHANGED <<m_stopping, idleTerm, mainPc, pc>>
      BY <1>4 DEF IOSubmit, Submit
    <2>2. ~m_stopping
      BY <1>1, <2>1 DEF LeaveInv
    <2> QED
      BY <1>2, <2>1, <2>2 DEF LeaveInv, Leaving
  <1>5. CASE IOStop
    <2>1. /\ mainPc = "running" /\ mainPc' = "stop" /\ m_stopping'
          /\ UNCHANGED <<idleTerm, pc, m_tasks>>
      BY <1>5 DEF IOStop, Stop
    <2> QED
      BY <1>1, <2>1 DEF LeaveInv, Leaving
  <1>6. CASE IOStopSteps
    <2>1. UNCHANGED <<m_stopping, idleTerm, m_tasks>>
      BY <1>6 DEF IOStopSteps, StopSteps, ResumeRoot, RootEnd, Join
    <2>2. \/ /\ mainPc = "stop" /\ UseCaller /\ mainPc' = "root"
             /\ pc' = [pc EXCEPT ![Main] = "scan"]
          \/ mainPc = "stop" /\ ~UseCaller /\ mainPc' = "join" /\ pc' = pc
          \/ mainPc = "root" /\ pc[Main] = "exited" /\ mainPc' = "join" /\ pc' = pc
          \/ /\ mainPc = "join" /\ mainPc' = "done" /\ pc' = pc
             /\ \A u \in Workers : pc[u] = "exited"
      BY <1>6 DEF IOStopSteps, StopSteps, ResumeRoot, RootEnd, Join
    <2>3. CASE /\ mainPc = "stop" /\ UseCaller /\ mainPc' = "root"
               /\ pc' = [pc EXCEPT ![Main] = "scan"]
      <3>1. /\ Main \in Runners /\ pc'[Main] = "scan"
            /\ \A u \in Runners \ {Main} : pc'[u] = pc[u]
        BY <1>1, <2>3 DEF Runners
      <3> QED
        BY <1>1, <2>1, <2>3, <3>1 DEF LeaveInv, Leaving
    <2>4. CASE pc' = pc /\ mainPc \in {"stop", "root", "join"} /\ mainPc' \in {"join", "done"}
      BY <1>1, <2>1, <2>2, <2>4 DEF LeaveInv, Leaving
    <2> QED
      BY <2>2, <2>3, <2>4
  <1> QED
    BY <1>3, <1>4, <1>5, <1>6

LEMMA LeaveScan ==
  ASSUME IOIInv, NEW t \in Runners, IOScan(t)
  PROVE  LeaveInv'
  <1>1. /\ TypeOK /\ LeaveInv /\ HeldInv /\ EntriesInv /\ pc \in [Runners -> Labels]
        /\ m_tasks \in Seq(Entries)
    BY TypesHeld DEF IOIInv, TokensInv
  <1>2. /\ pc[t] = "scan" /\ UNCHANGED <<m_stopping, mainPc, idleTerm>>
    BY DEF IOScan, Scan, Goto
  <1>3. CASE Eligible(t) # {}
    <2>1. pc' = [pc EXCEPT ![t] = "dispatch"]
      BY <1>3 DEF IOScan, Scan, Goto
    <2> QED
      BY <1>1, <1>2, <2>1, LeaveMoves
  <1>4. CASE Eligible(t) = {}
    <2>1. pc' = [pc EXCEPT ![t] = "empty"] /\ m_tasks' = m_tasks
      BY <1>4 DEF IOScan, Scan, Goto
    <2>2. /\ pc'[t] = "empty" /\ \A u \in Runners \ {t} : pc'[u] = pc[u]
      BY <1>1, <2>1
    <2>3. ASSUME m_tasks # <<>>
          PROVE  \E u \in Runners :
                   ~(pc'[u] = "exited" \/ (u \in idleTerm' /\ pc'[u] = "empty"))
      <3>1. 1 \in DOMAIN m_tasks
        BY <1>1, <2>3
      <3>2. m_state[m_tasks[1].job] = "RUNNING" /\ m_tasks[1].job \in Jobs
        BY <1>1, <1>4, <3>1, EntryType DEF Eligible, EntriesInv
      <3>3. PICK u \in Runners : pc[u] \in {"exec", "yielding"}
        BY <1>1, <3>2 DEF HeldInv
      <3>4. u # t
        BY <1>2, <3>3
      <3> QED
        BY <2>2, <3>3, <3>4
    <2> QED
      BY <1>2, <2>1, <2>2, <2>3, LeaveKept
  <1> QED
    BY <1>3, <1>4

LEMMA LeaveThread ==
  ASSUME IOIInv, NEW t \in Runners,
         \/ IORun(t) \/ IOFinish(t) \/ WakeFiber(t) \/ Sleep(t) \/ Cancel(t)
         \/ (\E f \in Fibers : IOSpawn(t, f)) \/ (\E e \in Events : WaitFor(t, e))
         \/ IOIdle(t)
  PROVE  LeaveInv'
  <1>1. LeaveInv /\ pc \in [Runners -> Labels]
    BY TypesHeld DEF IOIInv
  <1>2. CASE IORun(t) /\ ~EnterIdle(t)
    <2>1. /\ UNCHANGED <<m_stopping, mainPc, idleTerm>>
          /\ pc[t] \in {"unidle", "dispatch", "yielding", "swap", "ret"}
          /\ \E label \in {"scan", "exec", "swap", "ret"} : pc' = [pc EXCEPT ![t] = label]
      BY <1>2 DEF IORun, LeaveIdle, Resume, MarkReady, SwapOut, Return, Goto
    <2>2. /\ pc'[t] \in {"scan", "exec", "swap", "ret"}
          /\ \A u \in Runners \ {t} : pc'[u] = pc[u]
      BY <1>1, <2>1
    <2> QED
      BY <2>1, <2>2, LeaveMoves
  <1>3. CASE EnterIdle(t)
    <2>1. /\ UNCHANGED <<m_stopping, mainPc, idleTerm, m_tasks>>
          /\ pc[t] = "empty"
          /\ pc' = [pc EXCEPT ![t] = IF t \in idleTerm THEN "exited" ELSE "idle"]
      BY <1>3 DEF EnterIdle, Goto
    <2>2. /\ pc'[t] = (IF t \in idleTerm THEN "exited" ELSE "idle")
          /\ \A u \in Runners \ {t} : pc'[u] = pc[u]
      BY <1>1, <2>1
    <2>3. ASSUME m_tasks # <<>>
          PROVE  \E u \in Runners :
                   ~(pc'[u] = "exited" \/ (u \in idleTerm' /\ pc'[u] = "empty"))
      <3>1. PICK u \in Runners : ~Leaving(u)
        BY <1>1, <2>3 DEF LeaveInv
      <3>2. CASE t \in idleTerm
        <4>1. u # t
          BY <2>1, <3>1, <3>2 DEF Leaving
        <4> QED
          BY <2>1, <2>2, <3>1, <4>1 DEF Leaving
      <3>3. CASE t \notin idleTerm
        BY <2>1, <2>2, <3>3
      <3> QED
        BY <3>2, <3>3
    <2> QED
      BY <2>1, <2>2, <2>3, LeaveKept
  <1>4. CASE \/ IOFinish(t) \/ WakeFiber(t) \/ Sleep(t) \/ Cancel(t)
             \/ (\E f \in Fibers : IOSpawn(t, f)) \/ (\E e \in Events : WaitFor(t, e))
    <2>1. /\ UNCHANGED <<m_stopping, mainPc, idleTerm>>
          /\ pc[t] = "exec"
          /\ pc' = pc \/ \E label \in {"swap", "yielding"} : pc' = [pc EXCEPT ![t] = label]
      BY <1>4 DEF IOFinish, Finish, Goto, WakeFiber, Sleep, Cancel, IOSpawn, Spawn,
                  WaitFor, Suspend, Exec
    <2>2. /\ pc'[t] \in {"exec", "swap", "yielding"}
          /\ \A u \in Runners \ {t} : pc'[u] = pc[u]
      BY <1>1, <2>1
    <2> QED
      BY <2>1, <2>2, LeaveMoves
  <1>5. CASE IOIdle(t) /\ ~ReadStopping(t)
    <2>1. /\ UNCHANGED <<m_stopping, mainPc, idleTerm>>
          /\ pc[t] = "idle"
          /\ pc' = pc \/ pc' = [pc EXCEPT ![t] = "unidle"]
      BY <1>5 DEF IOIdle, ReadTimers, ReadPending, EpollWait, ListExpired, Post,
                  ProcessEvents, InIdle, vars
    <2>2. /\ pc'[t] \in {"idle", "unidle"}
          /\ \A u \in Runners \ {t} : pc'[u] = pc[u]
      BY <1>1, <2>1
    <2>3. t \notin idleTerm
      BY <2>1, LeaveIdles
    <2> QED
      BY <2>1, <2>2, <2>3, LeaveMoves
  <1>6. CASE ReadStopping(t)
    <2>1. /\ UNCHANGED <<m_stopping, mainPc>>
          /\ pc[t] = "idle"
          /\ \/ /\ pc' = [pc EXCEPT ![t] = "unidle"]
                /\ m_stopping /\ idleTerm' = idleTerm \cup {t}
             \/ pc' = pc /\ idleTerm' = idleTerm
      BY <1>6 DEF ReadStopping, InIdle, Idle, Goto, Stopping, vars
    <2>2. /\ pc'[t] = "unidle" \/ (pc'[t] = "idle" /\ idleTerm' = idleTerm)
          /\ \A u \in Runners \ {t} : pc'[u] = pc[u]
      BY <1>1, <2>1
    <2>3. t \notin idleTerm
      BY <2>1, LeaveIdles
    <2> QED
      BY <2>1, <2>2, <2>3, LeaveMoves
  <1> QED
    BY <1>2, <1>3, <1>4, <1>5, <1>6 DEF IORun

\* Steps that neither make a thread busy nor begin a wait, nor tell a thread
\* that nothing is left to wait for.
LEMMA QuietKept ==
  ASSUME IOIInv, UNCHANGED idleTerm, lateRun => lateRun',
         \A u \in Runners : pc'[u] \in Busy => pc[u] \in Busy,
         m_timers' \subseteq m_timers, Registered' \subseteq Registered,
         \A u \in Runners : /\ io'[u] = "pending" => io[u] = "pending"
                            /\ io'[u] = "stopping" => io[u] = "stopping"
  PROVE  QuietInv'
  <1>1. QuietInv /\ idleTerm \subseteq Runners
    BY TypesHeld DEF IOIInv, TypeOK
  <1>2. CASE lateRun
    BY <1>2 DEF QuietInv
  <1>3. CASE ~lateRun
    <2>1. /\ \A t \in idleTerm : pc[t] \notin Busy
          /\ m_timers # {} =>
               \E t \in Runners \ idleTerm : io[t] \notin {"pending", "stopping"}
          /\ Registered # {} => \E t \in Runners \ idleTerm : io[t] # "stopping"
      BY <1>1, <1>3 DEF QuietInv
    <2>2. \A t \in idleTerm : pc'[t] \notin Busy
      BY <1>1, <2>1
    <2>3. m_timers' # {} =>
            \E t \in Runners \ idleTerm : io'[t] \notin {"pending", "stopping"}
      BY <2>1
    <2>4. Registered' # {} => \E t \in Runners \ idleTerm : io'[t] # "stopping"
      BY <2>1
    <2> QED
      BY <2>2, <2>3, <2>4 DEF QuietInv
  <1> QED
    BY <1>2, <1>3

LEMMA QuietScan ==
  ASSUME IOIInv, NEW t \in Runners, IOScan(t)
  PROVE  QuietInv'
  <1>1. /\ pc \in [Runners -> Labels] /\ QuietInv /\ idleTerm \subseteq Runners
    BY TypesHeld DEF IOIInv, TypeOK
  <1>2. /\ UNCHANGED <<idleTerm, m_timers, ctx, io>>
        /\ lateRun' = (lateRun \/ (t \in idleTerm /\ Eligible(t) # {}))
        /\ \/ Eligible(t) # {} /\ pc' = [pc EXCEPT ![t] = "dispatch"]
           \/ Eligible(t) = {} /\ pc' = [pc EXCEPT ![t] = "empty"]
    BY DEF IOScan, Scan, Goto, timerVars, fdVars, idleVars
  <1>3. Registered' = Registered
    BY <1>2 DEF Registered
  <1>4. CASE lateRun'
    BY <1>4 DEF QuietInv
  <1>5. CASE ~lateRun'
    <2>1. /\ ~lateRun
          /\ t \in idleTerm => pc' = [pc EXCEPT ![t] = "empty"]
          /\ \A u \in Runners \ {t} : pc'[u] = pc[u]
      BY <1>1, <1>2, <1>5
    <2>2. \A u \in idleTerm : pc'[u] \notin Busy
      BY <1>1, <2>1 DEF QuietInv, Busy
    <2> QED
      BY <1>1, <1>2, <1>3, <2>1, <2>2 DEF QuietInv
  <1> QED
    BY <1>4, <1>5

\* A fiber that begins to wait is executed by a thread that has not ended.
LEMMA QuietSuspend ==
  ASSUME IOIInv, NEW t \in Runners, Sleep(t) \/ \E e \in Events : WaitFor(t, e)
  PROVE  QuietInv'
  <1>1. /\ pc \in [Runners -> Labels] /\ QuietInv /\ idleTerm \subseteq Runners
    BY TypesHeld DEF IOIInv, TypeOK
  <1>2. Suspend(t) /\ UNCHANGED <<idleTerm, io, lateRun>>
    BY DEF Sleep, WaitFor, Suspend, idleVars
  <1>3. pc[t] = "exec" /\ pc' = [pc EXCEPT ![t] = "yielding"] /\ io[t] = "check"
    BY <1>2, SuspendEffect, Executes
  <1>4. \A u \in Runners : pc'[u] \in Busy <=> pc[u] \in Busy
    BY <1>1, <1>3 DEF Busy
  <1>5. CASE lateRun
    BY <1>2, <1>5 DEF QuietInv
  <1>6. CASE ~lateRun
    <2>1. t \in Runners \ idleTerm /\ io'[t] = "check"
      BY <1>1, <1>2, <1>3, <1>6 DEF QuietInv, Busy
    <2>2. \A u \in idleTerm' : pc'[u] \notin Busy
      BY <1>1, <1>2, <1>4, <1>6 DEF QuietInv
    <2> QED
      BY <1>2, <2>1, <2>2 DEF QuietInv
  <1> QED
    BY <1>5, <1>6

\* The three looks of stopping().
LEMMA QuietReads ==
  ASSUME IOIInv, NEW t \in Runners,
         ReadTimers(t) \/ ReadPending(t) \/ ReadStopping(t)
  PROVE  QuietInv'
  <1>1. /\ pc \in [Runners -> Labels] /\ io \in [Runners -> IdleLabels]
        /\ QuietInv /\ idleTerm \subseteq Runners
        /\ m_pendingEventCount = Cardinality(Registered)
    BY TypesHeld DEF IOIInv, TypeOK
  <1>2. /\ pc[t] = "idle" /\ UNCHANGED <<m_timers, ctx, lateRun>>
    BY DEF ReadTimers, ReadPending, ReadStopping, InIdle, timerVars, fdVars
  <1>3. Registered' = Registered /\ t \notin idleTerm
    BY <1>2, LeaveIdles DEF Registered
  <1>4. CASE lateRun
    BY <1>2, <1>4 DEF QuietInv
  <1>5. CASE ~lateRun
    <2>0. /\ \A u \in idleTerm : pc[u] \notin Busy
          /\ m_timers # {} =>
               \E u \in Runners \ idleTerm : io[u] \notin {"pending", "stopping"}
          /\ Registered # {} => \E u \in Runners \ idleTerm : io[u] # "stopping"
      BY <1>1, <1>5 DEF QuietInv
    <2>1. CASE ReadTimers(t)
      <3>1. /\ idleTerm' = idleTerm /\ pc' = pc
            /\ io' = [io EXCEPT ![t] = IF m_timers = {} THEN "pending" ELSE "wait"]
        BY <2>1 DEF ReadTimers, vars
      <3>2. /\ io'[t] \in {"pending", "wait"}
            /\ m_timers # {} => io'[t] = "wait"
        BY <1>1, <3>1
      <3> QED
        BY <1>2, <1>3, <2>0, <3>1, <3>2 DEF QuietInv
    <2>2. CASE ReadPending(t)
      <3>1. /\ idleTerm' = idleTerm /\ pc' = pc /\ io[t] = "pending"
            /\ io' = [io EXCEPT ![t] =
                 IF m_pendingEventCount = 0 THEN "stopping" ELSE "wait"]
        BY <2>2 DEF ReadPending, InIdle, vars
      <3>2. Registered # {} => io'[t] = "wait"
        <4>1. IsFiniteSet(Registered)
          BY RegisteredFinite DEF Registered
        <4>2. Registered # {} => Cardinality(Registered) # 0
          BY <4>1, FS_EmptySet
        <4> QED
          BY <1>1, <3>1, <4>2
      <3>3. \A u \in Runners \ {t} : io'[u] = io[u]
        BY <1>1, <3>1
      <3>4. m_timers' # {} =>
              \E u \in Runners \ idleTerm' : io'[u] \notin {"pending", "stopping"}
        BY <1>2, <2>0, <3>1, <3>3
      <3>5. Registered' # {} => \E u \in Runners \ idleTerm' : io'[u] # "stopping"
        BY <1>3, <2>0, <3>1, <3>2, <3>3
      <3> QED
        BY <2>0, <3>1, <3>4, <3>5 DEF QuietInv
    <2>3. CASE ReadStopping(t)
      <3>1. /\ io[t] = "stopping" /\ idleTerm' \in {idleTerm, idleTerm \cup {t}}
            /\ pc' = pc \/ pc' = [pc EXCEPT ![t] = "unidle"]
            /\ \E label \in IdleLabels : io' = [io EXCEPT ![t] = label]
        BY <2>3 DEF ReadStopping, InIdle, Idle, Goto, vars, IdleLabels
      <3>2. /\ \A u \in Runners \ {t} : io'[u] = io[u] /\ pc'[u] = pc[u]
            /\ pc'[t] \in {"idle", "unidle"}
        BY <1>1, <1>2, <3>1
      <3>3. \A u \in idleTerm' : pc'[u] \notin Busy
        BY <1>1, <2>0, <3>1, <3>2 DEF Busy
      <3>4. m_timers' # {} =>
              \E u \in Runners \ idleTerm' : io'[u] \notin {"pending", "stopping"}
        BY <1>2, <2>0, <3>1, <3>2
      <3>5. Registered' # {} => \E u \in Runners \ idleTerm' : io'[u] # "stopping"
        BY <1>3, <2>0, <3>1, <3>2
      <3> QED
        BY <3>3, <3>4, <3>5 DEF QuietInv
    <2> QED
      BY <2>1, <2>2, <2>3
  <1> QED
    BY <1>4, <1>5

LEMMA QuietOthers ==
  ASSUME IOIInv, NEW t \in Runners,
         \/ Tickle(t) \/ Tickle(Main) \/ IORun(t) \/ IOFinish(t) \/ WakeFiber(t)
         \/ Cancel(t) \/ (\E f \in Fibers : IOSpawn(t, f) \/ IOSubmit(f))
         \/ IOStopSteps \/ IOStart \/ IOStop
         \/ EpollWait(t) \/ ListExpired(t) \/ Post(t) \/ ProcessEvents(t)
         \/ (\E w \in Wakes : Elapse(w)) \/ (\E c \in Conditions : Arrive(c))
  PROVE  QuietInv'
  <1>1. /\ pc \in [Runners -> Labels] /\ io \in [Runners -> IdleLabels]
        /\ ThreadInv
    BY TypesHeld DEF IOIInv, TypesInv
  <1>2. CASE \/ Tickle(t) \/ Tickle(Main) \/ IOFinish(t) \/ WakeFiber(t)
             \/ (\E f \in Fibers : IOSpawn(t, f) \/ IOSubmit(f)) \/ IOStop
             \/ (\E w \in Wakes : Elapse(w)) \/ (\E c \in Conditions : Arrive(c))
    <2>1. /\ UNCHANGED <<idleTerm, lateRun, m_timers, ctx, io>>
          /\ pc' = pc \/ (pc[t] = "exec" /\ pc' = [pc EXCEPT ![t] = "swap"])
      BY <1>2 DEF Tickle, IOFinish, Finish, Goto, WakeFiber, IOSpawn, Spawn, IOSubmit,
                  Submit, IOStop, Stop, Elapse, Arrive, vars, timerVars, fdVars,
                  idleVars, ioVars
    <2>2. /\ \A u \in Runners : pc'[u] \in Busy => pc[u] \in Busy
          /\ Registered' = Registered
      BY <1>1, <2>1 DEF Busy, Registered
    <2> QED
      BY <2>1, <2>2, QuietKept
  <1>3. CASE IORun(t) \/ IOStopSteps \/ IOStart
    <2>1. UNCHANGED <<lateRun, m_timers, ctx, io>>
      BY <1>3 DEF IORun, IOStopSteps, IOStart, timerVars, fdVars, idleVars, ioVars
    <2>2. CASE IORun(t)
      <3>1. /\ idleTerm' = idleTerm
            /\ \/ \E label \in {"idle", "exited", "scan"} :
                    pc' = [pc EXCEPT ![t] = label]
               \/ /\ pc[t] \in {"dispatch", "yielding", "swap"}
                  /\ \E label \in Labels : pc' = [pc EXCEPT ![t] = label]
        BY <2>2 DEF IORun, EnterIdle, LeaveIdle, Resume, MarkReady, SwapOut, Return,
                    Goto, Labels
      <3>2. \A u \in Runners : pc'[u] \in Busy => pc[u] \in Busy
        BY <1>1, <3>1 DEF Busy
      <3>3. Registered' = Registered
        BY <2>1 DEF Registered
      <3> QED
        BY <2>1, <3>1, <3>2, <3>3, QuietKept
    <2>3. CASE IOStopSteps \/ IOStart
      <3>1. /\ idleTerm' = idleTerm
            /\ \A u \in Runners : pc'[u] = pc[u] \/ pc'[u] = "scan"
        BY <1>1, <2>3 DEF IOStopSteps, IOStart, Start, StopSteps, ResumeRoot, RootEnd,
                          Join, Runners
      <3>2. \A u \in Runners : pc'[u] \in Busy => pc[u] \in Busy
        BY <3>1 DEF Busy
      <3>3. Registered' = Registered
        BY <2>1 DEF Registered
      <3> QED
        BY <2>1, <3>1, <3>2, <3>3, QuietKept
    <2> QED
      BY <1>3, <2>2, <2>3
  <1>4. CASE Cancel(t) \/ ProcessEvents(t)
    <2>1. /\ \E fired \in SUBSET Registered : Registered' = Registered \ fired
          /\ m_timers' = m_timers
          /\ \/ UNCHANGED <<pc, io>>
             \/ /\ pc' = [pc EXCEPT ![t] = "unidle"]
                /\ io' = [io EXCEPT ![t] = "check"]
      BY <1>4, CancelEffect, ProcessEventsEffect
    <2>2. UNCHANGED <<idleTerm, lateRun>>
      BY <1>4 DEF Cancel, ProcessEvents
    <2>3. /\ \A u \in Runners : pc'[u] \in Busy => pc[u] \in Busy
          /\ \A u \in Runners : io'[u] \in {io[u], "check"}
      BY <1>1, <2>1 DEF Busy
    <2> QED
      BY <2>1, <2>2, <2>3, QuietKept
  <1>5. CASE EpollWait(t) \/ ListExpired(t) \/ Post(t)
    <2>1. /\ UNCHANGED <<pc, idleTerm, lateRun, ctx>>
          /\ m_timers' \subseteq m_timers
          /\ io' = io \/ \E label \in {"expire", "post", "events"} :
                           io' = [io EXCEPT ![t] = label]
      BY <1>5 DEF EpollWait, ListExpired, Post, vars, timerVars, fdVars
    <2>2. /\ \A u \in Runners : io'[u] \in {io[u], "expire", "post", "events"}
          /\ Registered' = Registered
      BY <1>1, <2>1 DEF Registered
    <2> QED
      BY <2>1, <2>2, QuietKept
  <1> QED
    BY <1>2, <1>3, <1>4, <1>5

-----------------------------------------------------------------------------
(* The invariant.                                                          *)

\* The steps of the system, the thread named.
Steps(t) ==
  \/ Tickle(t) \/ Tickle(Main) \/ IOScan(t) \/ IORun(t) \/ IOFinish(t)
  \/ (\E f \in Fibers : IOSpawn(t, f) \/ IOSubmit(f))
  \/ IOStopSteps \/ IOStart \/ IOStop
  \/ WakeFiber(t) \/ Sleep(t) \/ Cancel(t) \/ (\E e \in Events : WaitFor(t, e))
  \/ ReadTimers(t) \/ ReadPending(t) \/ ReadStopping(t) \/ EpollWait(t)
  \/ ListExpired(t) \/ Post(t) \/ ProcessEvents(t)
  \/ (\E w \in Wakes : Elapse(w)) \/ (\E c \in Conditions : Arrive(c))

LEMMA StepsCover ==
  ASSUME [IONext]_iomVars
  PROVE  (\E t \in Runners : Steps(t)) \/ UNCHANGED iomVars
  <1>1. CASE UNCHANGED iomVars
    BY <1>1
  <1>2. CASE \E t \in Runners : IOThread(t)
    BY <1>2 DEF IOThread, IOIdle, Steps
  <1>3. CASE \/ IOOwner \/ IOStart \/ IOStop \/ (\E f \in Fibers : IOSubmit(f))
             \/ (\E w \in Wakes : Elapse(w)) \/ (\E c \in Conditions : Arrive(c))
    <2> PICK t : t \in Runners
      BY SchedulerAssumption
    <2>1. Steps(t)
      BY <1>3 DEF IOOwner, Steps
    <2> QED
      BY <2>1
  <1> QED
    BY <1>1, <1>2, <1>3 DEF IONext

LEMMA TypesStep ==
  ASSUME IOIInv, NEW t \in Runners, Steps(t)
  PROVE  TypesInv'
  <1>0. TypesInv
    BY DEF IOIInv
  <1>1. CASE WakeFiber(t) \/ Sleep(t) \/ Cancel(t) \/ (\E e \in Events : WaitFor(t, e))
             \/ ProcessEvents(t)
    BY <1>1, WakeFiberEffect, SleepEffect, CancelEffect, WaitForEffect, ProcessEventsEffect
  <1>2. CASE Post(t) /\ cbs[t] # {}
    <2>1. PICK w \in cbs[t] :
            /\ ScheduleAll(t, <<w>>) /\ submitted' = submitted \cup {w}
            /\ cbs' = [cbs EXCEPT ![t] = @ \ {w}]
            /\ UNCHANGED <<Counters, m_stopping, m_state, pc, task, idleTerm, mainPc,
                           yields, io>>
      BY <1>2 DEF Post
    <2>2. InIdle(t, "post") /\ UNCHANGED <<timerVars, fdVars, evs, pipe, lateRun, aborted>>
      BY <1>2 DEF Post
    <2> QED
      BY <2>1, <2>2, PostEffect
  <1>3. CASE Post(t) /\ cbs[t] = {}
    <2>1. /\ io' = [io EXCEPT ![t] = "events"]
          /\ UNCHANGED <<vars, timerVars, fdVars, cbs, evs, owes, pipe, lateRun, aborted>>
      BY <1>3 DEF Post
    <2>2. TypeOK' /\ CountInv' /\ ThreadInv'
      BY <1>0, <2>1, BaseStep
    <2>3. UNCHANGED <<m_timers, due, m_tickled, ctx, m_pendingEventCount, ready>>
      BY <2>1 DEF timerVars, fdVars
    <2>4. Registered' = Registered
      BY <2>3 DEF Registered
    <2>5. "events" \in IdleLabels
      BY DEF IdleLabels
    <2> QED
      BY <1>0, <2>1, <2>2, <2>3, <2>4, <2>5, TypesHeld, RestTypes
  <1>4. CASE \/ Tickle(t) \/ Tickle(Main) \/ IOScan(t) \/ IORun(t) \/ IOFinish(t)
             \/ (\E f \in Fibers : IOSpawn(t, f) \/ IOSubmit(f))
             \/ IOStopSteps \/ IOStart \/ IOStop
             \/ ReadTimers(t) \/ ReadPending(t) \/ ReadStopping(t)
             \/ EpollWait(t) \/ ListExpired(t)
             \/ (\E w \in Wakes : Elapse(w)) \/ (\E c \in Conditions : Arrive(c))
    BY <1>0, <1>4, BaseTypesInv
  <1> QED
    BY <1>1, <1>2, <1>3, <1>4 DEF Steps

LEMMA TokensStep ==
  ASSUME IOIInv, NEW t \in Runners, Steps(t)
  PROVE  TokensInv'
  <1>1. CASE \/ (\E f \in Fibers : IOSpawn(t, f) \/ IOSubmit(f))
             \/ WakeFiber(t) \/ Sleep(t) \/ Cancel(t) \/ (\E e \in Events : WaitFor(t, e))
             \/ ListExpired(t) \/ Post(t) \/ ProcessEvents(t) \/ IOFinish(t)
    BY <1>1, NewFiberTokens, WakeTokens, SleepTokens, TriggerTokens, WaitForTokens,
       ExpireTokens, PostTokens, FinishTokens
  <1>2. CASE IOScan(t)
    BY <1>2, TakeTokens, QuietSteps
  <1>3. CASE IORun(t)
    <2>1. CASE (Resume(t) \/ MarkReady(t)) /\ UNCHANGED ioVars
      BY <2>1, StateTokens
    <2>2. CASE owes[t] = 0 /\ (EnterIdle(t) \/ LeaveIdle(t) \/ SwapOut(t) \/ Return(t))
               /\ UNCHANGED ioVars
      BY <2>2, QuietSteps
    <2> QED
      BY <1>3, <2>1, <2>2 DEF IORun
  <1>4. CASE \/ Tickle(t) \/ Tickle(Main) \/ IOStopSteps \/ IOStart \/ IOStop
             \/ ReadTimers(t) \/ ReadPending(t) \/ ReadStopping(t) \/ EpollWait(t)
             \/ (\E w \in Wakes : Elapse(w)) \/ (\E c \in Conditions : Arrive(c))
    BY <1>4, QuietSteps
  <1> QED
    BY <1>1, <1>2, <1>3, <1>4 DEF Steps

LEMMA LeaveStep ==
  ASSUME IOIInv, NEW t \in Runners, Steps(t)
  PROVE  LeaveInv'
  <1>1. CASE \/ Tickle(t) \/ Tickle(Main)
             \/ (\E w \in Wakes : Elapse(w)) \/ (\E c \in Conditions : Arrive(c))
    <2>1. UNCHANGED <<m_tasks, m_stopping, mainPc, pc, idleTerm>>
      BY <1>1 DEF Tickle, Elapse, Arrive, vars
    <2> QED
      BY <2>1 DEF IOIInv, LeaveInv, Leaving
  <1>2. CASE IOStart \/ IOStop \/ IOStopSteps \/ \E f \in Fibers : IOSubmit(f)
    BY <1>2, LeaveOwner
  <1>3. CASE IOScan(t)
    BY <1>3, LeaveScan
  <1>4. CASE \/ IORun(t) \/ IOFinish(t) \/ WakeFiber(t) \/ Sleep(t) \/ Cancel(t)
             \/ (\E f \in Fibers : IOSpawn(t, f)) \/ (\E e \in Events : WaitFor(t, e))
             \/ IOIdle(t)
    BY <1>4, LeaveThread
  <1> QED
    BY <1>1, <1>2, <1>3, <1>4 DEF Steps, IOIdle

LEMMA QuietStep ==
  ASSUME IOIInv, NEW t \in Runners, Steps(t)
  PROVE  QuietInv'
  <1>1. CASE IOScan(t)
    BY <1>1, QuietScan
  <1>2. CASE Sleep(t) \/ \E e \in Events : WaitFor(t, e)
    BY <1>2, QuietSuspend
  <1>3. CASE ReadTimers(t) \/ ReadPending(t) \/ ReadStopping(t)
    BY <1>3, QuietReads
  <1> QED
    BY <1>1, <1>2, <1>3, QuietOthers DEF Steps

LEMMA IOInitInv == IOInit => IOIInv
  <1> SUFFICES ASSUME IOInit PROVE IOIInv
    OBVIOUS
  <1>1. TypesInv /\ TokensInv
    BY IOTypesInit, TokensInit
  <1>2. LeaveInv
    BY DEF IOInit, Init, LeaveInv, Leaving
  <1>3. Registered = {}
    BY DEF IOInit, Registered
  <1>4. QuietInv
    BY <1>3 DEF IOInit, Init, QuietInv
  <1> QED
    BY <1>1, <1>2, <1>4 DEF IOIInv

LEMMA IOStepInv ==
  ASSUME IOIInv, [IONext]_iomVars
  PROVE  IOIInv'
  <1>1. CASE UNCHANGED iomVars
    <2> PICK t : t \in Runners
      BY SchedulerAssumption
    <2>1. TypesInv'
      BY <1>1, BaseTypesInv DEF IOIInv
    <2>2. TokensInv'
      BY <1>1, QuietSteps
    <2>3. LeaveInv'
      BY <1>1 DEF iomVars, vars, IOIInv, LeaveInv, Leaving
    <2>4. QuietInv'
      <3>1. UNCHANGED <<idleTerm, pc, io, m_timers, ctx, lateRun>>
        BY <1>1 DEF iomVars, vars, ioVars, timerVars, fdVars, idleVars
      <3>2. Registered' = Registered
        BY <3>1 DEF Registered
      <3> QED
        BY <3>1, <3>2 DEF IOIInv, QuietInv
    <2> QED
      BY <2>1, <2>2, <2>3, <2>4 DEF IOIInv
  <1>2. CASE \E t \in Runners : Steps(t)
    <2>1. PICK t \in Runners : Steps(t)
      BY <1>2
    <2>2. TypesInv' /\ TokensInv' /\ LeaveInv' /\ QuietInv'
      BY <2>1, TypesStep, TokensStep, LeaveStep, QuietStep
    <2> QED
      BY <2>2 DEF IOIInv
  <1> QED
    BY <1>1, <1>2, StepsCover

\* What is written above of the places where a fiber may wait and of the
\* threads that leave holds in every state: of iomanager.cc, timer.cc and
\* scheduler.cc together, whatever the number of threads and fibers.
THEOREM IOInvariant == IOSpec => []IOIInv
  <1>1. IOInit => IOIInv
    BY IOInitInv
  <1>2. IOIInv /\ [IONext]_iomVars => IOIInv'
    BY IOStepInv
  <1> QED
    BY <1>1, <1>2, PTL DEF IOSpec

-----------------------------------------------------------------------------
(* What the runs check.                                                    *)

LEMMA AtMostOne ==
  ASSUME NEW S, \A x, y \in S : x = y
  PROVE  Cardinality(S) = IF S = {} THEN 0 ELSE 1
  <1>1. CASE S = {}
    BY <1>1, FS_EmptySet
  <1>2. CASE S # {}
    <2>1. PICK x : x \in S
      BY <1>2
    <2>2. S = {x}
      BY <2>1
    <2> QED
      BY <1>2, <2>2, FS_Singleton
  <1> QED
    BY <1>1, <1>2

\* The sets that Resumers counts have an element or none.
LEMMA ResumersOf ==
  ASSUME IOIInv, NEW f \in Fibers
  PROVE  /\ Resumers(f) = (IF f \in InQueue THEN 1 ELSE 0)
                          + (IF f \in Awaited THEN 1 ELSE 0)
                          + (IF f \in Sleeping THEN 1 ELSE 0)
         /\ Cardinality(Holders(f, {"dispatch", "exec"})) = IF f \in Taken THEN 1 ELSE 0
  <1>1. EntriesInv /\ HeldInv /\ CtxInv /\ FibersInv /\ WakesInv /\ Pending \subseteq Wakes
    BY PlacesOf DEF IOIInv, TokensInv
  <1>2. f \in Jobs /\ f # NoJob
    BY FiberIsJob
  <1>3. Cardinality(EntriesOf(f)) = IF f \in InQueue THEN 1 ELSE 0
    <2>1. \A i, k \in EntriesOf(f) : i = k
      BY <1>1 DEF EntriesOf, EntriesInv
    <2>2. EntriesOf(f) = {} <=> f \notin InQueue
      BY DEF EntriesOf, InQueue
    <2> QED
      BY <2>1, <2>2, AtMostOne
  <1>4. Cardinality({e \in Events : ctx[e] = f}) = IF f \in Awaited THEN 1 ELSE 0
    <2>1. \A d, e \in {e \in Events : ctx[e] = f} : d = e
      BY <1>1, <1>2 DEF CtxInv, Registered
    <2>2. {e \in Events : ctx[e] = f} = {} <=> f \notin Awaited
      BY <1>2 DEF Awaited, Registered
    <2> QED
      BY <2>1, <2>2, AtMostOne
  <1> DEFINE asleep == {w \in {f} \X (1..MaxYields) :
                          \/ w \in m_timers
                          \/ \E t \in Runners : w \in cbs[t]
                          \/ EntriesOf(w) # {}
                          \/ Holders(w, {"dispatch", "exec"}) # {} /\ yields[w] = 0}
  <1>5. asleep = {w \in Pending : w[1] = f}
    <2>1. \A w \in Wakes : w \in {f} \X (1..MaxYields) <=> w[1] = f
      BY DEF Wakes
    <2>2. \A w \in Pending : w \in Wakes
      BY <1>1
    <2>3. \A w \in {f} \X (1..MaxYields) : w \in Wakes
      BY DEF Wakes
    <2>4. \A w \in Wakes : /\ EntriesOf(w) # {} <=> w \in InQueue
                           /\ Holders(w, {"dispatch", "exec"}) # {} <=> w \in Taken
                           /\ (\E t \in Runners : w \in cbs[t]) <=> w \in Listed
                           /\ yields[w] = 0 <=> w \notin Rung
      BY DEF EntriesOf, InQueue, Holders, Taken, Listed, Rung
    <2>5. \A w \in InQueue : w \notin Rung
      BY <1>1 DEF WakesInv
    <2>6. \A w \in Wakes :
            (\/ w \in m_timers
             \/ \E t \in Runners : w \in cbs[t]
             \/ EntriesOf(w) # {}
             \/ Holders(w, {"dispatch", "exec"}) # {} /\ yields[w] = 0)
            <=> w \in Pending
      BY <2>4, <2>5 DEF Pending
    <2> QED
      BY <2>1, <2>2, <2>3, <2>6
  <1>6. Cardinality(asleep) = IF f \in Sleeping THEN 1 ELSE 0
    <2>1. \A v, w \in asleep : v = w
      BY <1>1, <1>5 DEF FibersInv
    <2>2. asleep = {} <=> f \notin Sleeping
      BY <1>5 DEF Sleeping
    <2> QED
      BY <2>1, <2>2, AtMostOne
  <1>7. Cardinality(Holders(f, {"dispatch", "exec"})) = IF f \in Taken THEN 1 ELSE 0
    <2>1. \A t, u \in Holders(f, {"dispatch", "exec"}) : t = u
      BY <1>1 DEF Holders, HeldInv, Held
    <2>2. Holders(f, {"dispatch", "exec"}) = {} <=> f \notin Taken
      BY DEF Holders, Taken
    <2> QED
      BY <2>1, <2>2, AtMostOne
  <1>8. Resumers(f) = Cardinality(EntriesOf(f))
                      + Cardinality({e \in Events : ctx[e] = f}) + Cardinality(asleep)
    BY DEF Resumers
  <1> HIDE DEF asleep
  <1> QED
    BY <1>3, <1>4, <1>6, <1>7, <1>8

\* A fiber that is submitted and has not ended either executes or has exactly one
\* thing left that will resume it, an entry of the queue, an event or the callback of
\* a sleep, wherever timers, polling threads and cancellations have brought it.
THEOREM FiberHasOneResumer == IOSpec => []OneResumer
  <1>1. ASSUME IOIInv PROVE OneResumer
    <2> SUFFICES ASSUME NEW f \in Fibers \cap submitted
                 PROVE  Resumers(f) + Cardinality(Holders(f, {"dispatch", "exec"}))
                          = IF m_state[f] = "TERM" THEN 0 ELSE 1
      BY DEF OneResumer
    <2>1. FibersInv /\ f \in Jobs
      BY <1>1, FiberIsJob DEF IOIInv, TokensInv
    <2>2. m_state[f] = "TERM" <=> f \in Ended
      BY <2>1 DEF Ended
    <2>3. f \in InQueue \cup Taken \cup Awaited \cup Sleeping <=> f \notin Ended
      BY <2>1 DEF FibersInv
    <2>4. /\ ~(f \in InQueue /\ f \in Taken) /\ ~(f \in InQueue /\ f \in Awaited)
          /\ ~(f \in InQueue /\ f \in Sleeping) /\ ~(f \in Taken /\ f \in Awaited)
          /\ ~(f \in Taken /\ f \in Sleeping) /\ ~(f \in Awaited /\ f \in Sleeping)
      BY <2>1 DEF FibersInv
    <2>5. /\ Resumers(f) = (IF f \in InQueue THEN 1 ELSE 0)
                           + (IF f \in Awaited THEN 1 ELSE 0)
                           + (IF f \in Sleeping THEN 1 ELSE 0)
          /\ Cardinality(Holders(f, {"dispatch", "exec"})) = IF f \in Taken THEN 1 ELSE 0
      BY <1>1, ResumersOf
    <2> QED
      BY <2>2, <2>3, <2>4, <2>5
  <1> QED
    BY <1>1, IOInvariant, PTL

\* When stop() has joined the threads the queue is empty; and unless a thread took
\* one more task after its idle fiber had ended (scheduler.cc:212) every timer has
\* fired, no event is registered and every fiber has finished.
THEOREM StopLeavesNothing == IOSpec => []CompleteUnlessLateRun
  <1>1. ASSUME IOIInv PROVE CompleteUnlessLateRun
    <2> SUFFICES ASSUME mainPc = "done"
                 PROVE  m_tasks = <<>> /\ (lateRun \/ AllDone)
      BY DEF CompleteUnlessLateRun
    <2>1. /\ LeaveInv /\ QuietInv /\ FibersInv /\ WakesInv /\ CbsInv
          /\ cbs \in [Runners -> SUBSET Wakes]
      BY <1>1, TypesHeld DEF IOIInv, TokensInv
    <2>2. \A t \in Runners : pc[t] = "exited" /\ t \in idleTerm
      BY <2>1 DEF LeaveInv, Runners
    <2>3. m_tasks = <<>>
      BY <2>1, <2>2 DEF LeaveInv, Leaving
    <2>4. CASE ~lateRun
      <3>1. m_timers = {} /\ Registered = {}
        BY <2>1, <2>2, <2>4 DEF QuietInv
      <3>2. InQueue = {} /\ Taken = {}
        BY <2>2, <2>3 DEF InQueue, Taken
      <3>3. Listed = {}
        <4>1. \A t \in Runners : cbs[t] = {}
          BY <2>1, <2>2 DEF CbsInv
        <4> QED
          BY <4>1 DEF Listed
      <3>4. Awaited = {} /\ Sleeping = {}
        BY <3>1, <3>2, <3>3 DEF Awaited, Pending, Sleeping
      <3>5. \A f \in Fibers \cap submitted : m_state[f] = "TERM"
        BY <2>1, <3>2, <3>4 DEF FibersInv, Ended
      <3> QED
        BY <2>3, <3>1, <3>5 DEF AllDone
    <2> QED
      BY <2>3, <2>4
  <1> QED
    BY <1>1, IOInvariant, PTL

\* Every variable keeps its type; in particular m_pendingEventCount, which addEvent()
\* increments and triggerEvent() decrements, is the number of registered events, and
\* due timers are armed ones.
THEOREM IOTypeCorrect == IOSpec => []IOTypeOK
  <1>1. IOIInv => IOTypeOK
    BY DEF IOIInv, TypesInv
  <1> QED
    BY <1>1, IOInvariant, PTL
=============================================================================
