----------------------------- MODULE IOManager ------------------------------
(***************************************************************************)
(* sylar::IOManager (sylar/iomanager.cc): the Scheduler whose idle fiber   *)
(* waits in epoll, together with the TimerManager it inherits              *)
(* (sylar/timer.cc) and the blocking calls through which fibers meet both: *)
(* the sleeps of sylar/hook.cc and a wait for an event of a socket.        *)
(*                                                                         *)
(* Time and the kernel are abstracted.  A timer becomes due at any moment  *)
(* after it was armed; the conditions of the one socket arise at any       *)
(* moment; epoll_wait may return at any moment, since its timeout is at    *)
(* most MAX_TIMEOUT.  The body of a critical section is one step.          *)
(***************************************************************************)
EXTENDS Scheduler

CONSTANTS
  Fibers,      \* the jobs of the program
  Events,      \* the events fibers wait for: a subset of {"READ", "WRITE"}
  Conditions   \* what the socket may report: Events, and perhaps "HUP"

\* The n-th sleep of fiber f ends through a callback <<f, n>>, a job that
\* idle() schedules and that schedules the fiber.
Wakes == Fibers \X (1..MaxYields)

ASSUME IOManagerAssumption ==
  /\ Jobs = Fibers \cup Wakes
  /\ Fibers \cap Wakes = {}
  /\ Events \subseteq {"READ", "WRITE"}
  /\ Conditions \subseteq Events \cup {"HUP"}

VARIABLES
  m_timers,             \* armed timers, each named by its callback
  due,                  \* those whose time has come
  m_tickled,
  ctx,                  \* FdContext: the fiber registered for each event
  m_pendingEventCount,
  ready,                \* conditions that hold on the socket
  pipe,                 \* does epoll report the tickle pipe as readable?
  owes,                 \* tickle() calls a thread is committed to
  io,                   \* where a thread is in IOManager::idle()
  cbs,                  \* local: callbacks of expired timers
  evs,                  \* local: the mask epoll_wait returned for the socket
  lateRun,              \* did a thread take a task after its idle fiber ended?
  aborted               \* an assertion has failed

timerVars == <<m_timers, due, m_tickled>>
fdVars == <<ctx, m_pendingEventCount, ready>>
idleVars == <<io, cbs, evs>>
ioVars == <<timerVars, fdVars, idleVars, pipe, owes, lateRun, aborted>>
iomVars == <<vars, ioVars>>

IdleLabels == {"check", "pending", "stopping", "wait", "expire", "post", "events"}
Threads == Runners \cup {Main}

IOInit ==
  /\ Init
  /\ m_timers = {} /\ due = {} /\ m_tickled = FALSE
  /\ ctx = [e \in Events |-> NoJob]
  /\ m_pendingEventCount = 0
  /\ ready = {}
  /\ pipe = FALSE
  /\ owes = [t \in Threads |-> 0]
  /\ io = [t \in Runners |-> "check"]
  /\ cbs = [t \in Runners |-> {}]
  /\ evs = [t \in Runners |-> {}]
  /\ lateRun = FALSE
  /\ aborted = FALSE

Registered == {e \in Events : ctx[e] # NoJob}

\* tickle(), called after the lock was released: wakes one thread that waits
\* in epoll, if any thread counts as idle.
Tickle(t) ==
  /\ owes[t] > 0
  /\ owes' = [owes EXCEPT ![t] = @ - 1]
  /\ pipe' = (pipe \/ m_idleThreadCount > 0)
  /\ UNCHANGED <<vars, timerVars, fdVars, idleVars, lateRun, aborted>>

\* schedule() tickles when the queue was empty.
TickleIf(t, needTickle) ==
  owes' = [owes EXCEPT ![t] = @ + IF needTickle THEN 1 ELSE 0]

ScheduleAll(t, jobs) ==
  /\ m_tasks' = m_tasks \o [i \in DOMAIN jobs |-> [job |-> jobs[i], thr |-> AnyThread]]
  /\ TickleIf(t, m_tasks = <<>> /\ jobs # <<>>)

-----------------------------------------------------------------------------
(* The owner: the constructor starts the threads, the destructor stops.    *)

IOStart == Start /\ UNCHANGED ioVars

IOSubmit(f) ==
  /\ owes[Main] = 0
  /\ Submit(f, AnyThread)
  /\ TickleIf(Main, m_tasks = <<>>)
  /\ UNCHANGED <<timerVars, fdVars, idleVars, pipe, lateRun, aborted>>

IOStop ==
  /\ owes[Main] = 0
  /\ Stop
  /\ owes' = [owes EXCEPT ![Main] = Cardinality(Runners)]
  /\ UNCHANGED <<timerVars, fdVars, idleVars, pipe, lateRun, aborted>>

IOStopSteps ==
  /\ owes[Main] = 0
  /\ StopSteps
  /\ UNCHANGED ioVars

-----------------------------------------------------------------------------
(* run(): the steps of Scheduler, and the tickle after a scan.             *)

IOScan(t) ==
  /\ owes[t] = 0
  /\ Scan(t)
  /\ TickleIf(t, \E i \in Eligible(t) : i < Len(m_tasks)
                                        /\ \A k \in Eligible(t) : i <= k)
  /\ lateRun' = (lateRun \/ (t \in idleTerm /\ Eligible(t) # {}))
  /\ UNCHANGED <<timerVars, fdVars, idleVars, pipe, aborted>>

IORun(t) ==
  /\ owes[t] = 0
  /\ EnterIdle(t) \/ LeaveIdle(t) \/ Resume(t) \/ MarkReady(t) \/ SwapOut(t)
     \/ Return(t)
  /\ UNCHANGED ioVars

-----------------------------------------------------------------------------
(* What a fiber, or the callback of a timer, does while it executes.       *)

Exec(t) == owes[t] = 0 /\ pc[t] = "exec"

IOFinish(t) ==
  /\ Exec(t)
  /\ task[t] \in Wakes => yields[task[t]] = 1
  /\ Finish(t)
  /\ UNCHANGED ioVars

IOSpawn(t, f) ==
  /\ Exec(t) /\ task[t] \in Fibers
  /\ Spawn(t, f, AnyThread)
  /\ TickleIf(t, m_tasks = <<>>)
  /\ UNCHANGED <<timerVars, fdVars, idleVars, pipe, lateRun, aborted>>

\* The callback of a sleep timer: iom->schedule(fiber).
WakeFiber(t) ==
  /\ Exec(t) /\ task[t] \in Wakes /\ yields[task[t]] = 0
  /\ ScheduleAll(t, <<task[t][1]>>)
  /\ yields' = [yields EXCEPT ![task[t]] = 1]
  /\ UNCHANGED <<Counters, m_stopping, m_state, pc, task, idleTerm, mainPc,
                 submitted>>
  /\ UNCHANGED <<timerVars, fdVars, idleVars, pipe, lateRun, aborted>>

\* A fiber is about to yield for the n-th time.
Suspend(t) ==
  /\ Exec(t) /\ task[t] \in Fibers
  /\ yields[task[t]] < MaxYields
  /\ pc' = [pc EXCEPT ![t] = "yielding"]
  /\ yields' = [yields EXCEPT ![task[t]] = @ + 1]
  /\ UNCHANGED <<m_tasks, Counters, m_stopping, m_state, task, idleTerm,
                 mainPc, submitted>>

\* sleep(), usleep(), nanosleep(): addTimer(), then yield.  A timer that
\* became the first one tickles unless that was done since getNextTimer().
Sleep(t) ==
  /\ Suspend(t)
  /\ m_timers' = m_timers \cup {<<task[t], yields'[task[t]]>>}
  /\ \E first \in BOOLEAN :
       /\ m_timers = {} => first
       /\ m_tickled' = (m_tickled \/ first)
       /\ TickleIf(t, first /\ ~m_tickled)
  /\ UNCHANGED <<due, fdVars, idleVars, pipe, lateRun, aborted>>

\* The call returned EAGAIN: addEvent(), then yield.  Two fibers do not wait
\* for the same event (iomanager.cc:169).
WaitFor(t, e) ==
  /\ Suspend(t)
  /\ ctx[e] = NoJob
  /\ ctx' = [ctx EXCEPT ![e] = task[t]]
  /\ m_pendingEventCount' = m_pendingEventCount + 1
  /\ "HUP" \notin ready
  /\ ready' = ready \ {e}
  /\ UNCHANGED <<timerVars, idleVars, pipe, owes, lateRun, aborted>>

\* The fibers of some events, that of READ first.
InOrder(fired) ==
  (IF "READ" \in fired THEN <<ctx["READ"]>> ELSE <<>>)
    \o (IF "WRITE" \in fired THEN <<ctx["WRITE"]>> ELSE <<>>)

\* Variants marked as faulty are mistakes the properties are tried on.
\* Faulty: the count of pending events is forgotten.
TriggerEventsUncounted(t, fired) ==
  /\ ctx' = [e \in Events |-> IF e \in fired THEN NoJob ELSE ctx[e]]
  /\ UNCHANGED m_pendingEventCount
  /\ ScheduleAll(t, InOrder(fired))

\* triggerEvent() of some registered events, under the FdContext's lock; each
\* is followed by --m_pendingEventCount.
TriggerEvents(t, fired) ==
  /\ ctx' = [e \in Events |-> IF e \in fired THEN NoJob ELSE ctx[e]]
  /\ m_pendingEventCount' = m_pendingEventCount - Cardinality(fired)
  /\ ScheduleAll(t, InOrder(fired))

\* cancelEvent() for one event, cancelAll() for every registered one: as
\* triggered by a timeout, by close() or by a server that stops.
Cancel(t) ==
  /\ Exec(t) /\ task[t] \in Fibers
  /\ \E fired \in SUBSET Registered :
       /\ Cardinality(fired) = 1 \/ fired = Registered
       /\ fired # {}
       /\ TriggerEvents(t, fired)
  /\ UNCHANGED <<Counters, m_stopping, m_state, pc, task, idleTerm, mainPc,
                 ClientVars>>
  /\ UNCHANGED <<timerVars, ready, idleVars, pipe, lateRun, aborted>>

-----------------------------------------------------------------------------
(* IOManager::idle().                                                      *)

InIdle(t, label) == owes[t] = 0 /\ pc[t] = "idle" /\ io[t] = label

\* Faulty: stopping() does not look at the pending events.
ReadTimersOnly(t) ==
  /\ InIdle(t, "check")
  /\ m_tickled' = FALSE
  /\ io' = [io EXCEPT ![t] = IF m_timers = {} THEN "stopping" ELSE "wait"]
  /\ UNCHANGED <<vars, m_timers, due, fdVars, cbs, evs, pipe, owes, lateRun,
                 aborted>>

\* stopping() reads three pieces of state one after the other.
ReadTimers(t) ==
  /\ InIdle(t, "check")
  /\ m_tickled' = FALSE
  /\ io' = [io EXCEPT ![t] = IF m_timers = {} THEN "pending" ELSE "wait"]
  /\ UNCHANGED <<vars, m_timers, due, fdVars, cbs, evs, pipe, owes, lateRun,
                 aborted>>

ReadPending(t) ==
  /\ InIdle(t, "pending")
  /\ io' = [io EXCEPT ![t] = IF m_pendingEventCount = 0 THEN "stopping" ELSE "wait"]
  /\ UNCHANGED <<vars, timerVars, fdVars, cbs, evs, pipe, owes, lateRun, aborted>>

\* The idle fiber ends, or goes on to epoll_wait.
ReadStopping(t) ==
  /\ InIdle(t, "stopping")
  /\ IF Stopping
     THEN Idle(t) /\ io' = [io EXCEPT ![t] = "check"]
     ELSE io' = [io EXCEPT ![t] = "wait"] /\ UNCHANGED vars
  /\ UNCHANGED <<timerVars, fdVars, cbs, evs, pipe, owes, lateRun, aborted>>

\* What epoll reports of the socket.
Reported == ready \cap (Registered \cup IF Registered # {} THEN {"HUP"} ELSE {})

\* Faulty: epoll_wait without a timeout when there is no timer.
EpollReturnsWhenWoken == pipe \/ due # {} \/ Reported # {}

\* The timeout of epoll_wait is at most MAX_TIMEOUT, so that it returns even
\* when nothing happens.
EpollReturns == TRUE

EpollWait(t) ==
  /\ InIdle(t, "wait")
  /\ EpollReturns
  /\ io' = [io EXCEPT ![t] = "expire"]
  /\ evs' = [evs EXCEPT ![t] = Reported]
  /\ pipe' = FALSE
  /\ UNCHANGED <<vars, timerVars, fdVars, cbs, owes, lateRun, aborted>>

\* Faulty: the expired timers stay armed.
ListExpiredKeeps(t) ==
  /\ InIdle(t, "expire")
  /\ cbs' = [cbs EXCEPT ![t] = due]
  /\ io' = [io EXCEPT ![t] = "post"]
  /\ UNCHANGED <<vars, m_timers, due, m_tickled, fdVars, evs, pipe, owes,
                 lateRun, aborted>>

\* listExpiredCb(): the callbacks leave the set of timers.
ListExpired(t) ==
  /\ InIdle(t, "expire")
  /\ cbs' = [cbs EXCEPT ![t] = due]
  /\ m_timers' = m_timers \ due
  /\ due' = {}
  /\ io' = [io EXCEPT ![t] = "post"]
  /\ UNCHANGED <<vars, m_tickled, fdVars, evs, pipe, owes, lateRun, aborted>>

\* schedule(cb) for each of them.
Post(t) ==
  /\ InIdle(t, "post")
  /\ \/ \E w \in cbs[t] :
          /\ ScheduleAll(t, <<w>>)
          /\ submitted' = submitted \cup {w}
          /\ cbs' = [cbs EXCEPT ![t] = @ \ {w}]
          /\ UNCHANGED <<Counters, m_stopping, m_state, pc, task, idleTerm,
                         mainPc, yields, io>>
     \/ /\ cbs[t] = {}
        /\ io' = [io EXCEPT ![t] = "events"]
        /\ UNCHANGED <<vars, cbs, owes>>
  /\ UNCHANGED <<timerVars, fdVars, evs, pipe, lateRun, aborted>>

\* real_events of the loop over the events: HUP stands for what is registered.
RealEvents(t) ==
  IF "HUP" \in evs[t] THEN (evs[t] \cap Events) \cup Registered ELSE evs[t]

\* The loop over the events, then the idle fiber yields.  A socket with no
\* registered event among the real ones is skipped; one with some triggers
\* every real event, which fails the assertion for those not registered.
ProcessEvents(t) ==
  /\ InIdle(t, "events")
  /\ LET real == RealEvents(t) IN
       \/ /\ real \cap Registered = {}
          /\ UNCHANGED <<ctx, m_pendingEventCount, m_tasks, owes, aborted>>
       \/ /\ real \cap Registered # {}
          /\ TriggerEvents(t, real \cap Registered)
          /\ aborted' = ~(real \subseteq Registered)
  /\ evs' = [evs EXCEPT ![t] = {}]
  /\ io' = [io EXCEPT ![t] = "check"]
  /\ pc' = [pc EXCEPT ![t] = "unidle"]
  /\ UNCHANGED <<Counters, m_stopping, m_state, task, idleTerm, mainPc,
                 ClientVars>>
  /\ UNCHANGED <<timerVars, ready, cbs, pipe, lateRun>>

-----------------------------------------------------------------------------
(* The clock and the peer.                                                 *)

Elapse(w) ==
  /\ w \in m_timers \ due
  /\ due' = due \cup {w}
  /\ UNCHANGED <<vars, m_timers, m_tickled, fdVars, idleVars, pipe, owes,
                 lateRun, aborted>>

Arrive(c) ==
  /\ c \in Conditions \ ready
  /\ Registered # {}
  /\ ready' = ready \cup {c}
  /\ UNCHANGED <<vars, timerVars, ctx, m_pendingEventCount, idleVars, pipe,
                 owes, lateRun, aborted>>

-----------------------------------------------------------------------------
IOIdle(t) ==
  \/ ReadTimers(t) \/ ReadPending(t) \/ ReadStopping(t) \/ EpollWait(t)
  \/ ListExpired(t) \/ Post(t) \/ ProcessEvents(t)

IOThread(t) ==
  \/ Tickle(t) \/ IOScan(t) \/ IORun(t) \/ IOIdle(t)
  \/ IOFinish(t) \/ WakeFiber(t) \/ Sleep(t) \/ Cancel(t)
  \/ \E f \in Fibers : IOSpawn(t, f)
  \/ \E e \in Events : WaitFor(t, e)

IOOwner == IOStopSteps \/ Tickle(Main)

IONext ==
  \/ /\ ~aborted
     /\ \/ \E t \in Runners : IOThread(t)
        \/ IOOwner
        \/ IOStart
        \/ IOStop
        \/ \E f \in Fibers : IOSubmit(f)
        \/ \E w \in Wakes : Elapse(w)
        \/ \E c \in Conditions : Arrive(c)
  \/ (mainPc = "done" \/ aborted) /\ UNCHANGED iomVars

IOSpec == IOInit /\ [][IONext]_iomVars

\* Threads keep running, a stop() under way continues, the time of a timer
\* comes and a peer that is waited for answers.
IOFairSpec ==
  /\ IOSpec
  /\ \A t \in Runners : WF_iomVars(IOThread(t))
  /\ WF_iomVars(IOOwner)
  /\ \A w \in Wakes : WF_iomVars(Elapse(w))
  /\ \A e \in Events : WF_iomVars(Arrive(e))
-----------------------------------------------------------------------------
(* Properties.                                                             *)

IOTypeOK ==
  /\ TypeOK
  /\ m_timers \subseteq Wakes /\ due \subseteq m_timers
  /\ m_tickled \in BOOLEAN
  /\ ctx \in [Events -> Fibers \cup {NoJob}]
  /\ m_pendingEventCount = Cardinality(Registered)
  /\ ready \subseteq Conditions
  /\ pipe \in BOOLEAN
  /\ owes \in [Threads -> 0..Cardinality(Runners)]
  /\ io \in [Runners -> IdleLabels]
  /\ cbs \in [Runners -> SUBSET Wakes]
  /\ evs \in [Runners -> SUBSET Conditions]
  /\ lateRun \in BOOLEAN /\ aborted \in BOOLEAN

\* Where a job is that nobody executes yet: in the queue or taken from it.
EntriesOf(j) == {i \in DOMAIN m_tasks : m_tasks[i].job = j}

\* Everything that will resume fiber f: its entries in the queue, the events
\* it is registered for, and the callbacks of its sleeps that have not run,
\* wherever they are.
Resumers(f) ==
  Cardinality(EntriesOf(f))
  + Cardinality({e \in Events : ctx[e] = f})
  + Cardinality({w \in {f} \X (1..MaxYields) :
                   \/ w \in m_timers
                   \/ \E t \in Runners : w \in cbs[t]
                   \/ EntriesOf(w) # {}
                   \/ Holders(w, {"dispatch", "exec"}) # {} /\ yields[w] = 0})

\* A fiber that is submitted and has not ended either executes or has exactly
\* one thing left that resumes it: timers, events, cancellations and
\* the threads that poll neither lose a wake-up nor deliver it twice.
OneResumer ==
  \A f \in Fibers \cap submitted :
    Resumers(f) + Cardinality(Holders(f, {"dispatch", "exec"}))
      = IF m_state[f] = "TERM" THEN 0 ELSE 1

\* While the IOManager is not being stopped, every fiber finishes whatever it
\* waits for: a tickle that was lost delays it, since epoll_wait times out,
\* and never strands it.
EveryFiberFinishes ==
  \A f \in Fibers :
    (f \in submitted /\ mainPc = "running")
      ~> (m_state[f] = "TERM" \/ mainPc # "running")

\* stop() returns: what stopping() waits for comes to an end.
IOStopReturns == mainPc = "stop" ~> mainPc = "done"

AllDone ==
  /\ m_timers = {} /\ Registered = {}
  /\ \A f \in Fibers \cap submitted : m_state[f] = "TERM"

\* When the threads have been joined the queue is empty and, provided no
\* thread took a task after its idle fiber had ended (scheduler.cc:212 looks
\* for one more task), nothing that was waited for is left behind.
CompleteUnlessLateRun ==
  mainPc = "done" => m_tasks = <<>> /\ (lateRun \/ AllDone)

-----------------------------------------------------------------------------
\* What comments say and the code does not keep: TLC refutes each with the
\* constants of IOManagerThreads.cfg (README, section 5).

\* The IOManager ends only when every event has been handled and no timer is
\* left (the comment of stopping(), iomanager.cc:350-351).
ShutdownComplete == mainPc = "done" => AllDone

\* "The event to trigger must have been registered" (iomanager.cc:85): the
\* assertion of triggerEvent() never fails.
NoAssertionFailure == ~aborted

\* "If there is a new task, leave idle at once and execute it"
\* (iomanager.cc:357-358): not every thread is in epoll_wait, with nobody
\* about to wake one, while a task is queued.
PromptWakeup ==
  ~ /\ m_tasks # <<>>
    /\ \A t \in Runners : pc[t] = "idle" /\ io[t] = "wait"
    /\ \A t \in Threads : owes[t] = 0
    /\ ~pipe
=============================================================================
