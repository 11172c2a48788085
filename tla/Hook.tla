-------------------------------- MODULE Hook --------------------------------
(***************************************************************************)
(* The blocking calls of sylar/hook.cc on one socket: do_io(), through     *)
(* which accept, read, write and their kin go, connect_with_timeout() and  *)
(* close(); with the operations of IOManager and TimerManager they use,    *)
(* each of which is one step because it holds one lock.                    *)
(*                                                                         *)
(* A call that would block arms a timer, registers for an event and        *)
(* yields.  It is resumed by the event, or by the timer, whose callback    *)
(* cancels the event.  A fiber, a callback or the polling of an idle       *)
(* thread occupies one of the IOManager's threads.                         *)
(***************************************************************************)
EXTENDS Naturals, Sequences, SequencesExt, FiniteSets

CONSTANTS
  Fibers,       \* those that make calls
  EventOf,      \* the event each of them waits for, a different one for each
  Connecting,   \* those whose first call is connect()
  Timed,        \* those whose calls have a timeout
  NoFiber,
  CallsOf,      \* bound: how many calls each fiber makes
  MaxAttempts,  \* bound: attempts of a call; with those of Hook.cfg none makes more
  MaxThreads    \* the IOManager has one to MaxThreads threads

Events == {EventOf[f] : f \in Fibers}

\* A timer is named by the call and the attempt that armed it.
Timers == UNION {{f} \X (1..CallsOf[f]) \X (1..MaxAttempts) : f \in Timed}

ASSUME HookAssumption ==
  /\ IsFiniteSet(Fibers)
  /\ \A f, g \in Fibers : EventOf[f] = EventOf[g] => f = g
  /\ Connecting \subseteq Fibers /\ Timed \subseteq Fibers
  /\ NoFiber \notin Fibers
  /\ Fibers \cap Timers = {}
  /\ CallsOf \in [Fibers -> Nat]
  /\ MaxAttempts \in Nat \ {0} /\ MaxThreads \in Nat \ {0}

VARIABLES
  threads,     \* of the IOManager, fixed
  pc,          \* where each fiber is
  call,        \* how many calls it has begun
  attempt,     \* of the current call
  cancelled,   \* tinfo->cancelled of the current call
  result,      \* how the last call ended
  m_timers,    \* armed
  due,         \* those whose time has come
  lapsed,      \* history: has a timer of the current call come due?
  queue,       \* of the scheduler: fibers to resume and callbacks to run
  cancelling,  \* callbacks between their check and cancelEvent()
  ctx,         \* FdContext: the fiber registered for each event
  ready,       \* events the kernel would report
  fd           \* where close() is: "open", "cancelled", "deleted", "closed"

fiberVars == <<pc, call, attempt, cancelled, result>>
timerVars == <<m_timers, due, lapsed>>
vars == <<threads, fiberVars, timerVars, queue, cancelling, ctx, ready, fd>>

Labels == {"out", "try", "arm", "register", "wait", "woken", "check"}

Init ==
  /\ threads \in 1..MaxThreads
  /\ pc = [f \in Fibers |-> "out"]
  /\ call = [f \in Fibers |-> 0]
  /\ attempt = [f \in Fibers |-> 0]
  /\ cancelled = [f \in Fibers |-> FALSE]
  /\ result = [f \in Fibers |-> "none"]
  /\ m_timers = {} /\ due = {}
  /\ lapsed = [f \in Fibers |-> FALSE]
  /\ queue = <<>>
  /\ cancelling = {}
  /\ ctx = [e \in Events |-> NoFiber]
  /\ ready = {}
  /\ fd = "open"

\* How many threads are in the middle of something.
Executing ==
  Cardinality({f \in Fibers : pc[f] \notin {"out", "wait"}})
  + Cardinality(cancelling)
  + IF fd \in {"cancelled", "deleted"} THEN 1 ELSE 0

Free == Executing < threads

Goto(f, from, to) ==
  /\ pc[f] = from
  /\ pc' = [pc EXCEPT ![f] = to]

\* The call ends.
Returns(f, from, how) ==
  /\ Goto(f, from, "out")
  /\ result' = [result EXCEPT ![f] = how]

Timer(f) == <<f, call[f], attempt[f]>>
InConnect(f) == f \in Connecting /\ call[f] = 1

-----------------------------------------------------------------------------
(* do_io() and connect_with_timeout().                                     *)

\* Variants marked as faulty are mistakes the properties are tried on.
\* Faulty: one timer_info serves all the calls of a fiber.
EnterKeeps(f) ==
  /\ Free
  /\ call[f] < CallsOf[f]
  /\ call' = [call EXCEPT ![f] = @ + 1]
  /\ attempt' = [attempt EXCEPT ![f] = 1]
  /\ lapsed' = [lapsed EXCEPT ![f] = FALSE]
  /\ Goto(f, "out", "try")
  /\ UNCHANGED <<threads, cancelled, result, m_timers, due, queue, cancelling,
                 ctx, ready, fd>>

\* A call begins, with a timer_info of its own.  Without an FdCtx connect()
\* fails and the others are the plain system call, which does not wait.
Enter(f) ==
  /\ Free
  /\ call[f] < CallsOf[f]
  /\ call' = [call EXCEPT ![f] = @ + 1]
  /\ attempt' = [attempt EXCEPT ![f] = 1]
  /\ cancelled' = [cancelled EXCEPT ![f] = FALSE]
  /\ lapsed' = [lapsed EXCEPT ![f] = FALSE]
  /\ IF fd \in {"open", "cancelled"}
     THEN Goto(f, "out", "try") /\ UNCHANGED <<result, ready>>
     ELSE \/ Returns(f, "out", "error") /\ UNCHANGED ready
          \/ /\ EventOf[f] \in ready /\ (f \in Connecting => call[f] > 0)
             /\ Returns(f, "out", "ok")
             /\ ready' \in {ready, ready \ {EventOf[f]}}
  /\ UNCHANGED <<threads, m_timers, due, queue, cancelling, ctx, fd>>

\* The system call: it succeeds, perhaps leaving something for the next one,
\* it fails, or it would block.
Try(f) ==
  /\ \/ /\ EventOf[f] \in ready
        /\ Returns(f, "try", "ok")
        /\ ready' \in {ready, ready \ {EventOf[f]}}
     \/ fd = "closed" /\ Returns(f, "try", "error") /\ UNCHANGED ready
     \/ /\ fd # "closed" /\ EventOf[f] \notin ready
        /\ Goto(f, "try", IF f \in Timed THEN "arm" ELSE "register")
        /\ UNCHANGED <<result, ready>>
  /\ UNCHANGED <<threads, call, attempt, cancelled, timerVars, queue,
                 cancelling, ctx, fd>>

\* addConditionTimer().
Arm(f) ==
  /\ Goto(f, "arm", "register")
  /\ m_timers' = m_timers \cup {Timer(f)}
  /\ UNCHANGED <<threads, call, attempt, cancelled, result, due, lapsed, queue,
                 cancelling, ctx, ready, fd>>

\* addEvent(), then yield().  On a closed descriptor epoll_ctl fails and the
\* timer is cancelled.
Register(f) ==
  /\ \/ /\ fd # "closed"
        /\ Goto(f, "register", "wait")
        /\ ctx' = [ctx EXCEPT ![EventOf[f]] = f]
        /\ UNCHANGED <<result, timerVars>>
     \/ /\ fd = "closed"
        /\ Returns(f, "register", "error")
        /\ m_timers' = m_timers \ {Timer(f)}
        /\ due' = due \ {Timer(f)}
        /\ UNCHANGED <<lapsed, ctx>>
  /\ UNCHANGED <<threads, call, attempt, cancelled, queue, cancelling, ready, fd>>

\* yield() returns.
Resume(f) ==
  /\ Free
  /\ queue # <<>> /\ Head(queue) = f
  /\ Goto(f, "wait", "woken")
  /\ queue' = Tail(queue)
  /\ UNCHANGED <<threads, call, attempt, cancelled, result, timerVars,
                 cancelling, ctx, ready, fd>>

\* timer->cancel(): too late when the callback is in the queue already.
CancelTimer(f) ==
  /\ Goto(f, "woken", "check")
  /\ m_timers' = m_timers \ {Timer(f)}
  /\ due' = due \ {Timer(f)}
  /\ UNCHANGED <<threads, call, attempt, cancelled, result, lapsed, queue,
                 cancelling, ctx, ready, fd>>

\* Faulty: connect asks for SO_ERROR only.
CheckTrusts(f) ==
  /\ \/ /\ ~InConnect(f)
        /\ IF cancelled[f] THEN Returns(f, "check", "timeout") /\ UNCHANGED attempt
           ELSE /\ Goto(f, "check", "try")
                /\ attempt' = [attempt EXCEPT ![f] = @ + 1]
                /\ UNCHANGED result
     \/ /\ InConnect(f)
        /\ Returns(f, "check", IF fd = "closed" THEN "error" ELSE "ok")
        /\ UNCHANGED attempt
  /\ UNCHANGED <<threads, call, cancelled, timerVars, queue, cancelling, ctx,
                 ready, fd>>

\* A call that was cancelled timed out.  Otherwise do_io() tries again;
\* connect asks for SO_ERROR, which is 0 while nothing has happened.
Check(f) ==
  /\ \/ /\ cancelled[f]
        /\ Returns(f, "check", "timeout")
        /\ UNCHANGED attempt
     \/ /\ ~cancelled[f] /\ ~InConnect(f)
        /\ attempt[f] < MaxAttempts    \* bound
        /\ Goto(f, "check", "try")
        /\ attempt' = [attempt EXCEPT ![f] = @ + 1]
        /\ UNCHANGED result
     \/ /\ ~cancelled[f] /\ InConnect(f)
        /\ \/ fd # "closed" /\ Returns(f, "check", "ok")
           \/ /\ fd = "closed" \/ EventOf[f] \in ready
              /\ Returns(f, "check", "error")
        /\ UNCHANGED attempt
  /\ UNCHANGED <<threads, call, cancelled, timerVars, queue, cancelling, ctx,
                 ready, fd>>

-----------------------------------------------------------------------------
(* The callback of a timer.                                                *)

\* Faulty: the callback keeps the timer_info alive, and it is that of the fiber.
AliveForever(tm) == pc[tm[1]] # "out"

\* Does winfo.lock() find the timer_info of the call that armed the timer?
Alive(tm) == call[tm[1]] = tm[2] /\ pc[tm[1]] # "out"

Callback(tm) ==
  /\ Free
  /\ queue # <<>> /\ Head(queue) = tm
  /\ queue' = Tail(queue)
  /\ IF Alive(tm) /\ ~cancelled[tm[1]]
     THEN /\ cancelled' = [cancelled EXCEPT ![tm[1]] = TRUE]
          /\ cancelling' = cancelling \cup {tm}
     ELSE UNCHANGED <<cancelled, cancelling>>
  /\ UNCHANGED <<threads, pc, call, attempt, result, timerVars, ctx, ready, fd>>

\* Faulty: the event stays registered.
TriggerKeeps(events) ==
  /\ UNCHANGED ctx
  /\ queue' = queue \o SetToSeq({ctx[e] : e \in events})

\* Some registered events are removed and their fibers scheduled.
Trigger(events) ==
  /\ ctx' = [e \in Events |-> IF e \in events THEN NoFiber ELSE ctx[e]]
  /\ queue' = queue \o SetToSeq({ctx[e] : e \in events})

Registered == {e \in Events : ctx[e] # NoFiber}

\* Faulty: the call is only marked as timed out.
CancelEventNot(tm) ==
  /\ tm \in cancelling
  /\ cancelling' = cancelling \ {tm}
  /\ UNCHANGED <<threads, fiberVars, timerVars, queue, ctx, ready, fd>>

\* cancelEvent(): nothing to do when the event is gone; epoll_ctl fails on a
\* closed descriptor.
CancelEvent(tm) ==
  /\ tm \in cancelling
  /\ cancelling' = cancelling \ {tm}
  /\ IF EventOf[tm[1]] \in Registered /\ fd # "closed"
     THEN Trigger({EventOf[tm[1]]})
     ELSE UNCHANGED <<ctx, queue>>
  /\ UNCHANGED <<threads, fiberVars, timerVars, ready, fd>>

-----------------------------------------------------------------------------
(* An idle thread, and close().                                            *)

\* listExpiredCb(), and schedule() for what it lists.
Expire ==
  /\ Free
  /\ due # {}
  /\ m_timers' = m_timers \ due
  /\ due' = {}
  /\ \E s \in SetToSeqs(due) : queue' = queue \o s
  /\ UNCHANGED <<threads, fiberVars, lapsed, cancelling, ctx, ready, fd>>

\* What epoll_wait reports; a closed descriptor is not reported any more.
Poll ==
  /\ Free
  /\ fd # "closed"
  /\ ready \cap Registered # {}
  /\ Trigger(ready \cap Registered)
  /\ UNCHANGED <<threads, fiberVars, timerVars, cancelling, ready, fd>>

\* close(): cancelAll(), then FdManager::del(), then the system call.
CloseCancel ==
  /\ Free
  /\ fd = "open"
  /\ fd' = "cancelled"
  /\ Trigger(Registered)
  /\ UNCHANGED <<threads, fiberVars, timerVars, cancelling, ready>>

CloseDelete ==
  /\ fd = "cancelled"
  /\ fd' = "deleted"
  /\ UNCHANGED <<threads, fiberVars, timerVars, queue, cancelling, ctx, ready>>

CloseSystem ==
  /\ fd = "deleted"
  /\ fd' = "closed"
  /\ ready' = {}
  /\ UNCHANGED <<threads, fiberVars, timerVars, queue, cancelling, ctx>>

-----------------------------------------------------------------------------
(* The clock and the peer.                                                 *)

Elapse(tm) ==
  /\ tm \in m_timers \ due
  /\ due' = due \cup {tm}
  /\ lapsed' = [lapsed EXCEPT ![tm[1]] = @ \/ tm[2] = call[tm[1]]]
  /\ UNCHANGED <<threads, fiberVars, m_timers, queue, cancelling, ctx, ready, fd>>

Arrive(e) ==
  /\ fd # "closed"
  /\ e \in Events \ ready
  /\ ready' = ready \cup {e}
  /\ UNCHANGED <<threads, fiberVars, timerVars, queue, cancelling, ctx, fd>>

-----------------------------------------------------------------------------
Call(f) ==
  Try(f) \/ Arm(f) \/ Register(f) \/ Resume(f) \/ CancelTimer(f) \/ Check(f)

TimerSteps(tm) == Callback(tm) \/ CancelEvent(tm)

Next ==
  \/ \E f \in Fibers : Enter(f) \/ Call(f)
  \/ \E tm \in Timers : TimerSteps(tm) \/ Elapse(tm)
  \/ Expire \/ Poll
  \/ CloseCancel \/ CloseDelete \/ CloseSystem
  \/ \E e \in Events : Arrive(e)

Spec == Init /\ [][Next]_vars

\* Threads keep executing what they took and what is queued, idle threads
\* poll, and the time of a timer comes.
FairSpec ==
  /\ Spec
  /\ \A f \in Fibers : WF_vars(Call(f))
  /\ \A tm \in Timers : WF_vars(TimerSteps(tm)) /\ WF_vars(Elapse(tm))
  /\ WF_vars(Expire) /\ WF_vars(Poll)
  /\ WF_vars(CloseDelete) /\ WF_vars(CloseSystem)
-----------------------------------------------------------------------------
(* Properties.                                                             *)

TypeOK ==
  /\ threads \in 1..MaxThreads
  /\ pc \in [Fibers -> Labels]
  /\ call \in [Fibers -> Nat] /\ \A f \in Fibers : call[f] <= CallsOf[f]
  /\ attempt \in [Fibers -> 0..MaxAttempts]
  /\ cancelled \in [Fibers -> BOOLEAN]
  /\ result \in [Fibers -> {"none", "ok", "timeout", "error"}]
  /\ m_timers \subseteq Timers /\ due \subseteq m_timers
  /\ lapsed \in [Fibers -> BOOLEAN]
  /\ queue \in Seq(Fibers \cup Timers)
  /\ cancelling \subseteq Timers
  /\ ctx \in [Events -> Fibers \cup {NoFiber}]
  /\ ready \subseteq Events
  /\ fd \in {"open", "cancelled", "deleted", "closed"}

\* Everything that will resume a fiber.
Wakers(f) ==
  Cardinality({e \in Events : ctx[e] = f})
  + Cardinality({i \in DOMAIN queue : queue[i] = f})

\* A fiber that waits is resumed by one thing: its event, the timeout and
\* close() may all come at once and schedule it a single time.  With one thread
\* that thing is not a socket that is closed, which would never wake it.
OneWaker ==
  /\ \A f \in Fibers : Wakers(f) = IF pc[f] = "wait" THEN 1 ELSE 0
  /\ threads = 1 /\ fd = "closed" => Registered = {}

\* Where the timers of a call are that may still cancel something.
Pending(f) ==
  {tm \in Timers : /\ tm[1] = f
                   /\ \/ tm \in m_timers \cup cancelling
                      \/ \E i \in DOMAIN queue : queue[i] = tm}

\* With one thread, a call with a timeout that waits will be cancelled: its
\* timer is armed or its callback is under way.
TimeoutCovers ==
  \A f \in Timed : threads = 1 /\ ctx[EventOf[f]] = f => Timer(f) \in Pending(f)

\* A timer acts on its own call only: none stays armed when its call has ended,
\* and a call times out only after its own time has come, whatever callback of
\* an earlier call of the fiber is run late.
TimeoutIsOwn ==
  /\ \A tm \in m_timers : tm[2] = call[tm[1]] /\ pc[tm[1]] # "out"
  /\ \A f \in Fibers : pc[f] = "out" /\ result[f] = "timeout" => lapsed[f]

\* With one thread connect() reports success only when there is a connection.
ConnectHonest ==
  [][\A f \in Fibers :
       threads = 1 /\ InConnect(f) /\ pc[f] # "out"
         /\ pc'[f] = "out" /\ result'[f] = "ok"
         => EventOf[f] \in ready]_vars

\* With one thread a call with a timeout ends, whatever the peer does.
TimedCallsEnd ==
  \A f \in Timed : threads = 1 /\ pc[f] # "out" ~> pc[f] = "out"
-----------------------------------------------------------------------------
\* What a comment says and the code does not keep with two threads: TLC refutes
\* it with the constants of Hook.cfg (README, section 5).  setRecvTimeout()
\* "sets the receive timeout" (socket.h:122).
TimeoutAlwaysCovers ==
  \A f \in Timed : ctx[EventOf[f]] = f => Timer(f) \in Pending(f)
=============================================================================
