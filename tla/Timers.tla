------------------------------- MODULE Timers -------------------------------
(***************************************************************************)
(* Timer and TimerManager of timer.cc, with the loop of IOManager::idle()  *)
(* by which the threads of a scheduler wait for the first timer and call   *)
(* what has expired.  What is done under the lock of the manager is one    *)
(* step.  The clock is read before the lock is taken, by listExpiredCb()   *)
(* and by the constructor of a Timer.                                      *)
(***************************************************************************)
EXTENDS Integers, FiniteSets, FiniteSetsExt

CONSTANTS
  Addresses,     \* of the timers; a timer that is freed is not made again
  Threads,       \* that poll
  Users,         \* fibers that add, refresh, reset and cancel timers
  Periods,       \* the milliseconds of a timer
  MaxTimeout,    \* MAX_TIMEOUT of idle()
  Boot, MaxNow,  \* the clock when the manager is made; bound: the last reading
  Hour, Wrap     \* 60 * 60 * 1000 and 2^64

ASSUME TimersAssumption ==
  /\ Addresses \subseteq Nat /\ IsFiniteSet(Addresses) /\ Threads # {}
  /\ Periods \subseteq Nat \ {0} /\ MaxTimeout \in Nat
  /\ Boot \in Nat /\ MaxNow \in Nat /\ Hour \in Nat /\ Wrap \in Nat
  /\ Boot <= MaxNow /\ MaxNow < Wrap /\ Hour < Wrap

VARIABLES
  now,
  timer,         \* m_next, m_ms, m_recurring and whether m_cb is set
  m_timers,
  m_tickled,
  m_previouseTime,
  edge,          \* an edge of the tickle pipe, not yet delivered
  phase,         \* where each thread is in its loop
  seen,          \* until when it sleeps, then the clock as it read it
  errand,        \* what each user is about to do
  calls,         \* callbacks that are scheduled and not yet run
  ran, told      \* history: callbacks run, the answer of cancel()

timersVars == <<now, timer, m_timers, m_tickled, m_previouseTime, edge, phase,
                seen, errand, calls, ran, told>>
manager == <<m_timers, m_tickled, m_previouseTime>>
polling == <<phase, seen, calls>>
history == <<ran, told>>

Unmade == [next |-> 0, ms |-> 0, recurring |-> FALSE, cb |-> FALSE, made |-> FALSE]
\* what there is to know of a timer without m_cb
Over(t) == [timer[t] EXCEPT !.next = 0, !.ms = 0, !.cb = FALSE]
Nothing == [to |-> "nothing"]

TimersInit ==
  /\ now = Boot
  /\ timer = [t \in Addresses |-> Unmade]
  /\ m_timers = {} /\ m_tickled = FALSE /\ m_previouseTime = Boot
  /\ edge = FALSE
  /\ phase = [p \in Threads |-> "busy"]
  /\ seen = [p \in Threads |-> Boot]
  /\ errand = [u \in Users |-> Nothing]
  /\ calls = [t \in Addresses |-> 0]
  /\ ran = [t \in Addresses |-> 0] /\ told = [t \in Addresses |-> "nothing"]

-----------------------------------------------------------------------------
(* The users.                                                              *)

Before(s, t) == \/ timer[s].next < timer[t].next
                \/ timer[s].next = timer[t].next /\ s < t
First == CHOOSE t \in m_timers : \A s \in m_timers \ {t} : Before(t, s)

\* addTimer(ms, cb, recurring): the constructor
NewTimer(u) ==
  /\ errand[u] = Nothing
  /\ \E t \in Addresses, ms \in Periods, recurring \in BOOLEAN :
       /\ ~timer[t].made /\ now + ms <= MaxNow
       /\ timer' = [timer EXCEPT ![t] =
            [next |-> now + ms, ms |-> ms, recurring |-> recurring,
             cb |-> TRUE, made |-> TRUE]]
       /\ errand' = [errand EXCEPT ![u] = [to |-> "insert", timer |-> t]]
  /\ UNCHANGED <<now, manager, edge, polling, history>>

\* addTimer(val, lock): who puts a timer in front tickles, after the unlock
Put(u, t, next) ==
  LET others == m_timers \ {t}
      front == ~m_tickled /\ \A s \in others :
                 timer[s].next > next \/ (timer[s].next = next /\ s > t)
  IN /\ m_timers' = others \cup {t}
     /\ m_tickled' = (m_tickled \/ front)
     /\ errand' = [errand EXCEPT ![u] = IF front THEN [to |-> "tickle"] ELSE Nothing]
Insert(u) ==
  /\ errand[u].to = "insert"
  /\ Put(u, errand[u].timer, timer[errand[u].timer].next)
  /\ UNCHANGED <<now, timer, m_previouseTime, edge, polling, history>>

\* onTimerInsertedAtFront() is IOManager::tickle()
Tickle(u) ==
  /\ errand[u].to = "tickle"
  /\ edge' = (edge \/ \E p \in Threads : phase[p] # "busy")
  /\ errand' = [errand EXCEPT ![u] = Nothing]
  /\ UNCHANGED <<now, timer, manager, polling, history>>

\* a timer somebody has a pointer to
Made(t) == timer[t].made /\ \A u \in Users : errand[u].to = "insert" => errand[u].timer # t

Cancel(t) ==
  /\ Made(t) /\ told[t] = "nothing"       \* bound: the first call tells
  /\ timer' = [timer EXCEPT ![t] = Over(t)]
  /\ m_timers' = m_timers \ {t}
  /\ told' = [told EXCEPT ![t] = IF timer[t].cb THEN "yes" ELSE "no"]
  /\ UNCHANGED <<now, m_tickled, m_previouseTime, edge, polling, errand, ran>>
Refresh(t) ==
  /\ Made(t) /\ timer[t].cb /\ t \in m_timers
  /\ now + timer[t].ms <= MaxNow
  /\ timer' = [timer EXCEPT ![t].next = now + timer[t].ms]
  /\ UNCHANGED <<now, manager, edge, polling, errand, history>>
Reset(u, t) ==
  /\ errand[u] = Nothing
  /\ Made(t) /\ timer[t].cb /\ t \in m_timers
  /\ \E ms \in Periods, from_now \in BOOLEAN :
       LET start == IF from_now THEN now ELSE timer[t].next - timer[t].ms
       IN /\ ms # timer[t].ms \/ from_now
          /\ start + ms <= MaxNow
          /\ timer' = [timer EXCEPT ![t].ms = ms, ![t].next = start + ms]
          /\ Put(u, t, start + ms)
  /\ UNCHANGED <<now, m_previouseTime, edge, polling, history>>

-----------------------------------------------------------------------------
(* The threads.                                                            *)

Enter(p, from, to) == phase[p] = from /\ phase' = [phase EXCEPT ![p] = to]

\* Faulty: m_tickled is reset by who tickles no more.
GetNextTimerTickled(p) ==
  /\ Enter(p, "busy", "asleep") /\ \A t \in Addresses : calls[t] = 0
  /\ seen' = [seen EXCEPT ![p] = IF m_timers = {} THEN now + MaxTimeout
       ELSE now + Min({MaxTimeout, Max({0, timer[First].next - now})})]
  /\ UNCHANGED <<now, timer, manager, edge, errand, calls, history>>
\* with no task left the thread counts as idle: stopping(timeout), and then
\* epoll_wait(timeout)
GetNextTimer(p) ==
  /\ Enter(p, "busy", "asleep") /\ \A t \in Addresses : calls[t] = 0
  /\ m_tickled' = FALSE
  /\ seen' = [seen EXCEPT ![p] = IF m_timers = {} THEN now + MaxTimeout
       ELSE now + Min({MaxTimeout, Max({0, timer[First].next - now})})]
  /\ UNCHANGED <<now, timer, m_timers, m_previouseTime, edge, errand, calls, history>>
\* epoll_wait() returns, at a timeout, an edge of the pipe or another event;
\* listExpiredCb() reads the clock
Wake(p) ==
  /\ \E tickled \in {edge, FALSE} :
       /\ Enter(p, "asleep", IF tickled THEN "list and drain" ELSE "list")
       /\ edge' = (edge /\ ~tickled)
  /\ seen' = [seen EXCEPT ![p] = now]
  /\ UNCHANGED <<now, timer, manager, errand, calls, history>>

\* Faulty: any step back is one of an hour.
RolloverAtOnce(now_ms) == now_ms < m_previouseTime
\* detectClockRollover(), in arithmetic modulo 2^64
Rollover(now_ms) ==
  now_ms < m_previouseTime /\ now_ms < (m_previouseTime - Hour) % Wrap
\* Faulty: of a timer that is called once m_cb stays.
ExpiredKeepingCb(t, now_ms) ==
  [timer[t] EXCEPT !.next = IF timer[t].recurring THEN now_ms + timer[t].ms ELSE @]
Expired(t, now_ms) ==
  IF timer[t].recurring THEN [timer[t] EXCEPT !.next = now_ms + timer[t].ms]
  ELSE Over(t)
Due(now_ms) == {t \in m_timers : Rollover(now_ms) \/ timer[t].next <= now_ms}
\* listExpiredCb(): each callback is scheduled; then the pipe is drained
ListExpired(p) ==
  LET due == Due(seen[p])
  IN /\ phase[p] \in {"list", "list and drain"}
     /\ phase' = [phase EXCEPT ![p] = "busy"]
     /\ m_previouseTime' = IF m_timers = {} THEN m_previouseTime ELSE seen[p]
     /\ timer' = [t \in Addresses |-> IF t \in due THEN Expired(t, seen[p]) ELSE timer[t]]
     /\ m_timers' = {t \in m_timers : t \in due => timer[t].recurring}
     /\ calls' = [t \in Addresses |-> IF t \in due THEN calls[t] + 1 ELSE calls[t]]
     /\ edge' = (edge /\ phase[p] = "list")
     /\ seen' = [seen EXCEPT ![p] = Boot]
     /\ UNCHANGED <<now, m_tickled, errand, history>>

\* The run loop: scheduled callbacks, and other tasks.
RunCallback(p, t) ==
  /\ phase[p] = "busy" /\ calls[t] > 0
  /\ calls' = [calls EXCEPT ![t] = @ - 1]
  /\ ran' = [ran EXCEPT ![t] = IF timer[t].recurring THEN @ ELSE @ + 1]
  /\ UNCHANGED <<now, timer, manager, edge, phase, seen, errand, told>>
TimePasses == /\ now < MaxNow /\ now' = now + 1
              /\ UNCHANGED <<timer, manager, edge, polling, errand, history>>

ThreadStep(p) == \/ GetNextTimer(p) \/ ListExpired(p)
                 \/ \E t \in Addresses : RunCallback(p, t)
TimersNext ==
  \/ \E u \in Users : NewTimer(u) \/ Insert(u) \/ Tickle(u) \/ \E t \in Addresses : Reset(u, t)
  \/ \E t \in Addresses : Cancel(t) \/ Refresh(t)
  \/ \E p \in Threads : ThreadStep(p) \/ Wake(p)
  \/ TimePasses

\* The clock goes on, a user that has begun ends, a thread comes back from
\* its tasks, and epoll_wait() returns at its timeout or an edge.
TimersFairness ==
  /\ WF_timersVars(TimePasses)
  /\ \A u \in Users : WF_timersVars(Insert(u) \/ Tickle(u))
  /\ \A p \in Threads : /\ WF_timersVars(ThreadStep(p))
                        /\ WF_timersVars((edge \/ now >= seen[p]) /\ Wake(p))
TimersSpec == TimersInit /\ [][TimersNext]_timersVars /\ TimersFairness

-----------------------------------------------------------------------------
(***************************************************************************)
(* No callback is taken before the time of its timer, though threads read  *)
(* the clock before they take the lock and so come with different times:   *)
(* it holds when the machine has been up for an hour as the manager is     *)
(* made, and fails when it has not.                                        *)
(***************************************************************************)
OnTime == [][\A t \in Addresses : calls'[t] > calls[t] => timer[t].next <= now]_timersVars

(***************************************************************************)
(* A timer that is called once is called or cancelled, and cancel() tells  *)
(* which: after TRUE its callback does not run, not even one that a thread *)
(* has taken already; FALSE means that it has been taken.                  *)
(***************************************************************************)
CancelTells ==
  \A t \in Addresses :
    Made(t) /\ ~timer[t].recurring =>
      ran[t] + calls[t] = IF t \in m_timers \/ told[t] = "yes" THEN 0 ELSE 1

(***************************************************************************)
(* When every thread sleeps, one of them wakes by the time of the first    *)
(* timer, or is about to be woken: no tickle is lost though m_tickled      *)
(* keeps users from tickling and every thread that polls resets it.        *)
(***************************************************************************)
SomeoneWakes ==
  \/ edge \/ m_timers = {}
  \/ \E p \in Threads : phase[p] # "asleep" \/ seen[p] <= Max({now, timer[First].next})
  \/ \E u \in Users : errand[u].to = "tickle"
=============================================================================
