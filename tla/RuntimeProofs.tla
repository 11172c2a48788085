--------------------------- MODULE RuntimeProofs ---------------------------
(***************************************************************************)
(* What holds of the timers (timer.cc, with the loop of IOManager::idle()) *)
(* and of what the runtime keeps of each descriptor (fd_manager.cc,        *)
(* iomanager.cc, hook.cc), for any timers, threads, users and callers, and *)
(* however long the clock runs; and of the settings that are loaded from a *)
(* file (config.cc, config.h, log.cpp), for any files, loggers and loads.  *)
(***************************************************************************)
EXTENDS Timers, Descriptors, Settings, SequenceLemmas, TLAPS

-----------------------------------------------------------------------------
(* Timers: the inductive invariant.                                        *)

Timer == [next : Nat, ms : Nat, recurring : BOOLEAN, cb : BOOLEAN, made : BOOLEAN]
Errands == {Nothing, [to |-> "tickle"]} \cup [to : {"insert"}, timer : Addresses]
TimersTypeOK ==
  /\ now \in Nat /\ m_previouseTime \in Nat
  /\ timer \in [Addresses -> Timer] /\ m_timers \in SUBSET Addresses
  /\ m_tickled \in BOOLEAN /\ edge \in BOOLEAN
  /\ phase \in [Threads -> {"busy", "asleep", "list", "list and drain"}]
  /\ seen \in [Threads -> Nat]
  /\ errand \in [Users -> Errands]
  /\ calls \in [Addresses -> Nat] /\ ran \in [Addresses -> Nat]
  /\ told \in [Addresses -> {"nothing", "yes", "no"}]

\* The clock has not been read ahead.
Clock ==
  /\ Boot <= m_previouseTime /\ m_previouseTime <= now /\ now <= MaxNow
  /\ \A p \in Threads :
       Boot <= seen[p] /\ (phase[p] \in {"list", "list and drain"} => seen[p] <= now)

\* A timer that waits for its time was started in the past, by a user that has the
\* pointer; one that is about to be inserted has one user, and nothing has happened to it.
Inserts(u, t) == errand[u] = [to |-> "insert", timer |-> t]
Started(t) ==
  /\ timer[t].made /\ timer[t].cb /\ told[t] = "nothing"
  /\ timer[t].ms <= timer[t].next /\ timer[t].next <= now + timer[t].ms
Inserted ==
  /\ \A t \in m_timers : Started(t) /\ \A u \in Users : ~Inserts(u, t)
  /\ \A t \in Addresses, u \in Users : Inserts(u, t) =>
       /\ Started(t) /\ calls[t] = 0 /\ ran[t] = 0
       /\ \A v \in Users : Inserts(v, t) => v = u
  /\ \A t \in Addresses :
       timer[t].cb => t \in m_timers \/ \E u \in Users : Inserts(u, t)
\* What cancel() tells, with Inserts(u, t).
Counted ==
  \A t \in Addresses :
    timer[t].made /\ ~timer[t].recurring /\ (\A u \in Users : ~Inserts(u, t)) =>
      ran[t] + calls[t] = IF t \in m_timers \/ told[t] = "yes" THEN 0 ELSE 1
Fresh ==
  \A t \in Addresses : ~timer[t].made =>
    /\ ~timer[t].cb /\ t \notin m_timers /\ told[t] = "nothing"
    /\ calls[t] = 0 /\ ran[t] = 0

\* m_tickled keeps users from tickling while somebody polls or is about to.
Attended == \/ edge \/ \E p \in Threads : phase[p] # "asleep"
            \/ \E u \in Users : errand[u] = [to |-> "tickle"]
Tickled == m_tickled => Attended
\* A thread that has slept long enough, or wakes before any timer.
InTime(p) == seen[p] <= now \/ \A t \in m_timers : seen[p] <= timer[t].next
FirstAwaited == m_timers # {} => Attended \/ \E p \in Threads : InTime(p)

TimersIInv == /\ TimersTypeOK /\ Clock /\ Inserted /\ Fresh /\ Counted
              /\ Tickled /\ FirstAwaited

-----------------------------------------------------------------------------
(* The first timer.                                                        *)

\* *m_timers.begin()
LEMMA FirstIsFirst ==
  ASSUME TimersTypeOK, m_timers # {}
  PROVE  First \in m_timers /\ \A t \in m_timers : timer[First].next <= timer[t].next
  <1>1. \A t \in m_timers : timer[t].next \in Nat /\ t \in Nat
    BY TimersAssumption DEF TimersTypeOK, Timer
  <1>2. PICK s \in m_timers : \A t \in m_timers : timer[s].next <= timer[t].next
    <2>1. \E m \in {timer[t].next : t \in m_timers} :
            \A n \in {timer[t].next : t \in m_timers} : m <= n
      BY <1>1, LeastNumber
    <2> QED
      BY <2>1
  <1>3. PICK f \in {t \in m_timers : timer[t].next = timer[s].next} :
          \A t \in {t \in m_timers : timer[t].next = timer[s].next} : f <= t
    <2> DEFINE T == {t \in m_timers : timer[t].next = timer[s].next}
    <2>1. T \subseteq Nat /\ T # {}
      BY <1>1
    <2> HIDE DEF T
    <2>2. \E m \in T : \A n \in T : m <= n
      BY <2>1, LeastNumber
    <2> QED
      BY <2>2 DEF T
  <1>4. \A t \in m_timers \ {f} : Before(f, t)
    BY <1>1, <1>2, <1>3 DEF Before
  <1>5. First \in m_timers /\ \A t \in m_timers \ {First} : Before(First, t)
    BY <1>3, <1>4 DEF First
  <1> QED
    BY <1>1, <1>5 DEF Before

LEMMA MaxOfTwo ==
  ASSUME NEW a \in Int, NEW b \in Int
  PROVE  Max({a, b}) = IF a >= b THEN a ELSE b
  BY DEF Max
LEMMA MinOfTwo ==
  ASSUME NEW a \in Int, NEW b \in Int
  PROVE  Min({a, b}) = IF a <= b THEN a ELSE b
  BY DEF Min

-----------------------------------------------------------------------------
(* Timers: one lemma for each action.                                      *)

LEMMA Fields ==
  ASSUME TimersTypeOK, NEW t \in Addresses
  PROVE  /\ timer[t].next \in Nat /\ timer[t].ms \in Nat /\ timer[t].recurring \in BOOLEAN
         /\ timer[t].cb \in BOOLEAN /\ timer[t].made \in BOOLEAN
         /\ calls[t] \in Nat /\ ran[t] \in Nat
  BY DEF TimersTypeOK, Timer

LEMMA ErrandOf ==
  ASSUME TimersTypeOK, NEW u \in Users
  PROVE  \/ errand[u] = Nothing /\ errand[u].to = "nothing"
         \/ errand[u] = [to |-> "tickle"] /\ errand[u].to = "tickle"
         \/ /\ errand[u].to = "insert" /\ errand[u].timer \in Addresses
            /\ Inserts(u, errand[u].timer)
  <1>1. errand[u] \in Errands
    BY DEF TimersTypeOK
  <1>2. CASE errand[u] = Nothing
    BY <1>2 DEF Nothing
  <1>3. CASE errand[u] = [to |-> "tickle"]
    BY <1>3
  <1>4. CASE errand[u] \in [to : {"insert"}, timer : Addresses]
    BY <1>4 DEF Inserts
  <1> QED
    BY <1>1, <1>2, <1>3, <1>4 DEF Errands

LEMMA TheClock ==
  ASSUME TimersIInv
  PROVE  /\ now \in Nat /\ m_previouseTime \in Nat /\ Boot \in Nat /\ MaxTimeout \in Nat
         /\ Boot <= m_previouseTime /\ m_previouseTime <= now /\ Boot <= now
         /\ \A p \in Threads : seen[p] \in Nat /\ Boot <= seen[p]
         /\ now <= now
  <1>1. Boot \in Nat /\ MaxTimeout \in Nat
    BY TimersAssumption
  <1>2. now \in Nat /\ m_previouseTime \in Nat /\ seen \in [Threads -> Nat]
    BY DEF TimersIInv, TimersTypeOK
  <1>3. \A p \in Threads : seen[p] \in Nat /\ Boot <= seen[p]
    BY <1>2 DEF TimersIInv, Clock
  <1>4. Boot <= m_previouseTime /\ m_previouseTime <= now
    BY DEF TimersIInv, Clock
  <1> QED
    BY <1>1, <1>2, <1>3, <1>4

\* A step after which the timers are what they were.
LEMMA Undisturbed ==
  ASSUME TimersIInv, UNCHANGED <<timer, m_timers, calls, ran, told>>,
         now' \in Nat, now <= now',
         \A u \in Users, t \in Addresses : Inserts(u, t)' <=> Inserts(u, t)
  PROVE  Inserted' /\ Fresh' /\ Counted'
  <1>1. \A t \in Addresses : Started(t) => Started(t)'
    <2> SUFFICES ASSUME NEW t \in Addresses, Started(t) PROVE Started(t)'
      OBVIOUS
    <2>1. timer[t].next \in Nat /\ timer[t].ms \in Nat /\ now \in Nat
      BY Fields DEF TimersIInv, TimersTypeOK
    <2> QED
      BY <2>1 DEF Started
  <1>2. m_timers \subseteq Addresses
    BY DEF TimersIInv, TimersTypeOK
  <1>3. Inserted'
    BY <1>1, <1>2 DEF TimersIInv, Inserted
  <1>4. Fresh'
    BY DEF TimersIInv, Fresh
  <1>5. Counted'
    BY DEF TimersIInv, Counted
  <1> QED
    BY <1>3, <1>4, <1>5

\* An errand that is begun or ended and is no insertion.
LEMMA NoInsertion ==
  ASSUME NEW u \in Users, errand \in [Users -> Errands],
         \/ errand' = errand
         \/ errand[u] \in {Nothing, [to |-> "tickle"]} /\ \E e \in {Nothing, [to |-> "tickle"]} :
              errand' = [errand EXCEPT ![u] = e]
  PROVE  \A v \in Users, t \in Addresses : Inserts(v, t)' <=> Inserts(v, t)
  <1> SUFFICES ASSUME NEW v \in Users, NEW t \in Addresses
               PROVE  Inserts(v, t)' <=> Inserts(v, t)
    OBVIOUS
  <1>1. \A e \in {Nothing, [to |-> "tickle"]} : e # [to |-> "insert", timer |-> t]
    BY DEF Nothing
  <1>2. CASE errand' = errand
    BY <1>2 DEF Inserts
  <1>3. CASE errand[u] \in {Nothing, [to |-> "tickle"]} /\ \E e \in {Nothing, [to |-> "tickle"]} :
               errand' = [errand EXCEPT ![u] = e]
    BY <1>1, <1>3 DEF Inserts
  <1> QED
    BY <1>2, <1>3

LEMMA TickleIInv ==
  ASSUME TimersIInv, NEW u \in Users, Tickle(u)
  PROVE  TimersIInv'
  <1>1. /\ errand[u].to = "tickle" /\ errand' = [errand EXCEPT ![u] = Nothing]
        /\ edge' = (edge \/ \E p \in Threads : phase[p] # "busy")
        /\ UNCHANGED <<now, timer, manager, polling, history>>
    BY DEF Tickle
  <1>2. errand[u] = [to |-> "tickle"]
    BY <1>1, ErrandOf DEF TimersIInv
  <1>3. TimersTypeOK'
    <2>1. Nothing \in Errands
      BY DEF Errands
    <2>2. errand' \in [Users -> Errands]
      BY <1>1, <2>1 DEF TimersIInv, TimersTypeOK
    <2>3. edge' \in BOOLEAN
      BY <1>1 DEF TimersIInv, TimersTypeOK
    <2> QED
      BY <1>1, <2>2, <2>3 DEF TimersIInv, TimersTypeOK, manager, polling, history
  <1>4. Clock'
    BY <1>1 DEF TimersIInv, Clock, manager, polling
  <1>5. \A v \in Users, t \in Addresses : Inserts(v, t)' <=> Inserts(v, t)
    BY <1>1, <1>2, NoInsertion DEF TimersIInv, TimersTypeOK
  <1>6. Inserted' /\ Fresh' /\ Counted'
    BY <1>1, <1>5, TheClock, Undisturbed DEF manager, polling, history
  <1>7. Attended'
    BY <1>1, TimersAssumption DEF Attended, polling, TimersIInv, TimersTypeOK
  <1>8. Tickled' /\ FirstAwaited'
    BY <1>7 DEF Tickled, FirstAwaited
  <1> QED
    BY <1>3, <1>4, <1>6, <1>8 DEF TimersIInv

\* What getNextTimer() and the cap of idle() make of the first timer.
LEMMA Timeout ==
  ASSUME TimersTypeOK, m_timers # {}
  PROVE  LET wait == Min({MaxTimeout, Max({0, timer[First].next - now})})
         IN wait \in Nat /\ (now + wait <= now \/ now + wait <= timer[First].next)
  <1>1. timer[First].next \in Nat /\ now \in Nat /\ MaxTimeout \in Nat
    BY FirstIsFirst, Fields, TimersAssumption DEF TimersTypeOK
  <1>2. PICK d \in Int : d = timer[First].next - now
    BY <1>1
  <1>3. Max({0, d}) = IF 0 >= d THEN 0 ELSE d
    BY <1>2, MaxOfTwo
  <1>4. PICK m \in Nat : m = Max({0, d})
    BY <1>2, <1>3
  <1>5. Min({MaxTimeout, m}) = IF MaxTimeout <= m THEN MaxTimeout ELSE m
    BY <1>1, <1>4, MinOfTwo
  <1>6. PICK n \in Nat : n = Min({MaxTimeout, m})
    BY <1>1, <1>4, <1>5
  <1>7. n <= m
    BY <1>1, <1>4, <1>5, <1>6
  <1>8. m <= 0 \/ m <= d
    BY <1>2, <1>3, <1>4
  <1> QED
    BY <1>1, <1>2, <1>4, <1>6, <1>7, <1>8

LEMMA GetNextTimerIInv ==
  ASSUME TimersIInv, NEW p \in Threads, GetNextTimer(p)
  PROVE  TimersIInv'
  <1>1. /\ phase' = [phase EXCEPT ![p] = "asleep"] /\ m_tickled' = FALSE
        /\ UNCHANGED <<now, timer, m_timers, m_previouseTime, edge, errand, calls, history>>
    BY DEF GetNextTimer, Enter
  <1>2. PICK until \in Nat :
          /\ seen' = [seen EXCEPT ![p] = until] /\ now <= until
          /\ m_timers # {} => until <= now \/ until <= timer[First].next
    <2>1. now \in Nat /\ MaxTimeout \in Nat
      BY TheClock
    <2>2. CASE m_timers = {}
      <3>1. seen' = [seen EXCEPT ![p] = now + MaxTimeout]
        BY <2>2 DEF GetNextTimer
      <3>2. PICK until \in Nat : until = now + MaxTimeout
        BY <2>1
      <3>3. now <= until
        BY <2>1, <3>2
      <3> QED
        BY <2>2, <3>1, <3>2, <3>3
    <2>3. CASE m_timers # {}
      <3>1. PICK wait : wait = Min({MaxTimeout, Max({0, timer[First].next - now})})
        OBVIOUS
      <3>2. wait \in Nat /\ (now + wait <= now \/ now + wait <= timer[First].next)
        BY <2>3, <3>1, Timeout DEF TimersIInv
      <3>3. seen' = [seen EXCEPT ![p] = now + wait]
        BY <2>3, <3>1 DEF GetNextTimer
      <3>4. PICK until \in Nat : until = now + wait
        BY <2>1, <3>2
      <3>5. now <= until /\ (until <= now \/ until <= timer[First].next)
        BY <2>1, <3>2, <3>4
      <3> QED
        BY <3>3, <3>4, <3>5
    <2> QED
      BY <2>2, <2>3
  <1>3. TimersTypeOK'
    BY <1>1, <1>2 DEF TimersIInv, TimersTypeOK, history
  <1>4. Clock'
    <2>1. seen'[p] = until /\ \A q \in Threads \ {p} : seen'[q] = seen[q] /\ phase'[q] = phase[q]
      BY <1>1, <1>2 DEF TimersIInv, TimersTypeOK
    <2>2. phase'[p] = "asleep" /\ Boot <= until
      <3>1. phase'[p] = "asleep"
        BY <1>1 DEF TimersIInv, TimersTypeOK
      <3>2. Boot <= now /\ Boot \in Nat /\ now \in Nat
        BY TheClock
      <3> QED
        BY <1>2, <3>1, <3>2
    <2> QED
      BY <1>1, <2>1, <2>2 DEF TimersIInv, Clock
  <1>5. \A v \in Users, t \in Addresses : Inserts(v, t)' <=> Inserts(v, t)
    BY <1>1 DEF Inserts
  <1>6. Inserted' /\ Fresh' /\ Counted'
    BY <1>1, <1>5, TheClock, Undisturbed DEF history
  <1>7. Tickled'
    BY <1>1 DEF Tickled
  <1>8. FirstAwaited'
    <2> SUFFICES ASSUME m_timers # {} PROVE InTime(p)'
      BY <1>1 DEF FirstAwaited
    <2>1. seen'[p] = until
      BY <1>2 DEF TimersIInv, TimersTypeOK
    <2>2. CASE until <= now
      BY <1>1, <2>1, <2>2 DEF InTime
    <2>3. CASE until <= timer[First].next
      <3>1. \A t \in m_timers : timer[t].next \in Nat
        BY Fields DEF TimersIInv, TimersTypeOK
      <3>2. First \in m_timers /\ \A t \in m_timers : timer[First].next <= timer[t].next
        BY FirstIsFirst DEF TimersIInv
      <3>3. \A t \in m_timers : until <= timer[t].next
        BY <2>3, <3>1, <3>2
      <3> QED
        BY <1>1, <2>1, <3>3 DEF InTime
    <2> QED
      BY <1>2, <2>2, <2>3
  <1> QED
    BY <1>3, <1>4, <1>6, <1>7, <1>8 DEF TimersIInv

LEMMA WakeIInv ==
  ASSUME TimersIInv, NEW p \in Threads, Wake(p)
  PROVE  TimersIInv'
  <1>1. PICK to \in {"list", "list and drain"} : phase' = [phase EXCEPT ![p] = to]
    BY DEF Wake, Enter
  <1>2. /\ seen' = [seen EXCEPT ![p] = now] /\ edge' \in BOOLEAN
        /\ UNCHANGED <<now, timer, manager, errand, calls, history>>
    BY DEF Wake, TimersIInv, TimersTypeOK
  <1>3. TimersTypeOK'
    BY <1>1, <1>2 DEF TimersIInv, TimersTypeOK, manager, history
  <1>4. Clock'
    <2>1. seen'[p] = now /\ \A q \in Threads \ {p} : seen'[q] = seen[q] /\ phase'[q] = phase[q]
      BY <1>1, <1>2 DEF TimersIInv, TimersTypeOK
    <2> QED
      BY <1>2, <2>1, TheClock DEF TimersIInv, Clock, manager
  <1>5. \A v \in Users, t \in Addresses : Inserts(v, t)' <=> Inserts(v, t)
    BY <1>2 DEF Inserts
  <1>6. Inserted' /\ Fresh' /\ Counted'
    BY <1>2, <1>5, TheClock, Undisturbed DEF manager, history
  <1>7. Attended'
    BY <1>1 DEF Attended, TimersIInv, TimersTypeOK
  <1>8. Tickled' /\ FirstAwaited'
    BY <1>7 DEF Tickled, FirstAwaited
  <1> QED
    BY <1>3, <1>4, <1>6, <1>8 DEF TimersIInv

LEMMA TimePassesIInv ==
  ASSUME TimersIInv, TimePasses
  PROVE  TimersIInv'
  <1>1. /\ now' \in Nat /\ now <= now'
        /\ UNCHANGED <<timer, manager, edge, polling, errand, history>>
    <2>1. now' = now + 1 /\ UNCHANGED <<timer, manager, edge, polling, errand, history>>
      BY DEF TimePasses
    <2>2. now' \in Nat /\ now <= now'
      BY <2>1, TheClock
    <2> QED
      BY <2>1, <2>2
  <1>a. now' <= MaxNow
    <2>1. now < MaxNow /\ now' = now + 1
      BY DEF TimePasses
    <2> QED
      BY <2>1, TheClock, TimersAssumption
  <1>2. TimersTypeOK'
    BY <1>1 DEF TimersIInv, TimersTypeOK, manager, polling, history
  <1>3. Clock'
    <2>1. m_previouseTime <= now' /\ \A p \in Threads : seen[p] <= now => seen[p] <= now'
      BY <1>1, TheClock
    <2> QED
      BY <1>1, <1>a, <2>1 DEF TimersIInv, Clock, manager, polling
  <1>4. \A v \in Users, t \in Addresses : Inserts(v, t)' <=> Inserts(v, t)
    BY <1>1 DEF Inserts
  <1>5. Inserted' /\ Fresh' /\ Counted'
    BY <1>1, <1>4, Undisturbed DEF manager, polling, history
  <1>6. Attended' <=> Attended
    BY <1>1 DEF Attended, polling
  <1>7. \A p \in Threads : InTime(p) => InTime(p)'
    <2> SUFFICES ASSUME NEW p \in Threads, InTime(p) PROVE InTime(p)'
      OBVIOUS
    <2>1. seen[p] <= now => seen[p] <= now'
      BY <1>1, TheClock
    <2> QED
      BY <1>1, <2>1 DEF InTime, manager, polling
  <1>8. Tickled' /\ FirstAwaited'
    BY <1>1, <1>6, <1>7 DEF TimersIInv, Tickled, FirstAwaited, manager
  <1> QED
    BY <1>2, <1>3, <1>5, <1>8 DEF TimersIInv

LEMMA RunCallbackIInv ==
  ASSUME TimersIInv, NEW p \in Threads, NEW t \in Addresses, RunCallback(p, t)
  PROVE  TimersIInv'
  <1>1. /\ calls[t] > 0 /\ calls' = [calls EXCEPT ![t] = calls[t] - 1]
        /\ ran' = [ran EXCEPT ![t] = IF timer[t].recurring THEN ran[t] ELSE ran[t] + 1]
        /\ UNCHANGED <<now, timer, manager, edge, phase, seen, errand, told>>
    BY DEF RunCallback
  <1>2. calls[t] \in Nat /\ ran[t] \in Nat /\ calls[t] - 1 \in Nat /\ ran[t] + 1 \in Nat
    BY <1>1, Fields DEF TimersIInv
  <1>3. TimersTypeOK'
    <2>1. calls' \in [Addresses -> Nat] /\ ran' \in [Addresses -> Nat]
      BY <1>1, <1>2 DEF TimersIInv, TimersTypeOK
    <2> QED
      BY <1>1, <2>1 DEF TimersIInv, TimersTypeOK, manager
  <1>4. Clock'
    BY <1>1 DEF TimersIInv, Clock, manager
  <1>5. \A v \in Users, s \in Addresses : Inserts(v, s)' <=> Inserts(v, s)
    BY <1>1 DEF Inserts
  <1>6. \A s \in Addresses : Started(s)' <=> Started(s)
    BY <1>1 DEF Started
  <1>7. \A u \in Users : ~Inserts(u, t)
    BY <1>1 DEF TimersIInv, Inserted
  <1>8. \A s \in Addresses \ {t} : calls'[s] = calls[s] /\ ran'[s] = ran[s]
    BY <1>1 DEF TimersIInv, TimersTypeOK
  <1>9. m_timers \subseteq Addresses /\ m_timers' = m_timers
    BY <1>1 DEF TimersIInv, TimersTypeOK, manager
  <1>10. Inserted'
    BY <1>1, <1>5, <1>6, <1>7, <1>8, <1>9 DEF TimersIInv, Inserted
  <1>11. Fresh'
    BY <1>1, <1>8, <1>9 DEF TimersIInv, Fresh
  <1>12. ~timer[t].recurring => ran'[t] + calls'[t] = ran[t] + calls[t]
    <2>1. ~timer[t].recurring => calls'[t] = calls[t] - 1 /\ ran'[t] = ran[t] + 1
      BY <1>1 DEF TimersIInv, TimersTypeOK
    <2>2. ran[t] + 1 + (calls[t] - 1) = ran[t] + calls[t]
      BY <1>2
    <2> QED
      BY <2>1, <2>2
  <1>13. Counted'
    BY <1>1, <1>5, <1>8, <1>9, <1>12 DEF TimersIInv, Counted
  <1>14. Tickled' /\ FirstAwaited'
    BY <1>1 DEF TimersIInv, Tickled, FirstAwaited, Attended, InTime, manager
  <1> QED
    BY <1>3, <1>4, <1>10, <1>11, <1>13, <1>14 DEF TimersIInv

\* A started timer stays one as the clock goes on.
LEMMA StillStarted ==
  ASSUME TimersIInv, now' = now, NEW t \in Addresses, Started(t),
         timer'[t] = timer[t], told'[t] = told[t]
  PROVE  Started(t)'
  BY DEF Started

LEMMA NewTimerIInv ==
  ASSUME TimersIInv, NEW u \in Users, NewTimer(u)
  PROVE  TimersIInv'
  <1>1. PICK t \in Addresses, ms \in Periods, recurring \in BOOLEAN :
          /\ ~timer[t].made
          /\ timer' = [timer EXCEPT ![t] =
               [next |-> now + ms, ms |-> ms, recurring |-> recurring,
                cb |-> TRUE, made |-> TRUE]]
          /\ errand' = [errand EXCEPT ![u] = [to |-> "insert", timer |-> t]]
    BY DEF NewTimer
  <1>2. errand[u] = Nothing /\ UNCHANGED <<now, manager, edge, polling, history>>
    BY DEF NewTimer
  <1>3. ms \in Nat /\ now \in Nat /\ now + ms \in Nat
    BY TheClock, TimersAssumption
  <1>4. /\ timer'[t].next = now + ms /\ timer'[t].ms = ms /\ timer'[t].cb
        /\ timer'[t].made /\ timer'[t].recurring = recurring
    BY <1>1 DEF TimersIInv, TimersTypeOK
  <1>5. \A s \in Addresses \ {t} : timer'[s] = timer[s]
    BY <1>1 DEF TimersIInv, TimersTypeOK
  <1>6. \A v \in Users, s \in Addresses :
          Inserts(v, s)' <=> Inserts(v, s) \/ (v = u /\ s = t)
    <2> SUFFICES ASSUME NEW v \in Users, NEW s \in Addresses
                 PROVE  Inserts(v, s)' <=> Inserts(v, s) \/ (v = u /\ s = t)
      OBVIOUS
    <2>1. CASE v = u
      <3>1. errand'[v] = [to |-> "insert", timer |-> t]
        BY <1>1, <2>1 DEF TimersIInv, TimersTypeOK
      <3>2. errand[v] # [to |-> "insert", timer |-> s]
        BY <1>2, <2>1 DEF Nothing
      <3> QED
        BY <2>1, <3>1, <3>2 DEF Inserts
    <2>2. CASE v # u
      BY <1>1, <2>2 DEF Inserts, TimersIInv, TimersTypeOK
    <2> QED
      BY <2>1, <2>2
  <1>7. TimersTypeOK'
    <2>1. [next |-> now + ms, ms |-> ms, recurring |-> recurring,
           cb |-> TRUE, made |-> TRUE] \in Timer
      BY <1>3 DEF Timer
    <2>2. timer' \in [Addresses -> Timer]
      BY <1>1, <2>1 DEF TimersIInv, TimersTypeOK
    <2>3. [to |-> "insert", timer |-> t] \in Errands
      BY DEF Errands
    <2>4. errand' \in [Users -> Errands]
      BY <1>1, <2>3 DEF TimersIInv, TimersTypeOK
    <2> QED
      BY <1>2, <2>2, <2>4 DEF TimersIInv, TimersTypeOK, manager, polling, history
  <1>8. Clock'
    BY <1>2 DEF TimersIInv, Clock, manager, polling
  <1>9. UNCHANGED <<now, m_timers, calls, ran, told>> /\ m_timers \subseteq Addresses
    BY <1>2 DEF TimersIInv, TimersTypeOK, manager, polling, history
  <1>10. \A s \in Addresses \ {t} : Started(s) => Started(s)'
    BY <1>5, <1>9, StillStarted
  <1>11. /\ t \notin m_timers /\ told[t] = "nothing" /\ calls[t] = 0 /\ ran[t] = 0
         /\ \A v \in Users : ~Inserts(v, t)
    BY <1>1 DEF TimersIInv, Fresh, Inserted, Started
  <1>12. Started(t)'
    <2>1. ms <= now + ms /\ now + ms <= now + ms
      BY <1>3
    <2> QED
      BY <1>4, <1>9, <1>11, <2>1 DEF Started
  <1>13. Inserted'
    <2>1. \A s \in m_timers' : Started(s)' /\ \A v \in Users : ~Inserts(v, s)'
      BY <1>6, <1>9, <1>10, <1>11 DEF TimersIInv, Inserted
    <2>2. \A s \in Addresses, v \in Users : Inserts(v, s)' =>
            /\ Started(s)' /\ calls'[s] = 0 /\ ran'[s] = 0
            /\ \A w \in Users : Inserts(w, s)' => w = v
      BY <1>6, <1>9, <1>10, <1>11, <1>12 DEF TimersIInv, Inserted
    <2>3. \A s \in Addresses : timer'[s].cb => s \in m_timers' \/ \E v \in Users : Inserts(v, s)'
      BY <1>5, <1>6, <1>9 DEF TimersIInv, Inserted
    <2> QED
      BY <2>1, <2>2, <2>3 DEF Inserted
  <1>14. Fresh'
    BY <1>4, <1>5, <1>9 DEF TimersIInv, Fresh
  <1>15. Counted'
    BY <1>5, <1>6, <1>9 DEF TimersIInv, Counted
  <1>16. Attended => Attended'
    <2>1. errand[u] # [to |-> "tickle"]
      BY <1>2 DEF Nothing
    <2>2. \A v \in Users : errand[v] = [to |-> "tickle"] => errand'[v] = errand[v]
      BY <1>1, <2>1 DEF TimersIInv, TimersTypeOK
    <2> QED
      BY <1>2, <2>2 DEF Attended, polling
  <1>17. \A p \in Threads : InTime(p) => InTime(p)'
    BY <1>2, <1>5, <1>9, <1>11 DEF InTime, polling
  <1>18. Tickled' /\ FirstAwaited'
    BY <1>2, <1>16, <1>17 DEF TimersIInv, Tickled, FirstAwaited, manager
  <1> QED
    BY <1>7, <1>8, <1>13, <1>14, <1>15, <1>18 DEF TimersIInv

\* addTimer(val, lock) and what follows from it, for a timer that is ready to be put.
LEMMA PutAttends ==
  ASSUME TimersIInv, NEW u \in Users, NEW t \in Addresses, NEW next \in Nat,
         errand[u] # [to |-> "tickle"], Put(u, t, next),
         timer' \in [Addresses -> Timer], timer'[t].next = next,
         \A s \in Addresses \ {t} : timer'[s] = timer[s],
         UNCHANGED <<now, edge, polling>>,
         t \in m_timers => timer[t].made
  PROVE  Tickled' /\ FirstAwaited'
  <1> DEFINE others == m_timers \ {t}
             front == ~m_tickled /\ \A s \in others :
                        timer[s].next > next \/ (timer[s].next = next /\ s > t)
  <1>1. /\ m_timers' = others \cup {t} /\ m_tickled' = (m_tickled \/ front)
        /\ errand' = [errand EXCEPT ![u] = IF front THEN [to |-> "tickle"] ELSE Nothing]
    BY DEF Put
  <1>2. CASE front
    <2>1. errand'[u] = [to |-> "tickle"]
      BY <1>1, <1>2 DEF TimersIInv, TimersTypeOK
    <2> QED
      BY <2>1 DEF Tickled, FirstAwaited, Attended
  <1>3. CASE m_tickled
    <2>1. Attended
      BY <1>3 DEF TimersIInv, Tickled
    <2>2. \A v \in Users : errand[v] = [to |-> "tickle"] => errand'[v] = errand[v]
      BY <1>1 DEF TimersIInv, TimersTypeOK
    <2>3. Attended'
      BY <2>1, <2>2 DEF Attended, polling
    <2> QED
      BY <2>3 DEF Tickled, FirstAwaited
  <1>4. CASE ~front /\ ~m_tickled
    <2>1. ~m_tickled'
      BY <1>1, <1>4
    <2>2. PICK s \in others : ~(timer[s].next > next \/ (timer[s].next = next /\ s > t))
      BY <1>4
    <2>3. \A r \in Addresses : timer[r].next \in Nat
      BY Fields DEF TimersIInv
    <2>4. m_timers \subseteq Addresses
      BY DEF TimersIInv, TimersTypeOK
    <2>5. timer[s].next <= next
      BY <2>2, <2>3, <2>4
    <2>6. \A v \in Users : errand[v] = [to |-> "tickle"] => errand'[v] = errand[v]
      BY <1>1 DEF TimersIInv, TimersTypeOK
    <2>7. Attended => Attended'
      BY <2>6 DEF Attended, polling
    <2>8. ASSUME NEW p \in Threads, InTime(p) PROVE InTime(p)'
      <3>1. CASE seen[p] <= now
        BY <3>1 DEF InTime, polling
      <3>2. CASE \A r \in m_timers : seen[p] <= timer[r].next
        <4>1. seen[p] <= next
          BY <2>2, <2>3, <2>4, <2>5, <3>2, TheClock
        <4>2. \A r \in m_timers' : seen[p] <= timer'[r].next
          BY <1>1, <2>4, <3>2, <4>1
        <4> QED
          BY <4>2 DEF InTime, polling
      <3> QED
        BY <2>8, <3>1, <3>2 DEF InTime
    <2> QED
      BY <2>1, <2>2, <2>7, <2>8 DEF TimersIInv, Tickled, FirstAwaited
  <1> QED
    BY <1>2, <1>3, <1>4

LEMMA InsertIInv ==
  ASSUME TimersIInv, NEW u \in Users, Insert(u)
  PROVE  TimersIInv'
  <1>1. PICK t \in Addresses : t = errand[u].timer /\ Inserts(u, t)
    BY ErrandOf DEF Insert, TimersIInv
  <1>2. Put(u, t, timer[t].next) /\ UNCHANGED <<now, timer, m_previouseTime, edge, polling, history>>
    BY <1>1 DEF Insert
  <1>3. Started(t) /\ calls[t] = 0 /\ ran[t] = 0 /\ \A v \in Users : Inserts(v, t) => v = u
    BY <1>1 DEF TimersIInv, Inserted
  <1>4. errand[u] # [to |-> "tickle"]
    BY <1>1 DEF Inserts
  <1>5. PICK e \in {Nothing, [to |-> "tickle"]} : errand' = [errand EXCEPT ![u] = e]
    BY <1>2 DEF Put
  <1>6. m_timers' = m_timers \cup {t} /\ m_tickled' \in BOOLEAN
    BY <1>2 DEF Put, TimersIInv, TimersTypeOK
  <1>7. \A v \in Users, s \in Addresses : Inserts(v, s)' <=> Inserts(v, s) /\ v # u
    <2> SUFFICES ASSUME NEW v \in Users, NEW s \in Addresses
                 PROVE  Inserts(v, s)' <=> Inserts(v, s) /\ v # u
      OBVIOUS
    <2>1. CASE v = u
      <3>1. errand'[v] = e
        BY <1>5, <2>1 DEF TimersIInv, TimersTypeOK
      <3>2. e # [to |-> "insert", timer |-> s]
        BY DEF Nothing
      <3> QED
        BY <2>1, <3>1, <3>2 DEF Inserts
    <2>2. CASE v # u
      BY <1>5, <2>2 DEF Inserts, TimersIInv, TimersTypeOK
    <2> QED
      BY <2>1, <2>2
  <1>8. \A s \in Addresses : Inserts(u, s) => s = t
    BY <1>1 DEF Inserts
  <1>9. TimersTypeOK'
    <2>1. errand' \in [Users -> Errands]
      BY <1>5 DEF TimersIInv, TimersTypeOK, Errands
    <2> QED
      BY <1>2, <1>6, <2>1 DEF TimersIInv, TimersTypeOK, polling, history
  <1>10. Clock'
    BY <1>2 DEF TimersIInv, Clock, polling
  <1>11. UNCHANGED <<now, timer, calls, ran, told>> /\ m_timers \subseteq Addresses
    BY <1>2 DEF TimersIInv, TimersTypeOK, polling, history
  <1>12. \A s \in Addresses : Started(s) => Started(s)'
    BY <1>11, StillStarted
  <1>13. Inserted'
    <2>1. \A s \in m_timers' : Started(s)' /\ \A v \in Users : ~Inserts(v, s)'
      BY <1>3, <1>6, <1>7, <1>11, <1>12 DEF TimersIInv, Inserted
    <2>2. \A s \in Addresses, v \in Users : Inserts(v, s)' =>
            /\ Started(s)' /\ calls'[s] = 0 /\ ran'[s] = 0
            /\ \A w \in Users : Inserts(w, s)' => w = v
      BY <1>7, <1>11, <1>12 DEF TimersIInv, Inserted
    <2>3. \A s \in Addresses : timer'[s].cb => s \in m_timers' \/ \E v \in Users : Inserts(v, s)'
      BY <1>6, <1>7, <1>8, <1>11 DEF TimersIInv, Inserted
    <2> QED
      BY <2>1, <2>2, <2>3 DEF Inserted
  <1>14. Fresh'
    BY <1>3, <1>6, <1>11 DEF TimersIInv, Fresh, Started
  <1>15. Counted'
    <2> SUFFICES ASSUME NEW s \in Addresses, timer[s].made, ~timer[s].recurring,
                        \A v \in Users : ~Inserts(v, s)'
                 PROVE  ran[s] + calls[s] =
                          IF s \in m_timers' \/ told[s] = "yes" THEN 0 ELSE 1
      BY <1>11 DEF Counted
    <2>1. CASE s = t
      BY <1>3, <1>6, <2>1
    <2>2. CASE s # t
      <3>1. \A v \in Users : ~Inserts(v, s)
        BY <1>7, <1>8, <2>2
      <3> QED
        BY <1>6, <2>2, <3>1 DEF TimersIInv, Counted
    <2> QED
      BY <2>1, <2>2
  <1>16. Tickled' /\ FirstAwaited'
    <2>1. timer[t].next \in Nat
      BY Fields DEF TimersIInv
    <2>2. timer' \in [Addresses -> Timer] /\ timer'[t].next = timer[t].next
      BY <1>9, <1>11 DEF TimersTypeOK
    <2>3. \A s \in Addresses \ {t} : timer'[s] = timer[s]
      BY <1>11
    <2>4. UNCHANGED <<now, edge, polling>> /\ (t \in m_timers => timer[t].made)
      BY <1>2, <1>3 DEF Started
    <2> QED
      BY <1>2, <1>4, <2>1, <2>2, <2>3, <2>4, PutAttends
  <1> QED
    BY <1>9, <1>10, <1>13, <1>14, <1>15, <1>16 DEF TimersIInv

LEMMA CancelIInv ==
  ASSUME TimersIInv, NEW t \in Addresses, Cancel(t)
  PROVE  TimersIInv'
  <1>1. /\ Made(t) /\ told[t] = "nothing"
        /\ timer' = [timer EXCEPT ![t] = Over(t)] /\ m_timers' = m_timers \ {t}
        /\ told' = [told EXCEPT ![t] = IF timer[t].cb THEN "yes" ELSE "no"]
        /\ UNCHANGED <<now, m_tickled, m_previouseTime, edge, polling, errand, ran>>
    BY DEF Cancel
  <1>2. \A u \in Users : ~Inserts(u, t)
    BY <1>1 DEF Made, Inserts
  <1>3. \A v \in Users, s \in Addresses : Inserts(v, s)' <=> Inserts(v, s)
    BY <1>1 DEF Inserts
  <1>4. /\ ~timer'[t].cb /\ timer'[t].made /\ timer'[t].recurring = timer[t].recurring
        /\ \A s \in Addresses \ {t} : timer'[s] = timer[s] /\ told'[s] = told[s]
    BY <1>1 DEF TimersIInv, TimersTypeOK, Timer, Over, Made
  <1>5. timer[t].made
    BY <1>1 DEF Made
  <1>6. TimersTypeOK'
    <2>1. Over(t) \in Timer
      <3>1. timer[t] \in Timer
        BY DEF TimersIInv, TimersTypeOK
      <3> QED
        BY <3>1 DEF Timer, Over
    <2>2. timer' \in [Addresses -> Timer]
      BY <1>1, <2>1 DEF TimersIInv, TimersTypeOK
    <2>3. told' \in [Addresses -> {"nothing", "yes", "no"}] /\ m_timers' \in SUBSET Addresses
      BY <1>1 DEF TimersIInv, TimersTypeOK
    <2> QED
      BY <1>1, <2>2, <2>3 DEF TimersIInv, TimersTypeOK, polling
  <1>7. Clock'
    BY <1>1 DEF TimersIInv, Clock, polling
  <1>8. UNCHANGED <<now, calls, ran>> /\ m_timers \subseteq Addresses
    BY <1>1 DEF polling, TimersIInv, TimersTypeOK
  <1>9. \A s \in Addresses \ {t} : Started(s) => Started(s)'
    BY <1>4, <1>8, StillStarted
  <1>10. Inserted'
    <2>1. \A s \in m_timers' : Started(s)' /\ \A v \in Users : ~Inserts(v, s)'
      BY <1>1, <1>3, <1>8, <1>9 DEF TimersIInv, Inserted
    <2>2. \A s \in Addresses, v \in Users : Inserts(v, s)' =>
            /\ Started(s)' /\ calls'[s] = 0 /\ ran'[s] = 0
            /\ \A w \in Users : Inserts(w, s)' => w = v
      BY <1>2, <1>3, <1>8, <1>9 DEF TimersIInv, Inserted
    <2>3. \A s \in Addresses : timer'[s].cb => s \in m_timers' \/ \E v \in Users : Inserts(v, s)'
      BY <1>1, <1>3, <1>4 DEF TimersIInv, Inserted
    <2> QED
      BY <2>1, <2>2, <2>3 DEF Inserted
  <1>11. Fresh'
    BY <1>1, <1>4, <1>5, <1>8 DEF TimersIInv, Fresh
  <1>12. Counted'
    <2>1. ~timer[t].recurring =>
            ran[t] + calls[t] = IF told'[t] = "yes" THEN 0 ELSE 1
      <3>1. ~timer[t].recurring => ran[t] + calls[t] = IF t \in m_timers THEN 0 ELSE 1
        BY <1>1, <1>2, <1>5 DEF TimersIInv, Counted
      <3>2. told'[t] = IF timer[t].cb THEN "yes" ELSE "no"
        BY <1>1 DEF TimersIInv, TimersTypeOK
      <3>3. timer[t].cb <=> t \in m_timers
        BY <1>2 DEF TimersIInv, Inserted, Started
      <3> QED
        BY <3>1, <3>2, <3>3
    <2> QED
      BY <1>1, <1>3, <1>4, <1>8, <2>1 DEF TimersIInv, Counted
  <1>13. \A p \in Threads : InTime(p) => InTime(p)'
    BY <1>1, <1>4, <1>8 DEF InTime, polling
  <1>14. Tickled' /\ FirstAwaited'
    BY <1>1, <1>13 DEF TimersIInv, Tickled, FirstAwaited, Attended, polling
  <1> QED
    BY <1>6, <1>7, <1>10, <1>11, <1>12, <1>14 DEF TimersIInv

\* A timer of the set that gets another time.
Restarted(t, ms, start) == [timer EXCEPT ![t].ms = ms, ![t].next = start + ms]

LEMMA AnotherTime ==
  ASSUME TimersIInv, NEW t \in m_timers, NEW start \in Nat, NEW ms \in Nat, start <= now,
         timer' = Restarted(t, ms, start),
         m_timers' = m_timers, now' = now, calls' = calls, ran' = ran, told' = told,
         \A v \in Users, s \in Addresses : Inserts(v, s)' <=> Inserts(v, s)
  PROVE  /\ timer' \in [Addresses -> Timer]
         /\ timer'[t].next = start + ms
         /\ \A s \in Addresses \ {t} : timer'[s] = timer[s]
         /\ Inserted' /\ Fresh' /\ Counted'
  <1> USE DEF Restarted
  <1>0. t \in Addresses /\ m_timers \subseteq Addresses
    BY DEF TimersIInv, TimersTypeOK
  <1>1. start + ms \in Nat /\ t \in Addresses /\ m_timers \subseteq Addresses
    BY <1>0
  <1>2. timer' \in [Addresses -> Timer]
    <2>1. [timer[t] EXCEPT !.ms = ms, !.next = start + ms] \in Timer
      <3>1. timer[t] \in Timer
        BY <1>1 DEF TimersIInv, TimersTypeOK
      <3> QED
        BY <1>1, <3>1 DEF Timer
    <2>2. timer' = [timer EXCEPT ![t] = [timer[t] EXCEPT !.ms = ms, !.next = start + ms]]
      BY <1>1 DEF TimersIInv, TimersTypeOK, Timer
    <2> QED
      BY <2>1, <2>2 DEF TimersIInv, TimersTypeOK
  <1>3. /\ timer'[t].next = start + ms /\ timer'[t].ms = ms
        /\ timer'[t].cb = timer[t].cb /\ timer'[t].made = timer[t].made
        /\ timer'[t].recurring = timer[t].recurring
        /\ \A s \in Addresses \ {t} : timer'[s] = timer[s]
    BY <1>1 DEF TimersIInv, TimersTypeOK, Timer
  <1>4. ms <= start + ms /\ start + ms <= now + ms
    BY TheClock
  <1>5. Started(t)'
    BY <1>3, <1>4 DEF TimersIInv, Inserted, Started
  <1>6. \A s \in Addresses \ {t} : Started(s) => Started(s)'
    BY <1>3, StillStarted
  <1>7. Inserted'
    <2>1. \A s \in m_timers' : Started(s)' /\ \A v \in Users : ~Inserts(v, s)'
      BY <1>1, <1>5, <1>6 DEF TimersIInv, Inserted
    <2>2. \A s \in Addresses, v \in Users : Inserts(v, s)' =>
            /\ Started(s)' /\ calls'[s] = 0 /\ ran'[s] = 0
            /\ \A w \in Users : Inserts(w, s)' => w = v
      BY <1>1, <1>6 DEF TimersIInv, Inserted
    <2>3. \A s \in Addresses : timer'[s].cb => s \in m_timers' \/ \E v \in Users : Inserts(v, s)'
      BY <1>3 DEF TimersIInv, Inserted
    <2> QED
      BY <2>1, <2>2, <2>3 DEF Inserted
  <1>8. Fresh'
    BY <1>3 DEF TimersIInv, Fresh
  <1>9. Counted'
    BY <1>3 DEF TimersIInv, Counted
  <1> QED
    BY <1>2, <1>3, <1>7, <1>8, <1>9

LEMMA RefreshIInv ==
  ASSUME TimersIInv, NEW t \in Addresses, Refresh(t)
  PROVE  TimersIInv'
  <1>1. /\ t \in m_timers /\ timer' = [timer EXCEPT ![t].next = now + timer[t].ms]
        /\ UNCHANGED <<now, manager, edge, polling, errand, history>>
    BY DEF Refresh
  <1>2. PICK ms \in Nat : ms = timer[t].ms
    BY Fields DEF TimersIInv
  <1>3. timer' = [timer EXCEPT ![t].ms = ms, ![t].next = now + ms]
    BY <1>1, <1>2 DEF TimersIInv, TimersTypeOK, Timer
  <1>4. \A v \in Users, s \in Addresses : Inserts(v, s)' <=> Inserts(v, s)
    BY <1>1 DEF Inserts
  <1>5. /\ timer' \in [Addresses -> Timer]
        /\ timer'[t].next = now + ms /\ \A s \in Addresses \ {t} : timer'[s] = timer[s]
        /\ Inserted' /\ Fresh' /\ Counted'
    <2>1. /\ t \in m_timers /\ m_timers' = m_timers
          /\ now' = now /\ calls' = calls /\ ran' = ran /\ told' = told
      BY <1>1 DEF manager, polling, history
    <2>2. now \in Nat /\ now <= now
      BY TheClock
    <2>3. timer' = Restarted(t, ms, now)
      BY <1>3 DEF Restarted
    <2> QED
      BY <1>4, <2>1, <2>2, <2>3, AnotherTime
  <1>6. TimersTypeOK'
    BY <1>1, <1>5 DEF TimersIInv, TimersTypeOK, manager, polling, history
  <1>7. Clock'
    BY <1>1 DEF TimersIInv, Clock, manager, polling
  <1>8. \A s \in m_timers : timer[s].next <= timer'[s].next
    <2>1. timer[t].next <= now + ms
      BY <1>1, <1>2 DEF TimersIInv, Inserted, Started
    <2>2. \A s \in m_timers : timer[s].next \in Nat
      BY Fields DEF TimersIInv, TimersTypeOK
    <2>3. \A s \in m_timers : timer[s].next <= timer[s].next
      BY <2>2
    <2>4. m_timers \subseteq Addresses
      BY DEF TimersIInv, TimersTypeOK
    <2> QED
      BY <1>5, <2>1, <2>3, <2>4
  <1>9. ASSUME NEW p \in Threads, InTime(p) PROVE InTime(p)'
    <2>1. \A s \in m_timers : timer[s].next \in Nat /\ timer'[s].next \in Nat
      BY <1>5, Fields DEF TimersIInv, TimersTypeOK, Timer
    <2>2. \A s \in m_timers : seen[p] <= timer[s].next => seen[p] <= timer'[s].next
      BY <1>8, <2>1, TheClock
    <2> QED
      BY <1>1, <1>9, <2>2 DEF InTime, manager, polling
  <1>10. Tickled' /\ FirstAwaited'
    BY <1>1, <1>9 DEF TimersIInv, Tickled, FirstAwaited, Attended, manager, polling
  <1> QED
    BY <1>5, <1>6, <1>7, <1>10 DEF TimersIInv

LEMMA ResetIInv ==
  ASSUME TimersIInv, NEW u \in Users, NEW t \in Addresses, Reset(u, t)
  PROVE  TimersIInv'
  <1>1. /\ errand[u] = Nothing /\ t \in m_timers
        /\ UNCHANGED <<now, m_previouseTime, edge, polling, history>>
    BY DEF Reset
  <1>2. /\ timer[t].ms \in Nat /\ timer[t].next \in Nat /\ now \in Nat
        /\ timer[t].ms <= timer[t].next /\ timer[t].next <= now + timer[t].ms
        /\ timer[t].made
    BY <1>1, Fields, TheClock DEF TimersIInv, Inserted, Started
  <1>3. PICK ms \in Nat, start \in Nat :
          /\ start <= now
          /\ timer' = [timer EXCEPT ![t].ms = ms, ![t].next = start + ms]
          /\ Put(u, t, start + ms)
    <2>1. PICK ms \in Periods, from_now \in BOOLEAN :
            LET start == IF from_now THEN now ELSE timer[t].next - timer[t].ms
            IN /\ timer' = [timer EXCEPT ![t].ms = ms, ![t].next = start + ms]
               /\ Put(u, t, start + ms)
      BY DEF Reset
    <2>2. PICK start : start = IF from_now THEN now ELSE timer[t].next - timer[t].ms
      OBVIOUS
    <2>3. start \in Nat /\ start <= now /\ ms \in Nat
      BY <1>2, <2>2, TimersAssumption
    <2>4. /\ timer' = [timer EXCEPT ![t].ms = ms, ![t].next = start + ms]
          /\ Put(u, t, start + ms)
      BY <2>1, <2>2
    <2> QED
      BY <2>3, <2>4
  <1>4. PICK e \in {Nothing, [to |-> "tickle"]} : errand' = [errand EXCEPT ![u] = e]
    BY <1>3 DEF Put
  <1>5. m_timers' = m_timers /\ m_tickled' \in BOOLEAN
    BY <1>1, <1>3 DEF Put, TimersIInv, TimersTypeOK
  <1>6. \A v \in Users, s \in Addresses : Inserts(v, s)' <=> Inserts(v, s)
    BY <1>1, <1>4, NoInsertion DEF TimersIInv, TimersTypeOK
  <1>7. /\ timer' \in [Addresses -> Timer]
        /\ timer'[t].next = start + ms /\ \A s \in Addresses \ {t} : timer'[s] = timer[s]
        /\ Inserted' /\ Fresh' /\ Counted'
    <2>1. now' = now /\ calls' = calls /\ ran' = ran /\ told' = told
      BY <1>1 DEF polling, history
    <2>2. t \in m_timers /\ m_timers' = m_timers
      BY <1>1, <1>5
    <2>3. start <= now /\ timer' = Restarted(t, ms, start)
      BY <1>3 DEF Restarted
    <2> QED
      BY <1>6, <2>1, <2>2, <2>3, AnotherTime
  <1>8. TimersTypeOK'
    <2>1. errand' \in [Users -> Errands]
      BY <1>4 DEF TimersIInv, TimersTypeOK, Errands
    <2> QED
      BY <1>1, <1>5, <1>7, <2>1 DEF TimersIInv, TimersTypeOK, polling, history
  <1>9. Clock'
    BY <1>1 DEF TimersIInv, Clock, polling
  <1>10. Tickled' /\ FirstAwaited'
    <2>1. errand[u] # [to |-> "tickle"]
      BY <1>1 DEF Nothing
    <2>2. PICK next \in Nat : next = start + ms
      OBVIOUS
    <2>3. Put(u, t, next) /\ timer'[t].next = next
      BY <1>3, <1>7, <2>2
    <2>4. UNCHANGED <<now, edge, polling>>
      BY <1>1
    <2> QED
      BY <1>2, <1>7, <2>1, <2>3, <2>4, PutAttends
  <1> QED
    BY <1>7, <1>8, <1>9, <1>10 DEF TimersIInv

LEMMA ListExpiredIInv ==
  ASSUME TimersIInv, NEW p \in Threads, ListExpired(p)
  PROVE  TimersIInv'
  <1> DEFINE due == Due(seen[p])
  <1>1. /\ phase[p] \in {"list", "list and drain"}
        /\ phase' = [phase EXCEPT ![p] = "busy"]
        /\ m_previouseTime' = IF m_timers = {} THEN m_previouseTime ELSE seen[p]
        /\ timer' = [t \in Addresses |-> IF t \in due THEN Expired(t, seen[p]) ELSE timer[t]]
        /\ m_timers' = {t \in m_timers : t \in due => timer[t].recurring}
        /\ calls' = [t \in Addresses |-> IF t \in due THEN calls[t] + 1 ELSE calls[t]]
        /\ edge' = (edge /\ phase[p] = "list")
        /\ seen' = [seen EXCEPT ![p] = Boot]
        /\ UNCHANGED <<now, m_tickled, errand, history>>
    BY DEF ListExpired
  <1>2. due \subseteq m_timers /\ m_timers \subseteq Addresses
    BY DEF Due, TimersIInv, TimersTypeOK
  <1> HIDE DEF due
  <1>3. seen[p] \in Nat /\ seen[p] <= now /\ Boot <= seen[p] /\ now \in Nat /\ Boot \in Nat
    BY <1>1, TheClock DEF TimersIInv, Clock
  <1>4. UNCHANGED <<ran, told>>
    BY <1>1 DEF history
  <1>5. \A v \in Users, s \in Addresses : Inserts(v, s)' <=> Inserts(v, s)
    BY <1>1 DEF Inserts
  <1>6. \A t \in Addresses \ due : timer'[t] = timer[t] /\ calls'[t] = calls[t]
    BY <1>1
  <1>7. ASSUME NEW t \in due
        PROVE  /\ timer'[t] \in Timer /\ timer'[t].made = timer[t].made
               /\ timer'[t].recurring = timer[t].recurring
               /\ timer[t].recurring =>
                    /\ timer'[t].cb = timer[t].cb /\ timer'[t].ms = timer[t].ms
                    /\ timer'[t].next = seen[p] + timer[t].ms
               /\ ~timer[t].recurring => ~timer'[t].cb
    <2>1. timer[t] \in Timer /\ timer'[t] = Expired(t, seen[p])
      BY <1>1, <1>2, <1>7 DEF TimersIInv, TimersTypeOK
    <2>2. CASE timer[t].recurring
      <3>0. timer[t].ms \in Nat
        BY <2>1 DEF Timer
      <3>1. timer'[t] = [timer[t] EXCEPT !.next = seen[p] + timer[t].ms]
        BY <2>1, <2>2 DEF Expired
      <3>2. seen[p] + timer[t].ms \in Nat
        BY <1>3, <3>0
      <3>3. PICK next \in Nat : next = seen[p] + timer[t].ms
        BY <3>2
      <3>4. timer'[t] = [timer[t] EXCEPT !.next = next]
        BY <3>1, <3>3
      <3>5. timer'[t] \in Timer /\ timer'[t].next = next
        BY <2>1, <3>4 DEF Timer
      <3>6. /\ timer'[t].made = timer[t].made /\ timer'[t].recurring = timer[t].recurring
            /\ timer'[t].cb = timer[t].cb /\ timer'[t].ms = timer[t].ms
        BY <2>1, <3>4 DEF Timer
      <3> QED
        BY <2>2, <3>3, <3>5, <3>6
    <2>3. CASE ~timer[t].recurring
      <3>1. timer'[t] = [timer[t] EXCEPT !.next = 0, !.ms = 0, !.cb = FALSE]
        BY <2>1, <2>3 DEF Expired, Over
      <3>a. PICK r \in Timer : r = timer[t]
        BY <2>1
      <3>b. [r EXCEPT !.next = 0, !.ms = 0, !.cb = FALSE] \in Timer
        BY DEF Timer
      <3>c. ~[r EXCEPT !.next = 0, !.ms = 0, !.cb = FALSE].cb
        BY DEF Timer
      <3>2. timer'[t] \in Timer /\ ~timer'[t].cb
        BY <3>1, <3>a, <3>b, <3>c
      <3>3. timer'[t].made = timer[t].made /\ timer'[t].recurring = timer[t].recurring
        BY <2>1, <3>1 DEF Timer
      <3> QED
        BY <2>3, <3>2, <3>3
    <2> QED
      BY <2>2, <2>3
  <1>8. TimersTypeOK'
    <2>1. timer' \in [Addresses -> Timer]
      <3>1. \A t \in Addresses : timer'[t] \in Timer
        BY <1>2, <1>6, <1>7 DEF TimersIInv, TimersTypeOK
      <3> QED
        BY <1>1, <3>1
    <2>2. calls' \in [Addresses -> Nat]
      <3>1. \A t \in Addresses : calls[t] \in Nat /\ calls[t] + 1 \in Nat
        BY Fields DEF TimersIInv
      <3> QED
        BY <1>1, <3>1
    <2>3. m_timers' \in SUBSET Addresses /\ m_previouseTime' \in Nat /\ edge' \in BOOLEAN
      BY <1>1, <1>2, <1>3 DEF TimersIInv, TimersTypeOK
    <2>4. phase' \in [Threads -> {"busy", "asleep", "list", "list and drain"}]
          /\ seen' \in [Threads -> Nat]
      BY <1>1, <1>3 DEF TimersIInv, TimersTypeOK
    <2> QED
      BY <1>1, <1>4, <2>1, <2>2, <2>3, <2>4 DEF TimersIInv, TimersTypeOK
  <1>9. Clock'
    <2>1. seen'[p] = Boot /\ phase'[p] = "busy"
          /\ \A q \in Threads \ {p} : seen'[q] = seen[q] /\ phase'[q] = phase[q]
      BY <1>1 DEF TimersIInv, TimersTypeOK
    <2>2. Boot <= Boot
      BY <1>3
    <2> QED
      BY <1>1, <1>3, <2>1, <2>2 DEF TimersIInv, Clock
  <1>10. \A t \in Addresses \ due : Started(t) => Started(t)'
    BY <1>1, <1>4, <1>6, StillStarted
  <1>11. \A t \in due : timer[t].recurring => Started(t)'
    <2> SUFFICES ASSUME NEW t \in due, timer[t].recurring PROVE Started(t)'
      OBVIOUS
    <2>1. Started(t)
      BY <1>2 DEF TimersIInv, Inserted
    <2>2. timer[t].ms \in Nat
      BY <1>2, Fields DEF TimersIInv
    <2>3. timer[t].ms <= seen[p] + timer[t].ms /\ seen[p] + timer[t].ms <= now + timer[t].ms
      BY <1>3, <2>2
    <2> QED
      BY <1>1, <1>4, <1>7, <2>1, <2>3 DEF Started
  <1>12. \A t \in due : Started(t) /\ \A v \in Users : ~Inserts(v, t)
    BY <1>2 DEF TimersIInv, Inserted
  <1>13. Inserted'
    <2>1. \A s \in m_timers' : Started(s)' /\ \A v \in Users : ~Inserts(v, s)'
      BY <1>1, <1>2, <1>5, <1>10, <1>11 DEF TimersIInv, Inserted
    <2>2. \A s \in Addresses, v \in Users : Inserts(v, s)' =>
            /\ Started(s)' /\ calls'[s] = 0 /\ ran'[s] = 0
            /\ \A w \in Users : Inserts(w, s)' => w = v
      BY <1>4, <1>5, <1>6, <1>10, <1>12 DEF TimersIInv, Inserted
    <2>3. \A s \in Addresses : timer'[s].cb => s \in m_timers' \/ \E v \in Users : Inserts(v, s)'
      BY <1>1, <1>2, <1>5, <1>6, <1>7 DEF TimersIInv, Inserted
    <2> QED
      BY <2>1, <2>2, <2>3 DEF Inserted
  <1>14. Fresh'
    BY <1>1, <1>4, <1>6, <1>7, <1>12 DEF TimersIInv, Fresh, Started
  <1>15. Counted'
    <2> SUFFICES ASSUME NEW t \in Addresses, timer'[t].made, ~timer'[t].recurring,
                        \A v \in Users : ~Inserts(v, t)
                 PROVE  ran[t] + calls'[t] =
                          IF t \in m_timers' \/ told[t] = "yes" THEN 0 ELSE 1
      BY <1>4, <1>5 DEF Counted
    <2>1. CASE t \in due
      <3>1. ~timer[t].recurring /\ t \in m_timers /\ told[t] = "nothing" /\ timer[t].made
        BY <1>2, <1>7, <1>12, <2>1 DEF Started
      <3>2. ran[t] + calls[t] = 0
        BY <3>1 DEF TimersIInv, Counted
      <3>3. calls'[t] = calls[t] + 1 /\ t \notin m_timers'
        BY <1>1, <2>1, <3>1
      <3>4. calls[t] \in Nat /\ ran[t] \in Nat
        BY Fields DEF TimersIInv
      <3> QED
        BY <3>1, <3>2, <3>3, <3>4
    <2>2. CASE t \notin due
      BY <1>1, <1>6, <2>2 DEF TimersIInv, Counted
    <2> QED
      BY <2>1, <2>2
  <1>16. Attended'
    BY <1>1 DEF Attended, TimersIInv, TimersTypeOK
  <1>17. Tickled' /\ FirstAwaited'
    BY <1>16 DEF Tickled, FirstAwaited
  <1> QED
    BY <1>8, <1>9, <1>13, <1>14, <1>15, <1>17 DEF TimersIInv

-----------------------------------------------------------------------------
(* Timers: theorems.                                                       *)

LEMMA TimersInitIInv == TimersInit => TimersIInv
  <1> SUFFICES ASSUME TimersInit PROVE TimersIInv
    OBVIOUS
  <1>1. Boot \in Nat /\ Boot <= Boot /\ Boot <= MaxNow
    BY TimersAssumption
  <1>2. \A v \in Users, t \in Addresses : ~Inserts(v, t)
    BY DEF TimersInit, Inserts, Nothing
  <1>3. TimersTypeOK
    <2>1. Unmade \in Timer
      BY DEF Unmade, Timer
    <2> QED
      BY <1>1, <2>1 DEF TimersInit, TimersTypeOK, Errands
  <1>4. Clock
    BY <1>1 DEF TimersInit, Clock
  <1>5. \A t \in Addresses : ~timer[t].made /\ ~timer[t].cb
    BY DEF TimersInit, Unmade
  <1>6. Inserted /\ Fresh /\ Counted
    BY <1>2, <1>5 DEF TimersInit, Inserted, Fresh, Counted
  <1>7. Tickled /\ FirstAwaited
    BY DEF TimersInit, Tickled, FirstAwaited
  <1> QED
    BY <1>3, <1>4, <1>6, <1>7 DEF TimersIInv

LEMMA TimersNextIInv == TimersIInv /\ [TimersNext]_timersVars => TimersIInv'
  <1> SUFFICES ASSUME TimersIInv, [TimersNext]_timersVars PROVE TimersIInv'
    OBVIOUS
  <1>1. CASE UNCHANGED timersVars
    <2>1. \A v \in Users, t \in Addresses : Inserts(v, t)' <=> Inserts(v, t)
      BY <1>1 DEF timersVars, Inserts
    <2>2. Inserted' /\ Fresh' /\ Counted'
      BY <1>1, <2>1, TheClock, Undisturbed DEF timersVars
    <2>3. TimersTypeOK'
      BY <1>1 DEF timersVars, TimersIInv, TimersTypeOK
    <2>4. Clock'
      BY <1>1 DEF timersVars, TimersIInv, Clock
    <2>5. Tickled' /\ FirstAwaited'
      BY <1>1 DEF timersVars, TimersIInv, Tickled, Attended, FirstAwaited, InTime
    <2> QED
      BY <2>2, <2>3, <2>4, <2>5 DEF TimersIInv
  <1>2. ASSUME NEW u \in Users, NewTimer(u) \/ Insert(u) \/ Tickle(u) PROVE TimersIInv'
    BY <1>2, NewTimerIInv, InsertIInv, TickleIInv
  <1>3. ASSUME NEW u \in Users, NEW t \in Addresses, Reset(u, t) PROVE TimersIInv'
    BY <1>3, ResetIInv
  <1>4. ASSUME NEW t \in Addresses, Cancel(t) \/ Refresh(t) PROVE TimersIInv'
    BY <1>4, CancelIInv, RefreshIInv
  <1>5. ASSUME NEW p \in Threads, GetNextTimer(p) \/ ListExpired(p) \/ Wake(p) PROVE TimersIInv'
    BY <1>5, GetNextTimerIInv, ListExpiredIInv, WakeIInv
  <1>6. ASSUME NEW p \in Threads, NEW t \in Addresses, RunCallback(p, t) PROVE TimersIInv'
    BY <1>6, RunCallbackIInv
  <1>7. CASE TimePasses
    BY <1>7, TimePassesIInv
  <1> QED
    BY <1>1, <1>2, <1>3, <1>4, <1>5, <1>6, <1>7 DEF TimersNext, ThreadStep

\* The invariant the others follow from, in every state of the timers (timer.cc).
THEOREM TimersInvariant == TimersSpec => []TimersIInv
  BY TimersInitIInv, TimersNextIInv, PTL DEF TimersSpec

\* Whatever users and threads do at the same time, a timer that is called once is called
\* or cancelled, and cancel() tells which (timer.cc:40-49, 163-173).
THEOREM CancelsTell == TimersSpec => []CancelTells
  <1>1. TimersIInv => CancelTells
    <2> SUFFICES ASSUME TimersIInv, NEW t \in Addresses, Made(t), ~timer[t].recurring
                 PROVE  ran[t] + calls[t] =
                          IF t \in m_timers \/ told[t] = "yes" THEN 0 ELSE 1
      BY DEF CancelTells
    <2>1. timer[t].made /\ \A u \in Users : ~Inserts(u, t)
      BY DEF Made, Inserts
    <2> QED
      BY <2>1 DEF TimersIInv, Counted
  <1> QED
    BY <1>1, TimersInvariant, PTL

\* However many threads poll, one of them wakes by the time of the first timer or is
\* about to be woken: m_tickled, which keeps users from tickling, is set only while
\* somebody polls, is about to, or is being tickled (timer.cc:110-127, 176-187).
THEOREM TimersAreAwaited == TimersSpec => []SomeoneWakes
  <1>1. TimersIInv => SomeoneWakes
    <2> SUFFICES ASSUME TimersIInv, ~edge, m_timers # {},
                        \A p \in Threads : phase[p] = "asleep",
                        \A u \in Users : errand[u].to # "tickle"
                 PROVE  \E p \in Threads : seen[p] <= Max({now, timer[First].next})
      BY DEF SomeoneWakes
    <2>1. ~Attended
      BY DEF Attended
    <2>2. PICK p \in Threads : InTime(p)
      BY <2>1 DEF TimersIInv, FirstAwaited
    <2>3. First \in m_timers /\ timer[First].next \in Nat
      BY FirstIsFirst, Fields DEF TimersIInv, TimersTypeOK
    <2>4. seen[p] <= now \/ seen[p] <= timer[First].next
      BY <2>2, <2>3 DEF InTime
    <2>5. PICK next \in Nat : next = timer[First].next
      BY <2>3
    <2>6. Max({now, next}) = IF now >= next THEN now ELSE next
      BY MaxOfTwo, TheClock
    <2>7. seen[p] <= Max({now, next})
      BY <2>4, <2>5, <2>6, TheClock
    <2> QED
      BY <2>5, <2>7
  <1> QED
    BY <1>1, TimersInvariant, PTL

LEMMA SmallRemainder ==
  ASSUME NEW a \in Nat, NEW b \in Nat, a < b
  PROVE  a % b = a
  OBVIOUS

\* No thread takes an hour from reading the clock to taking the lock, in
\* listExpiredCb().
Prompt ==
  \A p \in Threads : phase[p] \in {"list", "list and drain"} => now - seen[p] <= Hour

\* On a machine that has been up for an hour when the manager is made no callback is
\* taken before the time of its timer: threads come to the lock with older readings than
\* the last one, and none is taken for a step back of the clock (timer.cc:129-152,
\* 189-197).
THEOREM TimersAreOnTime ==
  ASSUME Hour <= Boot
  PROVE  TimersSpec /\ []Prompt => OnTime
  <1> DEFINE A == \A t \in Addresses : calls'[t] > calls[t] => timer[t].next <= now
  <1>1. TimersIInv /\ Prompt /\ [TimersNext]_timersVars => [A]_timersVars
    <2> SUFFICES ASSUME TimersIInv, Prompt, TimersNext,
                        NEW t \in Addresses, calls'[t] > calls[t]
                 PROVE  timer[t].next <= now
      OBVIOUS
    <2>1. calls[t] \in Nat
      BY Fields DEF TimersIInv
    <2>2. calls'[t] # calls[t]
      BY <2>1
    <2>3. PICK p \in Threads : ListExpired(p) \/ \E s \in Addresses : RunCallback(p, s)
      BY <2>2 DEF TimersNext, ThreadStep, NewTimer, Insert, Tickle, Reset, Cancel, Refresh,
                  GetNextTimer, Wake, TimePasses, polling
    <2>4. ASSUME NEW s \in Addresses, RunCallback(p, s) PROVE FALSE
      <3>1. calls' = [calls EXCEPT ![s] = calls[s] - 1]
        BY <2>4 DEF RunCallback
      <3>2. calls'[t] = calls[t] \/ calls'[t] = calls[t] - 1
        BY <3>1 DEF TimersIInv, TimersTypeOK
      <3> QED
        BY <2>1, <3>2
    <2>5. ListExpired(p)
      BY <2>3, <2>4
    <2>6. t \in Due(seen[p]) /\ phase[p] \in {"list", "list and drain"}
      BY <2>2, <2>5 DEF ListExpired
    <2>7. /\ seen[p] <= now /\ now - seen[p] <= Hour
      BY <2>6 DEF TimersIInv, Clock, Prompt
    <2>8. /\ Hour \in Nat /\ Wrap \in Nat /\ MaxNow \in Nat /\ MaxNow < Wrap
          /\ now <= MaxNow /\ now \in Nat /\ m_previouseTime \in Nat /\ seen[p] \in Nat
          /\ Boot \in Nat /\ Boot <= m_previouseTime /\ m_previouseTime <= now
      BY TimersAssumption, TheClock DEF TimersIInv, Clock
    <2>9. PICK d \in Nat : d = m_previouseTime - Hour /\ d < Wrap
      BY <2>8
    <2>10. d <= seen[p]
      BY <2>7, <2>8, <2>9
    <2>11. ~Rollover(seen[p])
      BY <2>8, <2>9, <2>10, SmallRemainder DEF Rollover
    <2>12. timer[t].next <= seen[p] /\ timer[t].next \in Nat
      BY <2>6, <2>11, Fields DEF Due, TimersIInv
    <2> QED
      BY <2>7, <2>8, <2>12
  <1> QED
    BY <1>1, TimersInvariant, PTL DEF TimersSpec, OnTime

-----------------------------------------------------------------------------
(* Descriptors: the inductive invariant.                                   *)

Owner(c) == doing[c].to \in {"get", "create", "cancel", "del", "close"}
Opens(c) == doing[c].to \in {"get", "create"}
InIo(c) == doing[c].to \in {"try", "size", "resize", "register", "waiting", "woken"}
Places == {"get", "create", "flags", "try", "size", "resize", "register",
           "waiting", "woken", "blocked", "cancel", "del", "close"}
Sockets == [id : 1..opened, nonblock : BOOLEAN, hooked : BOOLEAN, cleared : BOOLEAN]
Contexts == [of : 1..opened, user : BOOLEAN]
Calls == [to : Places, fd : Fds, id : 1..opened, set : BOOLEAN, keep : BOOLEAN,
          on : Nat, kept : BOOLEAN]
DescriptorsTypeOK ==
  /\ parallel \in BOOLEAN
  /\ opened \in Nat /\ datasSize \in Nat /\ contextsSize \in Nat
  /\ file \in [Fds -> Sockets \cup {Closed}]
  /\ m_datas \in [Fds -> Contexts \cup {None}]
  /\ doing \in [Callers -> Calls \cup {Idle}]
  /\ outside \in SUBSET (1..opened)

\* A number is given to one socket, and a socket has one number.
Numbers ==
  /\ \A m, n \in Fds : IsOpen(m) /\ file[m].id = file[n].id => m = n
  /\ \A fd \in Fds : file[fd].id \notin outside

\* Who opens or closes a descriptor has it for himself; threads without the hook only
\* close.
Owners ==
  /\ \A c \in Callers : Owner(c) =>
       /\ IsOpen(doing[c].fd) /\ doing[c].id = file[doing[c].fd].id
       /\ \A d \in Callers : Owner(d) /\ doing[d].fd = doing[c].fd => d = c
  /\ \A c \in Outsiders : doing[c].to \in {"idle", "close"}

\* The context of a number is that of its socket, or of one that was closed without the
\* hook; and the socket that has it does not block.
ContextOf ==
  \A fd \in Fds : m_datas[fd] # None =>
    /\ fd < datasSize
    /\ \/ IsOpen(fd) /\ m_datas[fd].of = file[fd].id /\ (file[fd].nonblock \/ file[fd].cleared)
       \/ m_datas[fd].of \in outside
Unfinished ==
  /\ \A c \in Callers : Opens(c) /\ m_datas[doing[c].fd] # None =>
       m_datas[doing[c].fd].of \in outside
  /\ \A c \in Callers : doing[c].to = "close" /\ Hooked(c) => m_datas[doing[c].fd] = None
  /\ \A fd \in Fds : IsOpen(fd) /\ file[fd].hooked /\ ~Making(fd) /\ ~Closing(fd) =>
       m_datas[fd] # None
\* fcntl() lets a socket block only when it has no context.
Flags ==
  \A c \in Callers : doing[c].to = "flags" /\ doing[c].id = file[doing[c].fd].id =>
    /\ \A d \in Callers : Opens(d) => doing[d].fd # doing[c].fd
    /\ doing[c].keep /\ ~doing[c].set => m_datas[doing[c].fd] = None

\* With one thread: one call of the hook is under way, and the others wait.
OneActive ==
  \A c, d \in Callers \ Outsiders :
    doing[c].to \notin Resting /\ doing[d].to \notin Resting => c = d
Tables ==
  \A c \in Callers :
    /\ doing[c].kept
    /\ doing[c].to = "resize" => contextsSize <= doing[c].fd
    /\ doing[c].to \in {"register", "waiting"} => doing[c].fd < contextsSize
\* A call that waits has found a context, which stays while the socket is open, or until
\* it has been woken and close() has deleted it.
Past(d, fd) == Hooked(d) /\ doing[d].to = "close" /\ doing[d].fd = fd
OwnContext ==
  \A c \in Callers :
    /\ doing[c].to \in {"size", "resize", "register", "waiting"} => doing[c].set
    /\ InIo(c) /\ doing[c].set /\ doing[c].id = file[doing[c].fd].id =>
         \/ m_datas[doing[c].fd] # None
         \/ \E d \in Callers : Past(d, doing[c].fd)
Reached ==
  \A c \in Callers : doing[c].to = "waiting" /\ doing[c].on = doing[c].id =>
    /\ file[doing[c].fd].id = doing[c].id \/ doing[c].id \in outside
    /\ \A d \in Callers : Hooked(d) /\ doing[d].to \in {"del", "close"} =>
         doing[d].fd # doing[c].fd \/ doing[c].id \in outside
OneThread == OneActive /\ Tables /\ OwnContext /\ Reached

DescriptorsIInv ==
  /\ DescriptorsTypeOK /\ Numbers /\ Owners /\ ContextOf /\ Unfinished /\ Flags
  /\ ~parallel => OneThread

-----------------------------------------------------------------------------
(* Descriptors: lemmas.                                                    *)

LEMMA CallsAre ==
  ASSUME DescriptorsTypeOK, NEW c \in Callers
  PROVE  /\ doing[c].to = "idle" => doing[c] = Idle
         /\ doing[c].to # "idle" => doing[c] \in Calls /\ doing[c].fd \in Fds /\ 1 <= doing[c].id
         /\ doing[c].id \in Nat /\ doing[c].id <= opened
         /\ doing[c].set \in BOOLEAN /\ doing[c].kept \in BOOLEAN
  <1>1. doing[c] \in Calls \cup {Idle} /\ opened \in Nat
    BY DEF DescriptorsTypeOK
  <1>2. CASE doing[c] = Idle
    BY <1>1, <1>2 DEF Idle
  <1>3. CASE doing[c] \in Calls
    BY <1>1, <1>3 DEF Calls, Places
  <1> QED
    BY <1>1, <1>2, <1>3

LEMMA FilesAre ==
  ASSUME DescriptorsTypeOK, NEW fd \in Fds
  PROVE  /\ file[fd].id \in Nat /\ file[fd].id <= opened
         /\ IsOpen(fd) => file[fd] \in Sockets /\ 1 <= file[fd].id
         /\ ~IsOpen(fd) => file[fd].id = 0 /\ ~file[fd].hooked
         /\ m_datas[fd] # None => m_datas[fd] \in Contexts
         /\ fd \in Nat /\ datasSize \in Nat /\ contextsSize \in Nat /\ opened \in Nat
  <1>1. /\ file[fd] \in Sockets \cup {Closed} /\ m_datas[fd] \in Contexts \cup {None}
        /\ opened \in Nat /\ datasSize \in Nat /\ contextsSize \in Nat
    BY DEF DescriptorsTypeOK
  <1>2. CASE IsOpen(fd)
    BY <1>1, <1>2, DescriptorsAssumption DEF IsOpen, Sockets
  <1>3. CASE ~IsOpen(fd)
    BY <1>1, <1>3, DescriptorsAssumption DEF IsOpen, Closed
  <1> QED
    BY <1>2, <1>3

\* A step in which calls go on that neither open nor close a descriptor, nor set flags;
\* or a call that does goes on to its next part.
LEMMA IoKeeps ==
  ASSUME DescriptorsIInv, UNCHANGED <<parallel, kernel, m_datas, datasSize>>,
         doing' \in [Callers -> Calls \cup {Idle}], contextsSize' \in Nat,
         \A d \in Callers :
           \/ doing'[d] = doing[d]
           \/ /\ ~Owner(d) /\ ~Owner(d)' /\ doing'[d].to # "flags"
              /\ d \in Outsiders => doing'[d].to = "idle"
           \/ /\ Owner(d) /\ Owner(d)' /\ (Opens(d) <=> Opens(d)') /\ doing'[d].to # "close"
              /\ doing'[d].fd = doing[d].fd /\ doing'[d].id = doing[d].id /\ d \notin Outsiders
  PROVE  /\ DescriptorsTypeOK' /\ Numbers' /\ Owners' /\ ContextOf' /\ Unfinished' /\ Flags'
  <1> USE DEF kernel
  <1>1. DescriptorsTypeOK'
    BY DEF DescriptorsIInv, DescriptorsTypeOK, Sockets, Contexts, Calls
  <1>2. Numbers'
    BY DEF DescriptorsIInv, Numbers, IsOpen
  <1>3. \A d \in Callers : (Owner(d) <=> Owner(d)') /\ (Opens(d) <=> Opens(d)')
    BY DEF Owner, Opens
  <1>4. \A d \in Callers : Owner(d) => doing'[d].fd = doing[d].fd /\ doing'[d].id = doing[d].id
    BY DEF Owner
  <1>5. Owners'
    <2>1. \A c \in Outsiders : doing'[c].to \in {"idle", "close"}
      BY DescriptorsAssumption DEF DescriptorsIInv, Owners
    <2> QED
      BY <1>3, <1>4, <2>1 DEF DescriptorsIInv, Owners, IsOpen
  <1>6. ContextOf'
    BY DEF DescriptorsIInv, ContextOf, IsOpen
  <1>7. \A fd \in Fds : (Making(fd)' <=> Making(fd)) /\ (Closing(fd)' <=> Closing(fd))
    BY <1>3, <1>4 DEF Making, Closing, Opens, Owner
  <1>8. Unfinished'
    <2>1. \A c \in Callers : Opens(c)' /\ m_datas'[doing'[c].fd] # None =>
            m_datas'[doing'[c].fd].of \in outside'
      BY <1>3, <1>4 DEF DescriptorsIInv, Unfinished, Opens, Owner
    <2>2. \A c \in Callers : doing'[c].to = "close" /\ Hooked(c) =>
            m_datas'[doing'[c].fd] = None
      BY DEF DescriptorsIInv, Unfinished, Owner
    <2>3. \A fd \in Fds : IsOpen(fd)' /\ file'[fd].hooked /\ ~Making(fd)' /\ ~Closing(fd)' =>
            m_datas'[fd] # None
      BY <1>7 DEF DescriptorsIInv, Unfinished, IsOpen
    <2> QED
      BY <2>1, <2>2, <2>3 DEF Unfinished, Hooked
  <1>9. Flags'
    <2>1. \A d \in Callers : doing'[d].to = "flags" => doing'[d] = doing[d]
      BY DEF Owner
    <2>2. \A d \in Callers : Opens(d)' => Opens(d) /\ doing'[d].fd = doing[d].fd
      BY <1>3, <1>4 DEF Opens, Owner
    <2> QED
      BY <2>1, <2>2 DEF DescriptorsIInv, Flags
  <1> QED
    BY <1>1, <1>2, <1>5, <1>6, <1>8, <1>9

\* The step of a caller that may run, when there is one thread.
LEMMA RunsAlone ==
  ASSUME NEW c \in Callers, c \notin Outsiders, Runs(c), ~parallel
  PROVE  \A d \in Callers : d \notin Outsiders /\ d # c => doing[d].to \in Resting
  BY DEF Runs
LEMMA StaysOne ==
  ASSUME NEW c \in Callers,
         \A d \in Callers : d \notin Outsiders /\ d # c => doing'[d].to \in Resting
  PROVE  OneActive'
  BY DEF OneActive

\* The step of a thread without the hook, or a call that ends or is woken.
LEMMA OthersRest ==
  ASSUME OneActive,
         \A d \in Callers : d \in Outsiders \/ doing'[d] = doing[d] \/ doing'[d].to \in Resting
  PROVE  OneActive'
  BY DEF OneActive

\* What an io call that goes on keeps, when there is one thread.
LEMMA IoGoesOn ==
  ASSUME DescriptorsIInv, OneThread, NEW c \in Callers, ~Owner(c), ~Owner(c)',
         doing' \in [Callers -> Calls \cup {Idle}],
         \A d \in Callers \ {c} : doing'[d] = doing[d],
         UNCHANGED <<kernel, tables>>,
         doing'[c].kept,
         doing'[c].to = "resize" => contextsSize <= doing'[c].fd,
         doing'[c].to \in {"register", "waiting"} => doing'[c].fd < contextsSize,
         doing'[c].to \in {"size", "resize", "register", "waiting"} => doing'[c].set,
         InIo(c)' /\ doing'[c].set =>
           \/ InIo(c) /\ doing[c].set /\ doing'[c].fd = doing[c].fd /\ doing'[c].id = doing[c].id
           \/ m_datas[doing'[c].fd] # None,
         doing'[c].to = "waiting" =>
           /\ doing'[c].on = file[doing'[c].fd].id
           /\ \A d \in Callers : Hooked(d) => doing[d].to \notin {"del", "close"}
  PROVE  Tables' /\ OwnContext' /\ Reached'
  <1> USE DEF kernel, tables
  <1>1. Tables'
    BY DEF OneThread, Tables
  <1>2. \A d \in Callers : doing[d].to = "close" => doing'[d] = doing[d]
    BY DEF Owner
  <1>3. OwnContext'
    <2> SUFFICES ASSUME NEW d \in Callers
                 PROVE  /\ doing'[d].to \in {"size", "resize", "register", "waiting"} => doing'[d].set
                        /\ InIo(d)' /\ doing'[d].set /\ doing'[d].id = file'[doing'[d].fd].id =>
                             \/ m_datas'[doing'[d].fd] # None
                             \/ \E e \in Callers : /\ Hooked(e) /\ doing'[e].to = "close"
                                                   /\ doing'[e].fd = doing'[d].fd
      BY DEF OwnContext, Past, Hooked
    <2>1. CASE d # c
      <3>1. doing'[d] = doing[d] /\ (InIo(d)' => InIo(d) /\ doing[d].fd \in Fds)
        BY <2>1, CallsAre DEF InIo, DescriptorsIInv
      <3> QED
        BY <1>2, <3>1 DEF OneThread, OwnContext, Past
    <2>2. CASE d = c
      <3>1. InIo(c) => doing[c].fd \in Fds
        BY CallsAre DEF InIo, DescriptorsIInv
      <3> QED
        BY <1>2, <2>2, <3>1 DEF OneThread, OwnContext, Past, InIo
    <2> QED
      BY <2>1, <2>2
  <1>4. Reached'
    <2> SUFFICES ASSUME NEW d \in Callers, doing'[d].to = "waiting", doing'[d].on = doing'[d].id
                 PROVE  /\ file'[doing'[d].fd].id = doing'[d].id \/ doing'[d].id \in outside'
                        /\ \A e \in Callers : Hooked(e) /\ doing'[e].to \in {"del", "close"} =>
                             doing'[e].fd # doing'[d].fd \/ doing'[d].id \in outside'
      BY DEF Reached, Hooked
    <2>1. \A e \in Callers : doing'[e].to \in {"del", "close"} => doing'[e] = doing[e]
      BY DEF Owner
    <2>2. CASE d # c
      BY <2>1, <2>2 DEF OneThread, Reached
    <2>3. CASE d = c
      BY <2>1, <2>3
    <2> QED
      BY <2>2, <2>3
  <1> QED
    BY <1>1, <1>3, <1>4

LEMMA Moved ==
  ASSUME DescriptorsTypeOK, NEW c \in Callers, doing[c].to # "idle", NEW place \in Places,
         Goto(c, place)
  PROVE  /\ doing' \in [Callers -> Calls \cup {Idle}]
         /\ doing'[c].to = place /\ doing'[c].fd = doing[c].fd /\ doing'[c].id = doing[c].id
         /\ doing'[c].set = doing[c].set /\ doing'[c].keep = doing[c].keep
         /\ doing'[c].kept = doing[c].kept /\ doing'[c].on = doing[c].on
         /\ \A d \in Callers \ {c} : doing'[d] = doing[d]
  <1>1. doing[c] \in Calls
    BY CallsAre
  <1>2. PICK r \in Calls : r = doing[c]
    BY <1>1
  <1>3. [r EXCEPT !.to = place] \in Calls
    BY DEF Calls
  <1>4. doing' = [doing EXCEPT ![c] = [r EXCEPT !.to = place]]
    BY <1>2 DEF Goto
  <1>5. doing'[c] = [r EXCEPT !.to = place] /\ \A d \in Callers \ {c} : doing'[d] = doing[d]
    BY <1>4 DEF DescriptorsTypeOK
  <1>6. doing' \in [Callers -> Calls \cup {Idle}]
    BY <1>3, <1>4 DEF DescriptorsTypeOK
  <1> QED
    BY <1>2, <1>5, <1>6 DEF Calls

LEMMA Ended ==
  ASSUME DescriptorsTypeOK, NEW c \in Callers, End(c)
  PROVE  /\ doing' \in [Callers -> Calls \cup {Idle}]
         /\ doing'[c] = Idle /\ \A d \in Callers \ {c} : doing'[d] = doing[d]
  BY DEF DescriptorsTypeOK, End

LEMMA IsWoken ==
  ASSUME DescriptorsTypeOK, NEW c \in Callers, doing[c].to # "idle"
  PROVE  /\ Woken(c) \in Calls
         /\ Woken(c).to = "woken" /\ Woken(c).fd = doing[c].fd /\ Woken(c).id = doing[c].id
         /\ Woken(c).set = doing[c].set /\ Woken(c).kept
  <1>1. PICK r \in Calls : r = doing[c]
    BY CallsAre
  <1>2. Woken(c) = [r EXCEPT !.to = "woken", !.on = 0, !.kept = TRUE]
    BY <1>1 DEF Woken
  <1>3. PICK on \in Nat : on = 0
    OBVIOUS
  <1>4. [r EXCEPT !.to = "woken", !.on = on, !.kept = TRUE] \in Calls
    BY DEF Calls, Places
  <1>5. Woken(c).to = "woken" /\ Woken(c).kept
    BY <1>2 DEF Calls
  <1>6. Woken(c).fd = r.fd /\ Woken(c).id = r.id /\ Woken(c).set = r.set
    BY <1>2 DEF Calls
  <1> QED
    BY <1>1, <1>2, <1>3, <1>4, <1>5, <1>6

LEMMA IdleIs ==
  Idle.to = "idle" /\ Idle.kept /\ ~Idle.set
  BY DEF Idle

\* The invariant after a step of an io call.
LEMMA IoStep ==
  ASSUME DescriptorsIInv, NEW c \in Callers, c \notin Outsiders,
         ~Owner(c), ~Owner(c)', doing'[c].to # "flags",
         doing' \in [Callers -> Calls \cup {Idle}],
         \A d \in Callers \ {c} : doing'[d] = doing[d],
         UNCHANGED <<parallel, kernel, tables>>,
         doing'[c].to \in Resting \/ Runs(c),
         ~parallel =>
           /\ doing'[c].kept
           /\ doing'[c].to = "resize" => contextsSize <= doing'[c].fd
           /\ doing'[c].to \in {"register", "waiting"} => doing'[c].fd < contextsSize
           /\ doing'[c].to \in {"size", "resize", "register", "waiting"} => doing'[c].set
           /\ InIo(c)' /\ doing'[c].set =>
               \/ InIo(c) /\ doing[c].set /\ doing'[c].fd = doing[c].fd /\ doing'[c].id = doing[c].id
               \/ m_datas[doing'[c].fd] # None
           /\ doing'[c].to = "waiting" =>
                /\ doing'[c].on = file[doing'[c].fd].id
                /\ \A d \in Callers : Hooked(d) => doing[d].to \notin {"del", "close"}
  PROVE  DescriptorsIInv'
  <1>1. contextsSize' \in Nat
    BY DEF tables, DescriptorsIInv, DescriptorsTypeOK
  <1>2. DescriptorsTypeOK' /\ Numbers' /\ Owners' /\ ContextOf' /\ Unfinished' /\ Flags'
    <2>1. UNCHANGED <<parallel, kernel, m_datas, datasSize>>
      BY DEF tables
    <2> QED
      BY <1>1, <2>1, IoKeeps
  <1>3. ASSUME ~parallel PROVE OneThread'
    <2>1. OneThread
      BY <1>3 DEF DescriptorsIInv
    <2>2. OneActive'
      <3>1. CASE doing'[c].to \in Resting
        BY <2>1, <3>1, OthersRest DEF OneThread
      <3>2. CASE Runs(c)
        <4>1. \A d \in Callers : d \notin Outsiders /\ d # c => doing'[d].to \in Resting
          BY <1>3, <3>2, RunsAlone
        <4> QED
          BY <4>1, StaysOne
      <3> QED
        BY <3>1, <3>2
    <2>3. Tables' /\ OwnContext' /\ Reached'
      <3>1. UNCHANGED <<kernel, tables>>
        OBVIOUS
      <3> QED
        BY <1>3, <2>1, <3>1, IoGoesOn
    <2> QED
      BY <2>2, <2>3 DEF OneThread
  <1> QED
    BY <1>2, <1>3 DEF DescriptorsIInv

LEMMA EnterIoIInv ==
  ASSUME DescriptorsIInv, NEW c \in Callers, EnterIo(c)
  PROVE  DescriptorsIInv'
  <1>1. At(c, "idle") /\ Hooked(c) /\ UNCHANGED <<parallel, kernel, tables>>
    BY DEF EnterIo
  <1>2. PICK fd \in Fds :
          /\ Usable(fd)
          /\ doing' = [doing EXCEPT ![c] =
               [Idle EXCEPT !.to = "try", !.fd = fd, !.id = file[fd].id,
                            !.set = Ctx(fd) # None /\ ~Ctx(fd).user]]
    BY DEF EnterIo
  <1>3. PICK set \in BOOLEAN : set = (Ctx(fd) # None /\ ~Ctx(fd).user)
    OBVIOUS
  <1>4. set => m_datas[fd] # None
    BY <1>3 DEF Ctx
  <1>5. file[fd].id \in 1..opened
    BY <1>2, FilesAre DEF Usable, DescriptorsIInv
  <1>6. PICK r : r = [Idle EXCEPT !.to = "try", !.fd = fd, !.id = file[fd].id, !.set = set]
    OBVIOUS
  <1>7. r \in Calls /\ r.to = "try" /\ r.kept /\ r.fd = fd /\ r.set = set
    BY <1>5, <1>6 DEF Idle, Calls, Places
  <1>8. /\ doing' \in [Callers -> Calls \cup {Idle}] /\ doing'[c] = r
        /\ \A d \in Callers \ {c} : doing'[d] = doing[d]
    BY <1>2, <1>3, <1>6, <1>7 DEF DescriptorsIInv, DescriptorsTypeOK
  <1>9. ~Owner(c) /\ ~Owner(c)'
    BY <1>1, <1>7, <1>8 DEF At, Owner
  <1> QED
    BY <1>1, <1>4, <1>7, <1>8, <1>9, IoStep DEF At, Hooked

LEMMA TryIInv ==
  ASSUME DescriptorsIInv, NEW c \in Callers, Try(c)
  PROVE  DescriptorsIInv'
  <1>1. doing[c].to \in {"try", "woken"} /\ Runs(c) /\ UNCHANGED <<parallel, kernel, tables>>
    BY DEF Try
  <1>2. c \notin Outsiders /\ ~Owner(c) /\ (~parallel => doing[c].kept)
    BY <1>1 DEF Owner, DescriptorsIInv, Owners, OneThread, Tables
  <1>3. CASE End(c)
    <2>1. /\ doing' \in [Callers -> Calls \cup {Idle}] /\ doing'[c] = Idle
          /\ \A d \in Callers \ {c} : doing'[d] = doing[d]
      BY <1>3, Ended DEF DescriptorsIInv
    <2>2. ~Owner(c)'
      BY <2>1, IdleIs DEF Owner
    <2> QED
      BY <1>1, <1>2, <2>1, <2>2, IdleIs, IoStep DEF InIo
  <1>4. CASE doing[c].set /\ Goto(c, "size")
    <2>1. /\ doing' \in [Callers -> Calls \cup {Idle}] /\ doing'[c].to = "size"
          /\ doing'[c].set /\ doing'[c].kept = doing[c].kept
          /\ doing'[c].fd = doing[c].fd /\ doing'[c].id = doing[c].id
          /\ \A d \in Callers \ {c} : doing'[d] = doing[d]
      BY <1>1, <1>4, Moved DEF DescriptorsIInv, Places
    <2>2. ~Owner(c)'
      BY <2>1 DEF Owner
    <2> QED
      BY <1>1, <1>2, <1>4, <2>1, <2>2, IoStep DEF InIo
  <1>5. CASE Goto(c, "blocked")
    <2>1. /\ doing' \in [Callers -> Calls \cup {Idle}] /\ doing'[c].to = "blocked"
          /\ doing'[c].kept = doing[c].kept
          /\ \A d \in Callers \ {c} : doing'[d] = doing[d]
      BY <1>1, <1>5, Moved DEF DescriptorsIInv, Places
    <2>2. ~Owner(c)'
      BY <2>1 DEF Owner
    <2> QED
      BY <1>1, <1>2, <2>1, <2>2, IoStep DEF InIo
  <1> QED
    BY <1>3, <1>4, <1>5 DEF Try

LEMMA ReadSizeIInv ==
  ASSUME DescriptorsIInv, NEW c \in Callers, ReadSize(c)
  PROVE  DescriptorsIInv'
  <1>1. doing[c].to = "size" /\ Runs(c) /\ UNCHANGED <<parallel, kernel, tables>>
    BY DEF ReadSize, At
  <1>2. /\ c \notin Outsiders /\ ~Owner(c)
        /\ ~parallel => doing[c].kept /\ doing[c].set
    BY <1>1 DEF Owner, DescriptorsIInv, Owners, OneThread, Tables, OwnContext
  <1>3. PICK place \in {"register", "resize"} :
          /\ Goto(c, place)
          /\ place = "register" => contextsSize > doing[c].fd
          /\ place = "resize" => ~ contextsSize > doing[c].fd
    BY DEF ReadSize
  <1>4. doing[c].fd \in Nat /\ contextsSize \in Nat
    BY <1>1, CallsAre, DescriptorsAssumption DEF DescriptorsIInv, DescriptorsTypeOK
  <1>5. /\ place = "register" => doing[c].fd < contextsSize
        /\ place = "resize" => contextsSize <= doing[c].fd
    BY <1>3, <1>4
  <1>6. /\ doing' \in [Callers -> Calls \cup {Idle}] /\ doing'[c].to = place
        /\ doing'[c].set = doing[c].set /\ doing'[c].kept = doing[c].kept
        /\ doing'[c].fd = doing[c].fd /\ doing'[c].id = doing[c].id
        /\ \A d \in Callers \ {c} : doing'[d] = doing[d]
    BY <1>1, <1>3, Moved DEF DescriptorsIInv, Places
  <1>7. ~Owner(c)'
    BY <1>6 DEF Owner
  <1> QED
    BY <1>1, <1>2, <1>5, <1>6, <1>7, IoStep DEF InIo

LEMMA RegisterIInv ==
  ASSUME DescriptorsIInv, NEW c \in Callers, Register(c)
  PROVE  DescriptorsIInv'
  <1>1. doing[c].to = "register" /\ Runs(c) /\ UNCHANGED <<parallel, kernel, tables>>
    BY DEF Register, At
  <1>2. /\ c \notin Outsiders /\ ~Owner(c)
        /\ ~parallel => doing[c].kept /\ doing[c].set /\ doing[c].fd < contextsSize
    BY <1>1 DEF Owner, DescriptorsIInv, Owners, OneThread, Tables, OwnContext
  <1>3. CASE End(c)
    <2>1. /\ doing' \in [Callers -> Calls \cup {Idle}] /\ doing'[c] = Idle
          /\ \A d \in Callers \ {c} : doing'[d] = doing[d]
      BY <1>3, Ended DEF DescriptorsIInv
    <2>2. ~Owner(c)'
      BY <2>1, IdleIs DEF Owner
    <2> QED
      BY <1>1, <1>2, <2>1, <2>2, IdleIs, IoStep DEF InIo
  <1>4. CASE doing' = [doing EXCEPT ![c].to = "waiting", ![c].on = file[doing[c].fd].id]
    <2>1. PICK r \in Calls : r = doing[c]
      BY <1>1, CallsAre DEF DescriptorsIInv
    <2>2. PICK on \in Nat : on = file[doing[c].fd].id
      BY <1>1, CallsAre, FilesAre DEF DescriptorsIInv
    <2>3. PICK w : w = [r EXCEPT !.to = "waiting", !.on = on]
      OBVIOUS
    <2>4. /\ w \in Calls /\ w.to = "waiting" /\ w.on = on /\ w.set = r.set /\ w.kept = r.kept
          /\ w.fd = r.fd /\ w.id = r.id
      BY <2>3 DEF Calls, Places
    <2>5. doing' = [doing EXCEPT ![c] = w]
      BY <1>4, <2>1, <2>2, <2>3 DEF DescriptorsIInv, DescriptorsTypeOK
    <2>6. /\ doing' \in [Callers -> Calls \cup {Idle}] /\ doing'[c] = w
          /\ \A d \in Callers \ {c} : doing'[d] = doing[d]
      BY <2>4, <2>5 DEF DescriptorsIInv, DescriptorsTypeOK
    <2>7. ~Owner(c)'
      BY <2>4, <2>6 DEF Owner
    <2>8. ~parallel => \A d \in Callers : Hooked(d) => doing[d].to \notin {"del", "close"}
      BY <1>1, <1>2, RunsAlone DEF Hooked, Resting
    <2> QED
      BY <1>1, <1>2, <2>1, <2>2, <2>4, <2>6, <2>7, <2>8, IoStep DEF InIo
  <1> QED
    BY <1>3, <1>4 DEF Register

LEMMA ReadyIInv ==
  ASSUME DescriptorsIInv, NEW c \in Callers, Ready(c)
  PROVE  DescriptorsIInv'
  <1>1. /\ doing[c].to = "waiting" /\ doing' = [doing EXCEPT ![c] = Woken(c)]
        /\ UNCHANGED <<parallel, kernel, tables>>
    BY DEF Ready
  <1>2. c \notin Outsiders /\ ~Owner(c)
    BY <1>1 DEF Owner, DescriptorsIInv, Owners
  <1>3. /\ doing' \in [Callers -> Calls \cup {Idle}] /\ doing'[c] = Woken(c)
        /\ \A d \in Callers \ {c} : doing'[d] = doing[d]
    BY <1>1, IsWoken DEF DescriptorsIInv, DescriptorsTypeOK
  <1>4. /\ doing'[c].to = "woken" /\ doing'[c].fd = doing[c].fd /\ doing'[c].id = doing[c].id
        /\ doing'[c].set = doing[c].set /\ doing'[c].kept
    BY <1>1, <1>3, IsWoken DEF DescriptorsIInv
  <1>5. ~Owner(c)' /\ doing'[c].to \in Resting
    BY <1>4 DEF Owner, Resting
  <1> QED
    BY <1>1, <1>2, <1>3, <1>4, <1>5, IoStep DEF InIo

LEMMA EndsIInv ==
  ASSUME DescriptorsIInv, NEW c \in Callers, Unblock(c) \/ Expire(c)
  PROVE  DescriptorsIInv'
  <1>1. /\ doing[c].to \in {"blocked", "waiting"} /\ End(c)
        /\ UNCHANGED <<parallel, kernel, tables>>
    BY DEF Unblock, Expire
  <1>2. c \notin Outsiders /\ ~Owner(c)
    BY <1>1 DEF Owner, DescriptorsIInv, Owners
  <1>3. /\ doing' \in [Callers -> Calls \cup {Idle}] /\ doing'[c] = Idle
        /\ \A d \in Callers \ {c} : doing'[d] = doing[d]
    BY <1>1, Ended DEF DescriptorsIInv
  <1>4. ~Owner(c)' /\ doing'[c].to \in Resting
    BY <1>3, IdleIs DEF Owner, Resting
  <1> QED
    BY <1>1, <1>2, <1>3, <1>4, IdleIs, IoStep DEF InIo

LEMMA ContextResizeIInv ==
  ASSUME DescriptorsIInv, NEW c \in Callers, ContextResize(c)
  PROVE  DescriptorsIInv'
  <1>1. /\ doing[c].to = "resize" /\ Runs(c) /\ contextsSize' = Grown(doing[c].fd)
        /\ doing' = [d \in Callers |->
             IF d = c THEN [doing[c] EXCEPT !.to = "register"]
             ELSE [doing[d] EXCEPT !.kept = @ /\ (doing[d].to \in {"register", "waiting"}
                                                    => doing[d].fd < contextsSize')]]
        /\ UNCHANGED <<parallel, kernel, m_datas, datasSize>>
    BY DEF ContextResize, At
  <1>2. c \notin Outsiders
    BY <1>1 DEF DescriptorsIInv, Owners
  <1>3. doing[c].fd \in Nat /\ doing[c].fd >= 2 /\ contextsSize' \in Nat
        /\ doing[c].fd < contextsSize'
    BY <1>1, CallsAre, DescriptorsAssumption DEF DescriptorsIInv, Grown
  <1>4. ASSUME NEW d \in Callers \ {c}
        PROVE  /\ doing'[d] \in Calls \cup {Idle} /\ doing'[d].to = doing[d].to
               /\ doing'[d].fd = doing[d].fd /\ doing'[d].id = doing[d].id
               /\ doing'[d].set = doing[d].set /\ doing'[d].on = doing[d].on
               /\ doing'[d].keep = doing[d].keep
               /\ doing'[d].kept = (doing[d].kept /\ (doing[d].to \in {"register", "waiting"}
                                                       => doing[d].fd < contextsSize'))
               /\ doing[d].to \notin {"register", "waiting"} => doing'[d] = doing[d]
    <2>1. PICK keeps \in BOOLEAN :
            keeps = (doing[d].kept /\ (doing[d].to \in {"register", "waiting"}
                                        => doing[d].fd < contextsSize'))
      BY CallsAre DEF DescriptorsIInv
    <2>2. PICK r \in Calls \cup {Idle} : r = doing[d]
      BY DEF DescriptorsIInv, DescriptorsTypeOK
    <2>3. doing'[d] = [r EXCEPT !.kept = keeps]
      BY <1>1, <2>1, <2>2
    <2>4. CASE r = Idle
      <3>1. keeps = TRUE /\ doing[d].to \notin {"register", "waiting"}
        BY <2>1, <2>2, <2>4, IdleIs
      <3>a. r \in [to : {"idle"}, fd : Nat, id : Nat, set : BOOLEAN, keep : BOOLEAN,
                  on : Nat, kept : BOOLEAN]
        BY <2>4 DEF Idle
      <3>b. r.kept = TRUE
        BY <2>4 DEF Idle
      <3>2. [r EXCEPT !.kept = TRUE] = r
        BY <3>a, <3>b
      <3> QED
        BY <2>1, <2>2, <2>3, <3>1, <3>2
    <2>5. CASE r \in Calls
      <3>1. [r EXCEPT !.kept = keeps] \in Calls
        BY <2>5 DEF Calls
      <3>2. /\ doing'[d].to = r.to /\ doing'[d].fd = r.fd /\ doing'[d].id = r.id
            /\ doing'[d].set = r.set /\ doing'[d].on = r.on /\ doing'[d].keep = r.keep
            /\ doing'[d].kept = keeps
        BY <2>3, <2>5 DEF Calls
      <3>3. r.to \notin {"register", "waiting"} => keeps = r.kept
        BY <2>1, <2>2, CallsAre DEF DescriptorsIInv
      <3>4. keeps = r.kept => [r EXCEPT !.kept = keeps] = r
        BY <2>5 DEF Calls
      <3> QED
        BY <2>1, <2>2, <2>3, <3>1, <3>2, <3>3, <3>4
    <2> QED
      BY <2>4, <2>5
  <1>5. /\ doing'[c] \in Calls /\ doing'[c].to = "register" /\ doing'[c].fd = doing[c].fd
        /\ doing'[c].id = doing[c].id /\ doing'[c].set = doing[c].set
        /\ doing'[c].kept = doing[c].kept
    <2>1. PICK r \in Calls : r = doing[c]
      BY <1>1, CallsAre DEF DescriptorsIInv
    <2>2. doing'[c] = [r EXCEPT !.to = "register"]
      BY <1>1, <2>1
    <2> QED
      BY <2>1, <2>2 DEF Calls, Places
  <1>6. doing' \in [Callers -> Calls \cup {Idle}]
    <2>1. \A d \in Callers : doing'[d] \in Calls \cup {Idle}
      BY <1>4, <1>5
    <2> QED
      BY <1>1, <2>1
  <1>7. DescriptorsTypeOK' /\ Numbers' /\ Owners' /\ ContextOf' /\ Unfinished' /\ Flags'
    <2>1. \A d \in Callers :
            \/ doing'[d] = doing[d]
            \/ /\ ~Owner(d) /\ ~Owner(d)' /\ doing'[d].to # "flags"
               /\ d \in Outsiders => doing'[d].to = "idle"
      <3>1. ~Owner(c) /\ ~Owner(c)' /\ doing'[c].to # "flags"
        BY <1>1, <1>5 DEF Owner
      <3>2. \A d \in Callers \ {c} : doing[d].to \in {"register", "waiting"} =>
              /\ ~Owner(d) /\ ~Owner(d)' /\ doing'[d].to # "flags" /\ d \notin Outsiders
        BY <1>4 DEF Owner, DescriptorsIInv, Owners
      <3> QED
        BY <1>2, <1>4, <3>1, <3>2
    <2> QED
      BY <1>1, <1>3, <1>6, <2>1, IoKeeps
  <1>8. ASSUME ~parallel PROVE OneThread'
    <2>1. \A d \in Callers : d \notin Outsiders /\ d # c => doing[d].to \in Resting
      BY <1>1, <1>2, <1>8, RunsAlone
    <2>2. OneThread
      BY <1>8 DEF DescriptorsIInv
    <2>3. OneActive'
      <3>1. \A d \in Callers : d \notin Outsiders /\ d # c => doing'[d].to \in Resting
        BY <1>4, <2>1
      <3> QED
        BY <3>1, StaysOne
    \* the table has become larger
    <2>4. \A d \in Callers \ {c} :
            doing[d].to \in {"register", "waiting"} => doing[d].fd < contextsSize'
      <3> SUFFICES ASSUME NEW d \in Callers \ {c}, doing[d].to \in {"register", "waiting"}
                   PROVE  doing[d].fd < contextsSize'
        OBVIOUS
      <3>1. doing[d].fd < contextsSize /\ contextsSize <= doing[c].fd
        BY <1>1, <2>2 DEF OneThread, Tables
      <3>2. doing[d].fd \in Nat /\ contextsSize \in Nat
        BY CallsAre, DescriptorsAssumption DEF DescriptorsIInv, DescriptorsTypeOK
      <3> QED
        BY <1>3, <3>1, <3>2
    <2>5. \A d \in Callers \ {c} : doing[d].to # "resize"
      BY <1>2, <2>1 DEF Resting, DescriptorsIInv, Owners
    <2>6. Tables'
      <3>1. /\ doing'[c].kept /\ doing'[c].to = "register" /\ doing'[c].fd < contextsSize'
        BY <1>3, <1>5, <2>2 DEF OneThread, Tables
      <3>2. ASSUME NEW d \in Callers \ {c}
            PROVE  /\ doing'[d].kept /\ doing'[d].to # "resize"
                   /\ doing'[d].to \in {"register", "waiting"} => doing'[d].fd < contextsSize'
        <4>1. doing[d].kept
          BY <2>2 DEF OneThread, Tables
        <4> QED
          BY <1>4, <2>4, <2>5, <4>1
      <3> QED
        BY <3>1, <3>2 DEF Tables
    <2>7. \A d \in Callers : InIo(d)' => InIo(d)
      BY <1>1, <1>4 DEF InIo
    <2>8. \A d \in Callers : /\ doing'[d].fd = doing[d].fd /\ doing'[d].id = doing[d].id
                             /\ doing'[d].set = doing[d].set
                             /\ doing'[d].to = "close" <=> doing[d].to = "close"
      BY <1>1, <1>4, <1>5
    <2>9. OwnContext'
      <3>1. \A d \in Callers :
              doing'[d].to \in {"size", "resize", "register", "waiting"} => doing'[d].set
        BY <1>1, <1>4, <1>5, <2>2 DEF OneThread, OwnContext
      <3> QED
        BY <1>1, <2>2, <2>7, <2>8, <3>1 DEF OneThread, OwnContext, Past, kernel
    <2>10. Reached'
      BY <1>1, <1>4, <1>5, <2>2 DEF OneThread, Reached, kernel
    <2> QED
      BY <2>3, <2>6, <2>9, <2>10 DEF OneThread
  <1> QED
    BY <1>1, <1>7, <1>8 DEF DescriptorsIInv

LEMMA CancelAllIInv ==
  ASSUME DescriptorsIInv, NEW c \in Callers, CancelAll(c)
  PROVE  DescriptorsIInv'
  <1>1. /\ doing[c].to = "cancel" /\ Runs(c)
        /\ doing' = [d \in Callers |->
             IF d = c THEN [doing[c] EXCEPT !.to = "del"]
             ELSE IF doing[d].to = "waiting" /\ doing[d].fd = doing[c].fd
                       /\ doing[d].kept /\ doing[d].fd < contextsSize
                  THEN Woken(d) ELSE doing[d]]
        /\ UNCHANGED <<parallel, kernel, tables>>
    BY DEF CancelAll, At
  <1>2. c \notin Outsiders
    BY <1>1 DEF DescriptorsIInv, Owners
  <1>3. \A d \in Callers \ {c} :
          \/ doing'[d] = doing[d]
          \/ /\ doing[d].to = "waiting" /\ doing'[d] \in Calls /\ doing'[d].to = "woken"
             /\ doing'[d].fd = doing[d].fd /\ doing'[d].id = doing[d].id
             /\ doing'[d].set = doing[d].set /\ doing'[d].kept
    BY <1>1, IsWoken DEF DescriptorsIInv
  <1>4. \A d \in Callers \ {c} :
          doing[d].to = "waiting" /\ doing[d].fd = doing[c].fd
            /\ doing[d].kept /\ doing[d].fd < contextsSize => doing'[d].to = "woken"
    BY <1>1, IsWoken DEF DescriptorsIInv
  <1>5. /\ doing'[c] \in Calls /\ doing'[c].to = "del" /\ doing'[c].fd = doing[c].fd
        /\ doing'[c].id = doing[c].id /\ doing'[c].kept = doing[c].kept
    <2>1. PICK r \in Calls : r = doing[c]
      BY <1>1, CallsAre DEF DescriptorsIInv
    <2>2. doing'[c] = [r EXCEPT !.to = "del"]
      BY <1>1, <2>1
    <2> QED
      BY <2>1, <2>2 DEF Calls, Places
  <1>6. doing' \in [Callers -> Calls \cup {Idle}]
    <2>1. \A d \in Callers : doing'[d] \in Calls \cup {Idle}
      BY <1>3, <1>5 DEF DescriptorsIInv, DescriptorsTypeOK
    <2> QED
      BY <1>1, <2>1
  <1>7. DescriptorsTypeOK' /\ Numbers' /\ Owners' /\ ContextOf' /\ Unfinished' /\ Flags'
    <2>1. /\ Owner(c) /\ Owner(c)' /\ (Opens(c) <=> Opens(c)') /\ doing'[c].to # "close"
      BY <1>1, <1>5 DEF Owner, Opens
    <2>2. \A d \in Callers \ {c} : doing'[d] = doing[d] \/
            /\ ~Owner(d) /\ ~Owner(d)' /\ doing'[d].to # "flags" /\ d \notin Outsiders
      BY <1>3 DEF Owner, DescriptorsIInv, Owners
    <2>3. contextsSize' \in Nat /\ UNCHANGED <<parallel, kernel, m_datas, datasSize>>
      BY <1>1 DEF tables, DescriptorsIInv, DescriptorsTypeOK
    <2> QED
      BY <1>2, <1>5, <1>6, <2>1, <2>2, <2>3, IoKeeps
  <1>8. ASSUME ~parallel PROVE OneThread'
    <2>1. \A d \in Callers : d \notin Outsiders /\ d # c => doing[d].to \in Resting
      BY <1>1, <1>2, <1>8, RunsAlone
    <2>2. OneThread
      BY <1>8 DEF DescriptorsIInv
    <2>3. OneActive'
      <3>1. \A d \in Callers : d \notin Outsiders /\ d # c => doing'[d].to \in Resting
        BY <1>3, <2>1 DEF Resting
      <3> QED
        BY <3>1, StaysOne
    <2>4. Tables'
      <3>1. contextsSize' = contextsSize
        BY <1>1 DEF tables
      <3>2. /\ doing'[c].kept /\ doing'[c].to \notin {"resize", "register", "waiting"}
        BY <1>5, <2>2 DEF OneThread, Tables
      <3>3. ASSUME NEW d \in Callers \ {c}
            PROVE  /\ doing'[d].kept
                   /\ doing'[d].to = "resize" => contextsSize <= doing'[d].fd
                   /\ doing'[d].to \in {"register", "waiting"} => doing'[d].fd < contextsSize
        BY <1>3, <2>2 DEF OneThread, Tables
      <3> QED
        BY <3>1, <3>2, <3>3 DEF Tables
    <2>5. OwnContext'
      <3>1. \A d \in Callers :
              doing'[d].to \in {"size", "resize", "register", "waiting"} => doing'[d].set
        BY <1>3, <1>5, <2>2 DEF OneThread, OwnContext
      <3>2. \A d \in Callers \ {c} : /\ doing'[d].fd = doing[d].fd /\ doing'[d].id = doing[d].id
                                     /\ doing'[d].set = doing[d].set
                                     /\ InIo(d)' => InIo(d)
                                     /\ doing'[d].to = "close" <=> doing[d].to = "close"
        BY <1>3 DEF InIo
      <3>3. ~InIo(c)'
        BY <1>5 DEF InIo
      <3> QED
        BY <1>1, <2>2, <3>1, <3>2, <3>3 DEF OneThread, OwnContext, Past, kernel, tables
    <2>6. Reached'
      <3>1. \A d \in Callers : doing'[d].to = "waiting" =>
              doing'[d] = doing[d] /\ doing[d].fd # doing[c].fd
        BY <1>3, <1>4, <1>5, <2>2 DEF OneThread, Tables
      <3>2. \A d \in Callers : d # c /\ doing'[d].to \in {"del", "close"} => doing'[d] = doing[d]
        BY <1>3
      <3> QED
        BY <1>1, <1>5, <2>2, <3>1, <3>2 DEF OneThread, Reached, kernel, Hooked
    <2> QED
      BY <2>3, <2>4, <2>5, <2>6 DEF OneThread
  <1> QED
    BY <1>1, <1>7, <1>8 DEF DescriptorsIInv

\* What a step makes of the invariant of one thread when it changes no io call, and the
\* contexts and sockets of io calls stay.
LEMMA OthersKeep ==
  ASSUME DescriptorsIInv, OneThread, NEW c \in Callers, ~InIo(c), ~InIo(c)', doing'[c].kept,
         \A d \in Callers \ {c} : doing'[d] = doing[d],
         contextsSize' = contextsSize, outside \subseteq outside',
         \A d \in Callers \ {c} : InIo(d) =>
           /\ file'[doing[d].fd].id = doing[d].id => file[doing[d].fd].id = doing[d].id
           /\ \/ m_datas'[doing[d].fd] # None
              \/ m_datas[doing[d].fd] = None
              \/ Hooked(c) /\ doing'[c].to = "close" /\ doing'[c].fd = doing[d].fd
           /\ \/ doing[c].to # "close" \/ doing'[c] = doing[c]
              \/ doing[c].fd # doing[d].fd
              \/ file'[doing[d].fd].id # doing[d].id,
         \A d \in Callers \ {c} : doing[d].to = "waiting" /\ doing[d].on = doing[d].id =>
           /\ file[doing[d].fd].id = doing[d].id =>
                file'[doing[d].fd].id = doing[d].id \/ doing[d].id \in outside'
           /\ \/ ~Hooked(c) \/ doing'[c].to \notin {"del", "close"}
              \/ doing[c].to \in {"del", "close"} /\ doing'[c].fd = doing[c].fd
              \/ doing'[c].fd # doing[d].fd
              \/ doing[d].id \in outside'
  PROVE  Tables' /\ OwnContext' /\ Reached'
  <1>1. Tables'
    <2>1. doing'[c].to \notin {"resize", "register", "waiting"}
      BY DEF InIo
    <2> QED
      BY <2>1 DEF OneThread, Tables
  <1>2. OwnContext'
    <2> SUFFICES ASSUME NEW d \in Callers
                 PROVE  /\ doing'[d].to \in {"size", "resize", "register", "waiting"} => doing'[d].set
                        /\ InIo(d)' /\ doing'[d].set /\ doing'[d].id = file'[doing'[d].fd].id =>
                             \/ m_datas'[doing'[d].fd] # None
                             \/ \E e \in Callers : /\ Hooked(e) /\ doing'[e].to = "close"
                                                   /\ doing'[e].fd = doing'[d].fd
      BY DEF OwnContext, Past, Hooked
    <2>1. CASE d = c
      BY <2>1 DEF InIo
    <2>2. CASE d # c
      <3>1. doing'[d] = doing[d] /\ (InIo(d)' => InIo(d))
        BY <2>2 DEF InIo
      <3>2. doing[d].to \in {"size", "resize", "register", "waiting"} => doing[d].set
        BY DEF OneThread, OwnContext
      <3>3. ASSUME InIo(d), doing[d].set, doing[d].id = file'[doing[d].fd].id,
                   m_datas'[doing[d].fd] = None
            PROVE  \E e \in Callers : /\ Hooked(e) /\ doing'[e].to = "close"
                                      /\ doing'[e].fd = doing[d].fd
        <4>1. doing[d].id = file[doing[d].fd].id
          BY <2>2, <3>3
        <4>2. CASE m_datas[doing[d].fd] # None
          BY <2>2, <3>3, <4>2
        <4>3. CASE m_datas[doing[d].fd] = None
          <5>1. PICK e \in Callers : Hooked(e) /\ doing[e].to = "close" /\ doing[e].fd = doing[d].fd
            BY <3>3, <4>1, <4>3 DEF OneThread, OwnContext, Past
          <5> QED
            BY <2>2, <3>3, <5>1
        <4> QED
          BY <4>2, <4>3
      <3> QED
        BY <3>1, <3>2, <3>3
    <2> QED
      BY <2>1, <2>2
  <1>3. Reached'
    <2> SUFFICES ASSUME NEW d \in Callers, doing'[d].to = "waiting", doing'[d].on = doing'[d].id
                 PROVE  /\ file'[doing'[d].fd].id = doing'[d].id \/ doing'[d].id \in outside'
                        /\ \A e \in Callers : Hooked(e) /\ doing'[e].to \in {"del", "close"} =>
                             doing'[e].fd # doing'[d].fd \/ doing'[d].id \in outside'
      BY DEF Reached, Hooked
    <2>1. d # c /\ doing'[d] = doing[d]
      BY DEF InIo
    <2>2. file'[doing[d].fd].id = doing[d].id \/ doing[d].id \in outside'
      BY <2>1 DEF OneThread, Reached
    <2>3. ASSUME NEW e \in Callers, Hooked(e), doing'[e].to \in {"del", "close"}
          PROVE  doing'[e].fd # doing[d].fd \/ doing[d].id \in outside'
      <3>1. CASE e # c
        BY <2>1, <2>3, <3>1 DEF OneThread, Reached
      <3>2. CASE e = c
        BY <2>1, <2>3, <3>2 DEF OneThread, Reached
      <3> QED
        BY <3>1, <3>2
    <2> QED
      BY <2>1, <2>2, <2>3
  <1> QED
    BY <1>1, <1>2, <1>3

LEMMA OneActs ==
  ASSUME DescriptorsIInv, ~parallel, NEW c \in Callers, Runs(c),
         \A d \in Callers \ {c} : doing'[d] = doing[d]
  PROVE  OneActive'
  <1>1. CASE c \in Outsiders
    BY <1>1, OthersRest DEF DescriptorsIInv, OneThread
  <1>2. CASE c \notin Outsiders
    <2>1. \A d \in Callers : d \notin Outsiders /\ d # c => doing'[d].to \in Resting
      BY <1>2, RunsAlone
    <2> QED
      BY <2>1, StaysOne
  <1> QED
    BY <1>1, <1>2

LEMMA BeginIs ==
  ASSUME DescriptorsTypeOK, NEW c \in Callers, NEW fd \in Fds, IsOpen(fd),
         NEW place \in Places, Begin(c, place, fd)
  PROVE  /\ doing' \in [Callers -> Calls \cup {Idle}]
         /\ doing'[c].to = place /\ doing'[c].fd = fd /\ doing'[c].id = file[fd].id
         /\ doing'[c].kept
         /\ \A d \in Callers \ {c} : doing'[d] = doing[d]
  <1>1. PICK id \in 1..opened : id = file[fd].id
    BY FilesAre
  <1>2. PICK r : r = [Idle EXCEPT !.to = place, !.fd = fd, !.id = id]
    OBVIOUS
  <1>3. r \in Calls /\ r.to = place /\ r.fd = fd /\ r.id = id /\ r.kept
    BY <1>2 DEF Idle, Calls
  <1>4. doing' = [doing EXCEPT ![c] = r]
    BY <1>1, <1>2 DEF Begin
  <1> QED
    BY <1>1, <1>3, <1>4 DEF DescriptorsTypeOK

\* Nobody is in the middle of opening or closing what somebody else opens or closes.
LEMMA OwnerIs ==
  ASSUME DescriptorsIInv, NEW c \in Callers, Owner(c)
  PROVE  /\ doing[c] \in Calls /\ doing[c].fd \in Fds /\ IsOpen(doing[c].fd)
         /\ doing[c].id = file[doing[c].fd].id
         /\ \A d \in Callers \ {c} : Owner(d) => doing[d].fd # doing[c].fd
         /\ doing[c].to # "idle" /\ ~InIo(c)
         /\ ~parallel => doing[c].kept
  <1>1. doing[c].to # "idle" /\ ~InIo(c)
    BY DEF Owner, InIo
  <1>2. doing[c] \in Calls /\ doing[c].fd \in Fds
    BY <1>1, CallsAre DEF DescriptorsIInv
  <1> QED
    BY <1>1, <1>2 DEF DescriptorsIInv, Owners, OneThread, Tables

LEMMA NobodyOwns ==
  ASSUME NEW fd \in Fds, Usable(fd)
  PROVE  IsOpen(fd) /\ \A d \in Callers : Owner(d) => doing[d].fd # fd
  BY DEF Usable, Making, Closing, Owner

LEMMA GetIInv ==
  ASSUME DescriptorsIInv, NEW c \in Callers, Get(c)
  PROVE  DescriptorsIInv'
  <1>1. doing[c].to = "get" /\ Runs(c) /\ UNCHANGED <<parallel, kernel, tables>>
    BY DEF Get, At
  <1>2. c \notin Outsiders /\ Owner(c) /\ Opens(c)
    BY <1>1 DEF DescriptorsIInv, Owners, Owner, Opens
  <1>3. CASE Goto(c, "create")
    <2>1. /\ doing' \in [Callers -> Calls \cup {Idle}] /\ doing'[c].to = "create"
          /\ doing'[c].fd = doing[c].fd /\ doing'[c].id = doing[c].id
          /\ doing'[c].kept = doing[c].kept
          /\ \A d \in Callers \ {c} : doing'[d] = doing[d]
      BY <1>1, <1>3, Moved DEF DescriptorsIInv, Places
    <2>2. Owner(c)' /\ Opens(c)' /\ ~InIo(c)'
      BY <2>1 DEF Owner, Opens, InIo
    <2>3. DescriptorsTypeOK' /\ Numbers' /\ Owners' /\ ContextOf' /\ Unfinished' /\ Flags'
      <3>1. contextsSize' \in Nat /\ UNCHANGED <<parallel, kernel, m_datas, datasSize>>
        BY <1>1 DEF tables, DescriptorsIInv, DescriptorsTypeOK
      <3>2. doing'[c].to # "close"
        BY <2>1
      <3> QED
        BY <1>2, <2>1, <2>2, <3>1, <3>2, IoKeeps
    <2>4. ASSUME ~parallel PROVE OneThread'
      <3>1. OneActive'
        BY <1>1, <2>1, <2>4, OneActs
      <3>2. OneThread /\ doing'[c].kept /\ ~InIo(c)
        BY <1>2, <2>1, <2>4, OwnerIs DEF DescriptorsIInv
      <3>3. doing'[c].to \notin {"del", "close"} /\ doing[c].to # "close"
        BY <1>1, <2>1
      <3>4. /\ contextsSize' = contextsSize /\ outside' = outside
            /\ file' = file /\ m_datas' = m_datas
        BY <1>1 DEF kernel, tables
      <3>5. Tables' /\ OwnContext' /\ Reached'
        BY <2>1, <2>2, <3>2, <3>3, <3>4, OthersKeep
      <3> QED
        BY <3>1, <3>5 DEF OneThread
    <2> QED
      BY <1>1, <2>3, <2>4 DEF DescriptorsIInv
  <1>4. CASE End(c) /\ m_datas[doing[c].fd] # None
    <2>1. /\ doing' \in [Callers -> Calls \cup {Idle}] /\ doing'[c] = Idle
          /\ \A d \in Callers \ {c} : doing'[d] = doing[d]
      BY <1>4, Ended DEF DescriptorsIInv
    <2>2. ~Owner(c)' /\ ~Opens(c)' /\ ~InIo(c)' /\ doing'[c].to = "idle" /\ doing'[c].kept
      BY <2>1, IdleIs DEF Owner, Opens, InIo
    <2>3. UNCHANGED <<file, opened, outside, m_datas, datasSize, contextsSize>>
      BY <1>1 DEF kernel, tables
    <2>4. DescriptorsTypeOK' /\ Numbers' /\ ContextOf'
      BY <1>1, <2>1, <2>3 DEF DescriptorsIInv, DescriptorsTypeOK, Numbers, ContextOf, IsOpen,
                              Sockets, Contexts, Calls
    <2>5. Owners'
      <3>1. \A d \in Callers : Owner(d)' => d # c /\ Owner(d) /\ doing'[d] = doing[d]
        BY <2>1, <2>2 DEF Owner
      <3>2. \A d \in Outsiders : doing'[d].to \in {"idle", "close"}
        BY <2>1, <2>2, DescriptorsAssumption DEF DescriptorsIInv, Owners
      <3> QED
        BY <2>3, <3>1, <3>2 DEF DescriptorsIInv, Owners, IsOpen
    <2>6. Unfinished'
      <3>1. \A d \in Callers : Opens(d)' => Opens(d) /\ doing'[d] = doing[d]
        BY <2>1, <2>2 DEF Opens
      <3>2. \A d \in Callers : doing'[d].to = "close" => doing'[d] = doing[d]
        BY <2>1, <2>2
      <3>3. \A fd \in Fds \ {doing[c].fd} :
              (Making(fd)' <=> Making(fd)) /\ (Closing(fd)' <=> Closing(fd))
        BY <1>1, <2>1, <2>2 DEF Making, Closing
      <3>4. \A fd \in Fds : IsOpen(fd)' /\ file'[fd].hooked /\ ~Making(fd)' /\ ~Closing(fd)'
              => m_datas'[fd] # None
        BY <1>4, <2>3, <3>3 DEF DescriptorsIInv, Unfinished, IsOpen
      <3> QED
        BY <2>3, <3>1, <3>2, <3>4 DEF DescriptorsIInv, Unfinished, Hooked
    <2>7. Flags'
      <3>1. \A d \in Callers : Opens(d)' => Opens(d) /\ doing'[d] = doing[d]
        BY <2>1, <2>2 DEF Opens
      <3>2. \A d \in Callers : doing'[d].to = "flags" => doing'[d] = doing[d]
        BY <2>1, <2>2
      <3> QED
        BY <2>3, <3>1, <3>2 DEF DescriptorsIInv, Flags
    <2>8. ASSUME ~parallel PROVE OneThread'
      <3>1. OneActive'
        BY <1>1, <2>1, <2>8, OneActs
      <3>2. OneThread /\ ~InIo(c)
        BY <1>2, <2>8, OwnerIs DEF DescriptorsIInv
      <3>3. doing'[c].to \notin {"del", "close"} /\ doing[c].to # "close"
        BY <1>1, <2>2
      <3>4. Tables' /\ OwnContext' /\ Reached'
        BY <2>1, <2>2, <2>3, <3>2, <3>3, OthersKeep
      <3> QED
        BY <3>1, <3>4 DEF OneThread
    <2> QED
      BY <1>1, <2>4, <2>5, <2>6, <2>7, <2>8 DEF DescriptorsIInv
  <1> QED
    BY <1>3, <1>4 DEF Get

LEMMA CreateIInv ==
  ASSUME DescriptorsIInv, NEW c \in Callers, Create(c)
  PROVE  DescriptorsIInv'
  <1>1. doing[c].to = "create" /\ Runs(c) /\ End(c)
        /\ UNCHANGED <<parallel, opened, outside, contextsSize>>
    BY DEF Create, At
  <1>2. c \notin Outsiders /\ Owner(c) /\ Opens(c)
    BY <1>1 DEF DescriptorsIInv, Owners, Owner, Opens
  <1>3. PICK fd \in Fds : fd = doing[c].fd /\ IsOpen(fd)
    BY <1>2, OwnerIs
  <1>4. /\ file' = [file EXCEPT ![fd].nonblock = TRUE]
        /\ datasSize' = IF fd >= datasSize THEN Grown(fd) ELSE datasSize
        /\ m_datas' = [m_datas EXCEPT ![fd] = NewCtx(fd)]
    BY <1>3 DEF Create
  <1>5. /\ datasSize' \in Nat /\ fd < datasSize'
        /\ \A n \in Fds : n < datasSize => n < datasSize'
    <2>1. fd \in Nat /\ fd >= 2 /\ datasSize \in Nat /\ \A n \in Fds : n \in Nat
      BY FilesAre, DescriptorsAssumption DEF DescriptorsIInv
    <2> QED
      BY <1>4, <2>1 DEF Grown
  <1>6. /\ file' \in [Fds -> Sockets \cup {Closed}]
        /\ file'[fd].id = file[fd].id /\ file'[fd].nonblock /\ file'[fd].hooked = file[fd].hooked
        /\ file'[fd] # Closed
        /\ \A n \in Fds \ {fd} : file'[n] = file[n]
    <2>1. PICK r \in Sockets : r = file[fd]
      BY <1>3, FilesAre DEF DescriptorsIInv
    <2>2. PICK w : w = [r EXCEPT !.nonblock = TRUE]
      OBVIOUS
    <2>3. w \in Sockets /\ w.id = r.id /\ w.nonblock /\ w.hooked = r.hooked
      BY <2>2 DEF Sockets
    <2>4. w # Closed
      <3>1. w.id >= 1 /\ Closed.id = 0
        BY <2>3 DEF Sockets, Closed
      <3> QED
        BY <3>1
    <2>5. file' = [file EXCEPT ![fd] = w]
      BY <1>4, <2>1, <2>2
    <2> QED
      BY <2>1, <2>3, <2>4, <2>5 DEF DescriptorsIInv, DescriptorsTypeOK
  <1>7. /\ m_datas' \in [Fds -> Contexts \cup {None}] /\ m_datas'[fd] # None
        /\ m_datas'[fd].of = file[fd].id
        /\ \A n \in Fds \ {fd} : m_datas'[n] = m_datas[n]
    <2>1. NewCtx(fd) \in Contexts /\ NewCtx(fd).of = file[fd].id
      BY <1>3, FilesAre DEF NewCtx, Contexts, DescriptorsIInv
    <2>2. NewCtx(fd) # None
      <3>1. NewCtx(fd).of # 0 /\ None.of = 0
        BY <2>1 DEF Contexts, None
      <3> QED
        BY <3>1
    <2> QED
      BY <1>4, <2>1, <2>2 DEF DescriptorsIInv, DescriptorsTypeOK
  <1>8. /\ doing' \in [Callers -> Calls \cup {Idle}] /\ doing'[c] = Idle
        /\ \A d \in Callers \ {c} : doing'[d] = doing[d]
    BY <1>1, Ended DEF DescriptorsIInv
  <1>9. ~Owner(c)' /\ ~Opens(c)' /\ ~InIo(c)' /\ doing'[c].to = "idle" /\ doing'[c].kept
    BY <1>8, IdleIs DEF Owner, Opens, InIo
  <1>10. \A n \in Fds : /\ IsOpen(n)' <=> IsOpen(n)
                        /\ file'[n].id = file[n].id /\ file'[n].hooked = file[n].hooked
    BY <1>3, <1>6 DEF IsOpen
  <1>11. \A d \in Callers \ {c} : Owner(d) => doing[d].fd \in Fds \ {fd}
    BY <1>2, <1>3, OwnerIs
  <1>12. DescriptorsTypeOK'
    BY <1>1, <1>5, <1>6, <1>7, <1>8 DEF DescriptorsIInv, DescriptorsTypeOK, Sockets, Contexts, Calls
  <1>13. Numbers'
    BY <1>1, <1>10 DEF DescriptorsIInv, Numbers
  <1>14. Owners'
    <2>1. \A d \in Callers : Owner(d)' => d # c /\ Owner(d) /\ doing'[d] = doing[d]
      BY <1>8, <1>9 DEF Owner
    <2>2. \A d \in Outsiders : doing'[d].to \in {"idle", "close"}
      BY <1>8, <1>9, DescriptorsAssumption DEF DescriptorsIInv, Owners
    <2> QED
      BY <1>10, <1>11, <2>1, <2>2 DEF DescriptorsIInv, Owners
  <1>15. ContextOf'
    BY <1>1, <1>3, <1>5, <1>6, <1>7, <1>10 DEF DescriptorsIInv, ContextOf
  <1>16. Unfinished'
    <2>1. \A d \in Callers : Opens(d)' =>
            d # c /\ Opens(d) /\ doing'[d] = doing[d] /\ doing[d].fd \in Fds \ {fd}
      BY <1>8, <1>9, <1>11 DEF Opens, Owner
    <2>2. \A d \in Callers : doing'[d].to = "close" =>
            d # c /\ doing'[d] = doing[d] /\ doing[d].fd \in Fds \ {fd}
      BY <1>8, <1>9, <1>11 DEF Owner
    <2>3. \A n \in Fds \ {fd} : (Making(n)' <=> Making(n)) /\ (Closing(n)' <=> Closing(n))
      BY <1>1, <1>3, <1>8, <1>9 DEF Making, Closing
    <2>4. \A n \in Fds : IsOpen(n)' /\ file'[n].hooked /\ ~Making(n)' /\ ~Closing(n)'
            => m_datas'[n] # None
      BY <1>7, <1>10, <2>3 DEF DescriptorsIInv, Unfinished
    <2> QED
      BY <1>1, <1>7, <2>1, <2>2, <2>4 DEF DescriptorsIInv, Unfinished, Hooked
  <1>17. Flags'
    <2> SUFFICES ASSUME NEW d \in Callers, doing'[d].to = "flags",
                        doing'[d].id = file'[doing'[d].fd].id
                 PROVE  /\ \A e \in Callers : Opens(e)' => doing'[e].fd # doing'[d].fd
                        /\ doing'[d].keep /\ ~doing'[d].set => m_datas'[doing'[d].fd] = None
      BY DEF Flags
    <2>1. d # c /\ doing'[d] = doing[d] /\ doing[d].fd \in Fds
      BY <1>8, <1>9, CallsAre DEF DescriptorsIInv
    <2>2. doing[d].id = file[doing[d].fd].id
      BY <1>10, <2>1
    <2>3. doing[d].fd # fd
      BY <1>2, <1>3, <2>1, <2>2 DEF DescriptorsIInv, Flags
    <2>4. \A e \in Callers : Opens(e)' => Opens(e) /\ doing'[e] = doing[e]
      BY <1>8, <1>9 DEF Opens
    <2> QED
      BY <1>7, <2>1, <2>2, <2>3, <2>4 DEF DescriptorsIInv, Flags
  <1>18. ASSUME ~parallel PROVE OneThread'
    <2>1. OneActive'
      BY <1>1, <1>8, <1>18, OneActs
    <2>2. OneThread /\ ~InIo(c)
      BY <1>2, <1>18, OwnerIs DEF DescriptorsIInv
    <2>3. doing'[c].to \notin {"del", "close"} /\ doing[c].to # "close"
      BY <1>1, <1>9
    <2>4. \A d \in Callers : InIo(d) => doing[d].fd \in Fds
      BY CallsAre DEF DescriptorsIInv, InIo
    <2>5. \A d \in Callers : InIo(d) =>
            /\ file'[doing[d].fd].id = file[doing[d].fd].id
            /\ m_datas'[doing[d].fd] # None \/ m_datas[doing[d].fd] = None
      BY <1>7, <1>10, <2>4
    <2>6. \A d \in Callers : doing[d].to = "waiting" => InIo(d)
      BY DEF InIo
    <2>7. Tables' /\ OwnContext' /\ Reached'
      BY <1>1, <1>8, <1>9, <2>2, <2>3, <2>5, <2>6, OthersKeep
    <2> QED
      BY <2>1, <2>7 DEF OneThread
  <1> QED
    BY <1>1, <1>12, <1>13, <1>14, <1>15, <1>16, <1>17, <1>18 DEF DescriptorsIInv

\* fcntl() and ioctl(), up to the call of the system.
LEMMA SettingIInv ==
  ASSUME DescriptorsIInv, NEW c \in Callers, c \notin Outsiders, At(c, "idle"),
         NEW fd \in Fds, Usable(fd), \E nonblock \in BOOLEAN : SetUser(fd, nonblock),
         NEW r \in Calls, r.to = "flags", r.fd = fd, r.kept,
         r.keep /\ ~r.set => Ctx(fd) = None,
         doing' = [doing EXCEPT ![c] = r],
         UNCHANGED <<parallel, kernel, datasSize, contextsSize>>
  PROVE  DescriptorsIInv'
  <1>1. /\ UNCHANGED <<file, opened, outside>>
        /\ doing[c].to = "idle" /\ Runs(c)
    BY DEF kernel, At
  <1>2. m_datas[fd] # None => Ctx(fd) = m_datas[fd]
    BY DEF DescriptorsIInv, ContextOf, Ctx
  <1>3. /\ m_datas' \in [Fds -> Contexts \cup {None}]
        /\ \A n \in Fds : /\ m_datas'[n] = None <=> m_datas[n] = None
                          /\ m_datas[n] # None => m_datas'[n].of = m_datas[n].of
    <2>1. CASE Ctx(fd) = None
      BY <2>1 DEF SetUser, DescriptorsIInv, DescriptorsTypeOK
    <2>2. CASE Ctx(fd) # None
      <3>1. m_datas[fd] # None
        BY <2>2 DEF Ctx
      <3>2. PICK x \in Contexts : x = m_datas[fd]
        BY <3>1, FilesAre DEF DescriptorsIInv
      <3>3. PICK nonblock \in BOOLEAN : SetUser(fd, nonblock)
        OBVIOUS
      <3>4. PICK w : w = [x EXCEPT !.user = nonblock]
        OBVIOUS
      <3>5. w \in Contexts /\ w.of = x.of
        BY <3>4 DEF Contexts
      <3>6. w # None
        <4>1. w.of # 0 /\ None.of = 0
          BY <3>5 DEF Contexts, None
        <4> QED
          BY <4>1
      <3>7. m_datas' = [m_datas EXCEPT ![fd] = w]
        BY <2>2, <3>2, <3>4, <3>3 DEF SetUser
      <3> QED
        BY <3>1, <3>2, <3>5, <3>6, <3>7 DEF DescriptorsIInv, DescriptorsTypeOK
    <2> QED
      BY <2>1, <2>2
  <1>4. /\ doing' \in [Callers -> Calls \cup {Idle}] /\ doing'[c] = r
        /\ \A d \in Callers \ {c} : doing'[d] = doing[d]
    BY DEF DescriptorsIInv, DescriptorsTypeOK
  <1>5. ~Owner(c) /\ ~Owner(c)' /\ ~Opens(c) /\ ~Opens(c)' /\ ~InIo(c) /\ ~InIo(c)'
    BY <1>1, <1>4 DEF Owner, Opens, InIo
  <1>6. \A d \in Callers : /\ Owner(d)' => Owner(d) /\ doing'[d] = doing[d]
                           /\ Opens(d)' => Opens(d) /\ doing'[d] = doing[d]
                           /\ doing'[d].to = "close" => doing'[d] = doing[d]
                           /\ Owner(d) => doing[d].fd \in Fds
    BY <1>4, <1>5, OwnerIs DEF Owner, Opens
  <1>7. DescriptorsTypeOK'
    BY <1>1, <1>3, <1>4 DEF DescriptorsIInv, DescriptorsTypeOK, Sockets, Contexts, Calls
  <1>8. Numbers'
    BY <1>1 DEF DescriptorsIInv, Numbers, IsOpen
  <1>9. Owners'
    <2>1. \A d \in Outsiders : doing'[d].to \in {"idle", "close"}
      BY <1>4, DescriptorsAssumption DEF DescriptorsIInv, Owners
    <2> QED
      BY <1>1, <1>6, <2>1 DEF DescriptorsIInv, Owners, IsOpen
  <1>10. ContextOf'
    BY <1>1, <1>3 DEF DescriptorsIInv, ContextOf, IsOpen
  <1>11. Unfinished'
    <2>1. \A d \in Callers : Opens(d)' /\ m_datas'[doing'[d].fd] # None =>
            m_datas'[doing'[d].fd].of \in outside'
      <3>1. \A d \in Callers : Opens(d) => Owner(d)
        BY DEF Opens, Owner
      <3> QED
        BY <1>1, <1>3, <1>6, <3>1 DEF DescriptorsIInv, Unfinished
    <2>2. \A d \in Callers : doing'[d].to = "close" /\ Hooked(d) => m_datas'[doing'[d].fd] = None
      <3>1. \A d \in Callers : doing[d].to = "close" => Owner(d)
        BY DEF Owner
      <3> QED
        BY <1>3, <1>6, <3>1 DEF DescriptorsIInv, Unfinished
    <2>3. \A n \in Fds : (Making(n)' <=> Making(n)) /\ (Closing(n)' <=> Closing(n))
      BY <1>1, <1>4 DEF Making, Closing
    <2>4. \A n \in Fds : IsOpen(n)' /\ file'[n].hooked /\ ~Making(n)' /\ ~Closing(n)'
            => m_datas'[n] # None
      BY <1>1, <1>3, <2>3 DEF DescriptorsIInv, Unfinished, IsOpen
    <2> QED
      BY <2>1, <2>2, <2>4 DEF Unfinished, Hooked
  <1>12. Flags'
    <2> SUFFICES ASSUME NEW d \in Callers, doing'[d].to = "flags",
                        doing'[d].id = file'[doing'[d].fd].id
                 PROVE  /\ \A e \in Callers : Opens(e)' => doing'[e].fd # doing'[d].fd
                        /\ doing'[d].keep /\ ~doing'[d].set => m_datas'[doing'[d].fd] = None
      BY DEF Flags
    <2>1. CASE d = c
      <3>1. \A e \in Callers : Opens(e) => doing[e].fd # fd
        BY NobodyOwns DEF Opens, Owner
      <3> QED
        BY <1>2, <1>3, <1>4, <1>6, <2>1, <3>1
    <2>2. CASE d # c
      <3>1. doing'[d] = doing[d] /\ doing[d].fd \in Fds
        BY <1>4, <2>2, CallsAre DEF DescriptorsIInv
      <3> QED
        BY <1>1, <1>3, <1>6, <3>1 DEF DescriptorsIInv, Flags
    <2> QED
      BY <2>1, <2>2
  <1>13. ASSUME ~parallel PROVE OneThread'
    <2>1. OneActive'
      BY <1>1, <1>4, <1>13, OneActs
    <2>2. OneThread
      BY <1>13 DEF DescriptorsIInv
    <2>3. doing'[c].to \notin {"del", "close"} /\ doing[c].to # "close" /\ doing'[c].kept
      BY <1>1, <1>4
    <2>4. \A d \in Callers : InIo(d) => doing[d].fd \in Fds
      BY CallsAre DEF DescriptorsIInv, InIo
    <2>5. \A d \in Callers : InIo(d) => m_datas'[doing[d].fd] # None \/ m_datas[doing[d].fd] = None
      BY <1>3, <2>4
    <2>6. Tables' /\ OwnContext' /\ Reached'
      BY <1>1, <1>4, <1>5, <2>2, <2>3, <2>5, OthersKeep
    <2> QED
      BY <2>1, <2>6 DEF OneThread
  <1> QED
    BY <1>7, <1>8, <1>9, <1>10, <1>11, <1>12, <1>13 DEF DescriptorsIInv

LEMMA SocketSettingsIInv ==
  ASSUME DescriptorsIInv, NEW c \in Callers, SetFlags(c) \/ Ioctl(c)
  PROVE  DescriptorsIInv'
  <1>1. /\ At(c, "idle") /\ c \notin Outsiders
        /\ UNCHANGED <<parallel, kernel, datasSize, contextsSize>>
    BY DEF SetFlags, Ioctl, Hooked
  <1>2. CASE SetFlags(c)
    <2>1. PICK fd \in Fds, nonblock \in BOOLEAN :
            /\ Usable(fd) /\ SetUser(fd, nonblock)
            /\ doing' = [doing EXCEPT ![c] =
                 [Idle EXCEPT !.to = "flags", !.fd = fd, !.id = file[fd].id,
                              !.set = nonblock \/ Ctx(fd) # None, !.keep = TRUE]]
      BY <1>2 DEF SetFlags
    <2>2. PICK set \in BOOLEAN : set = (nonblock \/ Ctx(fd) # None)
      OBVIOUS
    <2>3. file[fd].id \in 1..opened
      BY <2>1, FilesAre DEF Usable, DescriptorsIInv
    <2>4. PICK r : r = [Idle EXCEPT !.to = "flags", !.fd = fd, !.id = file[fd].id,
                                    !.set = set, !.keep = TRUE]
      OBVIOUS
    <2>5. r \in Calls /\ r.to = "flags" /\ r.fd = fd /\ r.kept /\ r.set = set
      BY <2>3, <2>4 DEF Idle, Calls, Places
    <2>6. doing' = [doing EXCEPT ![c] = r]
      BY <2>1, <2>2, <2>4
    <2>7. r.keep /\ ~r.set => Ctx(fd) = None
      BY <2>2, <2>5
    <2>8. Usable(fd) /\ \E flag \in BOOLEAN : SetUser(fd, flag)
      BY <2>1
    <2> QED
      BY <1>1, <2>5, <2>6, <2>7, <2>8, SettingIInv
  <1>3. CASE Ioctl(c)
    <2>1. PICK fd \in Fds, nonblock \in BOOLEAN :
            /\ Usable(fd) /\ SetUser(fd, nonblock)
            /\ doing' = [doing EXCEPT ![c] =
                 [Idle EXCEPT !.to = "flags", !.fd = fd, !.id = file[fd].id, !.set = nonblock]]
      BY <1>3 DEF Ioctl
    <2>2. file[fd].id \in 1..opened
      BY <2>1, FilesAre DEF Usable, DescriptorsIInv
    <2>3. PICK r : r = [Idle EXCEPT !.to = "flags", !.fd = fd, !.id = file[fd].id, !.set = nonblock]
      OBVIOUS
    <2>4. r \in Calls /\ r.to = "flags" /\ r.fd = fd /\ r.kept /\ ~r.keep
      BY <2>2, <2>3 DEF Idle, Calls, Places
    <2>5. doing' = [doing EXCEPT ![c] = r]
      BY <2>1, <2>3
    <2>6. Usable(fd) /\ \E flag \in BOOLEAN : SetUser(fd, flag)
      BY <2>1
    <2> QED
      BY <1>1, <2>4, <2>5, <2>6, SettingIInv
  <1> QED
    BY <1>2, <1>3

LEMMA SystemFlagsIInv ==
  ASSUME DescriptorsIInv, NEW c \in Callers, SystemFlags(c)
  PROVE  DescriptorsIInv'
  <1>1. /\ doing[c].to = "flags" /\ Runs(c) /\ End(c)
        /\ UNCHANGED <<parallel, opened, outside, m_datas, datasSize, contextsSize>>
    BY DEF SystemFlags, At, tables
  <1>2. PICK fd \in Fds : fd = doing[c].fd
    BY <1>1, CallsAre DEF DescriptorsIInv
  <1>3. /\ file' \in [Fds -> Sockets \cup {Closed}]
        /\ \A n \in Fds : /\ IsOpen(n)' <=> IsOpen(n)
                          /\ file'[n].id = file[n].id /\ file'[n].hooked = file[n].hooked
        /\ \A n \in Fds \ {fd} : file'[n] = file[n]
        /\ m_datas[fd] # None /\ IsOpen(fd) => file'[fd].nonblock \/ file'[fd].cleared
    <2>1. CASE ~IsOpen(fd)
      <3>1. file' = file
        BY <1>2, <2>1 DEF SystemFlags
      <3> QED
        BY <2>1, <3>1 DEF IsOpen, DescriptorsIInv, DescriptorsTypeOK
    <2>2. CASE IsOpen(fd)
      <3>1. PICK r \in Sockets : r = file[fd]
        BY <2>2, FilesAre DEF DescriptorsIInv
      <3>2. PICK set \in BOOLEAN : set = doing[c].set
        BY CallsAre DEF DescriptorsIInv
      <3>3. PICK cleared \in BOOLEAN :
              cleared = (~doing[c].set /\ (~doing[c].keep \/ doing[c].id # file[fd].id))
        OBVIOUS
      <3>4. PICK w : w = [r EXCEPT !.nonblock = set, !.cleared = cleared]
        OBVIOUS
      <3>5. /\ w \in Sockets /\ w.id = r.id /\ w.hooked = r.hooked
            /\ w.nonblock = set /\ w.cleared = cleared
        BY <3>4 DEF Sockets
      <3>6. w # Closed
        <4>1. w.id # 0 /\ Closed.id = 0
          BY <3>5 DEF Sockets, Closed
        <4> QED
          BY <4>1
      <3>7. file' = [file EXCEPT ![fd] = w]
        BY <1>2, <2>2, <3>1, <3>2, <3>3, <3>4 DEF SystemFlags, DescriptorsIInv, DescriptorsTypeOK
      <3>8. /\ file' \in [Fds -> Sockets \cup {Closed}] /\ file'[fd] = w
            /\ \A n \in Fds \ {fd} : file'[n] = file[n]
        BY <3>5, <3>7 DEF DescriptorsIInv, DescriptorsTypeOK
      <3>9. m_datas[fd] # None => w.nonblock \/ w.cleared
        BY <1>1, <1>2, <3>2, <3>3, <3>5 DEF DescriptorsIInv, Flags
      <3> QED
        BY <2>2, <3>1, <3>5, <3>6, <3>8, <3>9 DEF IsOpen
    <2> QED
      BY <2>1, <2>2
  <1>4. /\ doing' \in [Callers -> Calls \cup {Idle}] /\ doing'[c] = Idle
        /\ \A d \in Callers \ {c} : doing'[d] = doing[d]
    BY <1>1, Ended DEF DescriptorsIInv
  <1>5. /\ ~Owner(c)' /\ ~Opens(c)' /\ ~InIo(c) /\ ~InIo(c)'
        /\ doing'[c].to = "idle" /\ doing'[c].kept
    BY <1>1, <1>4, IdleIs DEF Owner, Opens, InIo
  <1>6. \A d \in Callers : /\ Owner(d)' => Owner(d) /\ doing'[d] = doing[d]
                           /\ Opens(d)' => Opens(d) /\ doing'[d] = doing[d]
                           /\ doing'[d].to = "close" => doing'[d] = doing[d]
                           /\ Owner(d) => doing[d].fd \in Fds
    BY <1>4, <1>5, OwnerIs DEF Owner, Opens
  <1>7. DescriptorsTypeOK'
    BY <1>1, <1>3, <1>4 DEF DescriptorsIInv, DescriptorsTypeOK, Sockets, Contexts, Calls
  <1>8. Numbers'
    BY <1>1, <1>3 DEF DescriptorsIInv, Numbers
  <1>9. Owners'
    <2>1. \A d \in Outsiders : doing'[d].to \in {"idle", "close"}
      BY <1>4, <1>5, DescriptorsAssumption DEF DescriptorsIInv, Owners
    <2> QED
      BY <1>3, <1>6, <2>1 DEF DescriptorsIInv, Owners
  <1>10. ContextOf'
    BY <1>1, <1>3 DEF DescriptorsIInv, ContextOf
  <1>11. Unfinished'
    <2>1. \A n \in Fds : (Making(n)' <=> Making(n)) /\ (Closing(n)' <=> Closing(n))
      BY <1>1, <1>4, <1>5 DEF Making, Closing
    <2>2. \A n \in Fds : IsOpen(n)' /\ file'[n].hooked /\ ~Making(n)' /\ ~Closing(n)'
            => m_datas'[n] # None
      BY <1>1, <1>3, <2>1 DEF DescriptorsIInv, Unfinished
    <2> QED
      BY <1>1, <1>6, <2>2 DEF DescriptorsIInv, Unfinished, Hooked
  <1>12. Flags'
    <2>1. \A d \in Callers : doing'[d].to = "flags" => doing'[d] = doing[d] /\ doing[d].fd \in Fds
      BY <1>4, <1>5, CallsAre DEF DescriptorsIInv
    <2> QED
      BY <1>1, <1>3, <1>6, <2>1 DEF DescriptorsIInv, Flags
  <1>13. ASSUME ~parallel PROVE OneThread'
    <2>1. OneActive'
      BY <1>1, <1>4, <1>13, OneActs
    <2>2. OneThread
      BY <1>13 DEF DescriptorsIInv
    <2>3. doing'[c].to \notin {"del", "close"} /\ doing[c].to # "close"
      BY <1>1, <1>5
    <2>4. \A d \in Callers : InIo(d) => file'[doing[d].fd].id = file[doing[d].fd].id
      BY <1>3, CallsAre DEF DescriptorsIInv, InIo
    <2>5. \A d \in Callers : doing[d].to = "waiting" => InIo(d)
      BY DEF InIo
    <2>6. Tables' /\ OwnContext' /\ Reached'
      BY <1>1, <1>4, <1>5, <2>2, <2>3, <2>4, <2>5, OthersKeep
    <2> QED
      BY <2>1, <2>6 DEF OneThread
  <1> QED
    BY <1>1, <1>7, <1>8, <1>9, <1>10, <1>11, <1>12, <1>13 DEF DescriptorsIInv

LEMMA CloseIInv ==
  ASSUME DescriptorsIInv, NEW c \in Callers, Close(c)
  PROVE  DescriptorsIInv'
  <1>1. /\ doing[c].to = "idle" /\ Runs(c)
        /\ UNCHANGED <<parallel, file, opened, outside, m_datas, datasSize, contextsSize>>
    BY DEF Close, At, kernel, tables
  <1>2. PICK fd \in Fds :
          /\ Usable(fd)
          /\ Begin(c, IF Hooked(c) /\ Ctx(fd) # None THEN "cancel" ELSE "close", fd)
    BY DEF Close
  <1>3. PICK place \in {"cancel", "close"} :
          place = IF Hooked(c) /\ Ctx(fd) # None THEN "cancel" ELSE "close"
    OBVIOUS
  <1>4. /\ place = "cancel" => c \notin Outsiders
        /\ place = "close" /\ Hooked(c) => m_datas[fd] = None
    BY <1>3 DEF Hooked, Ctx, DescriptorsIInv, ContextOf
  <1>5. IsOpen(fd) /\ \A d \in Callers : Owner(d) => doing[d].fd # fd
    BY <1>2, NobodyOwns
  <1>6. /\ doing' \in [Callers -> Calls \cup {Idle}]
        /\ doing'[c].to = place /\ doing'[c].fd = fd /\ doing'[c].id = file[fd].id
        /\ doing'[c].kept
        /\ \A d \in Callers \ {c} : doing'[d] = doing[d]
    <2>1. place \in Places
      BY DEF Places
    <2>2. Begin(c, place, fd)
      BY <1>2, <1>3
    <2>3. DescriptorsTypeOK
      BY DEF DescriptorsIInv
    <2> QED
      BY <1>5, <2>1, <2>2, <2>3, BeginIs
  <1>7. ~Owner(c) /\ ~Opens(c) /\ ~InIo(c) /\ Owner(c)' /\ ~Opens(c)' /\ ~InIo(c)'
    BY <1>1, <1>6 DEF Owner, Opens, InIo
  <1>8. \A d \in Callers : /\ Owner(d)' => d = c \/ (Owner(d) /\ doing'[d] = doing[d])
                           /\ Opens(d)' => Opens(d) /\ doing'[d] = doing[d]
    BY <1>6, <1>7 DEF Owner, Opens
  <1>9. DescriptorsTypeOK' /\ Numbers' /\ ContextOf'
    BY <1>1, <1>6 DEF DescriptorsIInv, DescriptorsTypeOK, Numbers, ContextOf, IsOpen,
                      Sockets, Contexts, Calls
  <1>10. Owners'
    <2>1. \A d \in Outsiders : doing'[d].to \in {"idle", "close"}
      BY <1>4, <1>6, DescriptorsAssumption DEF DescriptorsIInv, Owners
    <2>2. \A d \in Callers : Owner(d)' =>
            /\ file'[doing'[d].fd] # Closed /\ doing'[d].id = file'[doing'[d].fd].id
            /\ d # c => doing'[d].fd # fd
      BY <1>1, <1>5, <1>6, <1>8 DEF DescriptorsIInv, Owners, IsOpen
    <2>3. \A d, e \in Callers : Owner(d)' /\ Owner(e)' /\ doing'[e].fd = doing'[d].fd => e = d
      BY <1>6, <1>8, <2>2 DEF DescriptorsIInv, Owners
    <2> QED
      BY <2>1, <2>2, <2>3 DEF Owners, IsOpen
  <1>11. Unfinished'
    <2>1. \A d \in Callers : doing'[d].to = "close" /\ Hooked(d) => m_datas'[doing'[d].fd] = None
      BY <1>1, <1>4, <1>6 DEF DescriptorsIInv, Unfinished
    <2>2. \A n \in Fds : (Making(n)' <=> Making(n)) /\ (Closing(n) => Closing(n)')
      <3>1. \A d \in Callers : doing[d].to \in {"get", "create", "cancel", "del", "close"} =>
              doing'[d] = doing[d]
        BY <1>1, <1>6
      <3>2. \A d \in Callers : doing'[d].to \in {"get", "create"} => doing'[d] = doing[d]
        BY <1>6
      <3> QED
        BY <3>1, <3>2 DEF Making, Closing
    <2>3. \A n \in Fds : IsOpen(n)' /\ file'[n].hooked /\ ~Making(n)' /\ ~Closing(n)'
            => m_datas'[n] # None
      BY <1>1, <2>2 DEF DescriptorsIInv, Unfinished, IsOpen
    <2> QED
      BY <1>1, <1>8, <2>1, <2>3 DEF DescriptorsIInv, Unfinished, Hooked
  <1>12. Flags'
    <2>1. \A d \in Callers : doing'[d].to = "flags" => doing'[d] = doing[d]
      BY <1>6
    <2> QED
      BY <1>1, <1>8, <2>1 DEF DescriptorsIInv, Flags
  <1>13. ASSUME ~parallel PROVE OneThread'
    <2>1. OneActive'
      BY <1>1, <1>6, <1>13, OneActs
    <2>2. OneThread
      BY <1>13 DEF DescriptorsIInv
    <2>3. ASSUME NEW d \in Callers, doing[d].to = "waiting", doing[d].on = doing[d].id,
                 Hooked(c), place = "close", doing[d].fd = fd
          PROVE  doing[d].id \in outside
      <3>1. file[fd].id = doing[d].id \/ doing[d].id \in outside
        BY <2>2, <2>3 DEF OneThread, Reached
      <3>2. ~(m_datas[fd] # None \/ \E e \in Callers : Past(e, fd))
        BY <1>4, <1>5, <2>3 DEF Past, Owner
      <3>3. doing[d].set /\ InIo(d)
        BY <2>2, <2>3 DEF OneThread, OwnContext, InIo
      <3> QED
        BY <2>2, <2>3, <3>1, <3>2, <3>3 DEF OneThread, OwnContext
    <2>4. doing[c].to # "close"
      BY <1>1
    <2>5. Tables' /\ OwnContext' /\ Reached'
      BY <1>1, <1>6, <1>7, <2>2, <2>3, <2>4, OthersKeep
    <2> QED
      BY <2>1, <2>5 DEF OneThread
  <1> QED
    BY <1>1, <1>9, <1>10, <1>11, <1>12, <1>13 DEF DescriptorsIInv

LEMMA DelIInv ==
  ASSUME DescriptorsIInv, NEW c \in Callers, Del(c)
  PROVE  DescriptorsIInv'
  <1>1. /\ doing[c].to = "del" /\ Runs(c) /\ Goto(c, "close")
        /\ UNCHANGED <<parallel, file, opened, outside, datasSize, contextsSize>>
    BY DEF Del, At, kernel
  <1>2. c \notin Outsiders /\ Owner(c) /\ ~Opens(c) /\ ~InIo(c)
    BY <1>1 DEF DescriptorsIInv, Owners, Owner, Opens, InIo
  <1>3. PICK fd \in Fds : fd = doing[c].fd
    BY <1>2, OwnerIs
  <1>4. /\ m_datas' \in [Fds -> Contexts \cup {None}] /\ m_datas'[fd] = None
        /\ \A n \in Fds \ {fd} : m_datas'[n] = m_datas[n]
    <2>1. m_datas' = IF fd < datasSize THEN [m_datas EXCEPT ![fd] = None] ELSE m_datas
      BY <1>3 DEF Del
    <2>2. ~ fd < datasSize => m_datas[fd] = None
      BY DEF DescriptorsIInv, ContextOf
    <2> QED
      BY <2>1, <2>2 DEF DescriptorsIInv, DescriptorsTypeOK
  <1>5. /\ doing' \in [Callers -> Calls \cup {Idle}]
        /\ doing'[c].to = "close" /\ doing'[c].fd = fd /\ doing'[c].id = doing[c].id
        /\ doing'[c].kept = doing[c].kept
        /\ \A d \in Callers \ {c} : doing'[d] = doing[d]
    BY <1>1, <1>3, Moved DEF DescriptorsIInv, Places
  <1>6. Owner(c)' /\ ~Opens(c)' /\ ~InIo(c)'
    BY <1>5 DEF Owner, Opens, InIo
  <1>7. \A d \in Callers \ {c} : Owner(d) => doing[d].fd \in Fds \ {fd}
    BY <1>2, <1>3, OwnerIs
  <1>8. \A d \in Callers : /\ Owner(d)' <=> Owner(d)
                           /\ Opens(d)' => d # c /\ Opens(d) /\ Owner(d) /\ doing'[d] = doing[d]
                           /\ doing'[d].fd = doing[d].fd /\ doing'[d].id = doing[d].id
    BY <1>2, <1>3, <1>5, <1>6 DEF Owner, Opens
  <1>9. DescriptorsTypeOK'
    BY <1>1, <1>4, <1>5 DEF DescriptorsIInv, DescriptorsTypeOK, Sockets, Contexts, Calls
  <1>10. Numbers'
    BY <1>1 DEF DescriptorsIInv, Numbers, IsOpen
  <1>11. ContextOf'
    BY <1>1, <1>4 DEF DescriptorsIInv, ContextOf, IsOpen
  <1>12. Owners'
    <2>1. \A d \in Outsiders : doing'[d].to \in {"idle", "close"}
      BY <1>2, <1>5, DescriptorsAssumption DEF DescriptorsIInv, Owners
    <2> QED
      BY <1>1, <1>8, <2>1 DEF DescriptorsIInv, Owners, IsOpen
  <1>13. Unfinished'
    <2>1. \A d \in Callers : Opens(d)' /\ m_datas'[doing'[d].fd] # None =>
            m_datas'[doing'[d].fd].of \in outside'
      BY <1>1, <1>4, <1>7, <1>8 DEF DescriptorsIInv, Unfinished
    <2>2. \A d \in Callers : doing'[d].to = "close" /\ Hooked(d) => m_datas'[doing'[d].fd] = None
      <3>1. \A d \in Callers \ {c} : doing[d].to = "close" => Owner(d)
        BY DEF Owner
      <3> QED
        BY <1>4, <1>5, <1>7, <3>1 DEF DescriptorsIInv, Unfinished
    <2>3. \A n \in Fds : (Making(n)' <=> Making(n)) /\ (Closing(n)' <=> Closing(n))
      <3>1. \A d \in Callers : /\ doing'[d].to \in {"get", "create"} <=> doing[d].to \in {"get", "create"}
                               /\ doing'[d].to \in {"cancel", "del", "close"} <=>
                                    doing[d].to \in {"cancel", "del", "close"}
        BY <1>1, <1>5
      <3> QED
        BY <1>8, <3>1 DEF Making, Closing
    <2>4. Closing(fd)
      BY <1>1, <1>3 DEF Closing
    <2>5. \A n \in Fds : IsOpen(n)' /\ file'[n].hooked /\ ~Making(n)' /\ ~Closing(n)'
            => m_datas'[n] # None
      BY <1>1, <1>4, <2>3, <2>4 DEF DescriptorsIInv, Unfinished, IsOpen
    <2> QED
      BY <2>1, <2>2, <2>5 DEF Unfinished, Hooked
  <1>14. Flags'
    <2>1. \A d \in Callers : doing'[d].to = "flags" => doing'[d] = doing[d] /\ doing[d].fd \in Fds
      BY <1>5, CallsAre DEF DescriptorsIInv
    <2> QED
      BY <1>1, <1>4, <1>8, <2>1 DEF DescriptorsIInv, Flags
  <1>15. ASSUME ~parallel PROVE OneThread'
    <2>1. OneActive'
      BY <1>1, <1>5, <1>15, OneActs
    <2>2. OneThread /\ doing'[c].kept
      BY <1>2, <1>5, <1>15, OwnerIs DEF DescriptorsIInv
    <2>3. \A d \in Callers : InIo(d) => doing[d].fd \in Fds
      BY CallsAre DEF DescriptorsIInv, InIo
    <2>4. \A d \in Callers : InIo(d) =>
            m_datas'[doing[d].fd] # None \/ m_datas[doing[d].fd] = None \/ doing[d].fd = fd
      BY <1>4, <2>3
    <2>5. Hooked(c) /\ doing[c].to # "close" /\ doing[c].to \in {"del", "close"} /\ doing'[c].fd = doing[c].fd
      BY <1>1, <1>2, <1>3, <1>5 DEF Hooked
    <2>6. Tables' /\ OwnContext' /\ Reached'
      BY <1>1, <1>2, <1>3, <1>5, <1>6, <2>2, <2>4, <2>5, OthersKeep
    <2> QED
      BY <2>1, <2>6 DEF OneThread
  <1> QED
    BY <1>1, <1>9, <1>10, <1>11, <1>12, <1>13, <1>14, <1>15 DEF DescriptorsIInv

LEMMA CloseSystemIInv ==
  ASSUME DescriptorsIInv, NEW c \in Callers, CloseSystem(c)
  PROVE  DescriptorsIInv'
  <1>1. /\ doing[c].to = "close" /\ Runs(c) /\ End(c)
        /\ outside' = IF Hooked(c) THEN outside ELSE outside \cup {doing[c].id}
        /\ UNCHANGED <<parallel, opened, m_datas, datasSize, contextsSize>>
    BY DEF CloseSystem, At, tables
  <1>2. Owner(c) /\ ~Opens(c) /\ ~InIo(c)
    BY <1>1 DEF Owner, Opens, InIo
  <1>3. PICK fd \in Fds : /\ fd = doing[c].fd /\ IsOpen(fd) /\ doing[c].id = file[fd].id
                          /\ doing[c] \in Calls
    BY <1>2, OwnerIs
  <1>4. /\ file' \in [Fds -> Sockets \cup {Closed}] /\ file'[fd] = Closed /\ file'[fd].id = 0
        /\ \A n \in Fds \ {fd} : file'[n] = file[n]
    <2>1. file' = [file EXCEPT ![fd] = Closed]
      BY <1>3 DEF CloseSystem
    <2> QED
      BY <2>1 DEF DescriptorsIInv, DescriptorsTypeOK, Closed
  <1>5. /\ outside \subseteq outside' /\ outside' \in SUBSET (1..opened)
        /\ outside' \subseteq outside \cup {file[fd].id}
        /\ ~Hooked(c) => file[fd].id \in outside'
    BY <1>1, <1>3 DEF Calls, DescriptorsIInv, DescriptorsTypeOK
  <1>6. /\ doing' \in [Callers -> Calls \cup {Idle}] /\ doing'[c] = Idle
        /\ \A d \in Callers \ {c} : doing'[d] = doing[d]
    BY <1>1, Ended DEF DescriptorsIInv
  <1>7. ~Owner(c)' /\ ~Opens(c)' /\ ~InIo(c)' /\ doing'[c].to = "idle" /\ doing'[c].kept
    BY <1>6, IdleIs DEF Owner, Opens, InIo
  <1>8. \A d \in Callers \ {c} : Owner(d) => doing[d].fd \in Fds \ {fd}
    BY <1>2, <1>3, OwnerIs
  <1>9. \A d \in Callers :
          /\ Owner(d)' => d # c /\ Owner(d) /\ doing'[d] = doing[d] /\ doing[d].fd \in Fds \ {fd}
          /\ Opens(d)' => Opens(d) /\ Owner(d)'
    BY <1>6, <1>7, <1>8 DEF Owner, Opens
  <1>10. \A n \in Fds : IsOpen(n)' => n # fd /\ IsOpen(n)
    BY <1>4 DEF IsOpen
  <1>11. DescriptorsTypeOK'
    BY <1>1, <1>4, <1>5, <1>6 DEF DescriptorsIInv, DescriptorsTypeOK, Sockets, Contexts, Calls
  <1>12. Numbers'
    <2>1. \A m, n \in Fds : IsOpen(m)' /\ file'[m].id = file'[n].id => m = n
      <3> SUFFICES ASSUME NEW m \in Fds, NEW n \in Fds, IsOpen(m)', file'[m].id = file'[n].id
                   PROVE  m = n
        OBVIOUS
      <3>1. m # fd /\ IsOpen(m) /\ file'[m] = file[m] /\ file[m].id >= 1 /\ file[m].id \in Nat
        BY <1>4, <1>10, FilesAre DEF DescriptorsIInv
      <3>2. n # fd
        BY <1>4, <3>1
      <3> QED
        BY <1>4, <3>1, <3>2 DEF DescriptorsIInv, Numbers
    <2>2. \A n \in Fds : file'[n].id \notin outside'
      <3>1. 0 \notin outside'
        BY <1>5
      <3>2. \A n \in Fds \ {fd} : file[n].id \notin outside /\ file[n].id # file[fd].id
        BY <1>3 DEF DescriptorsIInv, Numbers
      <3> QED
        BY <1>4, <1>5, <3>1, <3>2
    <2> QED
      BY <2>1, <2>2 DEF Numbers
  <1>13. Owners'
    <2>1. \A d \in Outsiders : doing'[d].to \in {"idle", "close"}
      BY <1>6, <1>7, DescriptorsAssumption DEF DescriptorsIInv, Owners
    <2> QED
      BY <1>4, <1>9, <2>1 DEF DescriptorsIInv, Owners, IsOpen
  <1>14. ContextOf'
    <2> SUFFICES ASSUME NEW n \in Fds, m_datas[n] # None
                 PROVE  /\ n < datasSize
                        /\ \/ /\ IsOpen(n)' /\ m_datas[n].of = file'[n].id
                              /\ file'[n].nonblock \/ file'[n].cleared
                           \/ m_datas[n].of \in outside'
      BY <1>1 DEF ContextOf
    <2>1. /\ n < datasSize
          /\ \/ /\ IsOpen(n) /\ m_datas[n].of = file[n].id
                /\ file[n].nonblock \/ file[n].cleared
             \/ m_datas[n].of \in outside
      BY DEF DescriptorsIInv, ContextOf
    <2>2. CASE n # fd
      BY <1>4, <1>5, <2>1, <2>2 DEF IsOpen
    <2>3. CASE n = fd
      <3>1. ~Hooked(c)
        BY <1>1, <1>3, <2>3 DEF DescriptorsIInv, Unfinished
      <3> QED
        BY <1>5, <2>1, <2>3, <3>1
    <2> QED
      BY <2>2, <2>3
  <1>15. Unfinished'
    <2>1. \A d \in Callers : Opens(d)' /\ m_datas'[doing'[d].fd] # None =>
            m_datas'[doing'[d].fd].of \in outside'
      BY <1>1, <1>5, <1>9 DEF DescriptorsIInv, Unfinished
    <2>2. \A d \in Callers : doing'[d].to = "close" => doing'[d] = doing[d]
      BY <1>6, <1>7
    <2>3. \A n \in Fds \ {fd} : (Making(n)' <=> Making(n)) /\ (Closing(n)' <=> Closing(n))
      BY <1>1, <1>3, <1>6, <1>7 DEF Making, Closing
    <2>4. \A n \in Fds : IsOpen(n)' /\ file'[n].hooked /\ ~Making(n)' /\ ~Closing(n)'
            => m_datas'[n] # None
      BY <1>1, <1>4, <1>10, <2>3 DEF DescriptorsIInv, Unfinished
    <2> QED
      BY <1>1, <2>1, <2>2, <2>4 DEF DescriptorsIInv, Unfinished, Hooked
  <1>16. \A d \in Callers : doing[d].to # "idle" =>
           /\ doing[d].fd \in Fds
           /\ file'[doing[d].fd].id = doing[d].id =>
                doing[d].fd # fd /\ file[doing[d].fd].id = doing[d].id
    <2> SUFFICES ASSUME NEW d \in Callers, doing[d].to # "idle"
                 PROVE  /\ doing[d].fd \in Fds
                        /\ file'[doing[d].fd].id = doing[d].id =>
                             doing[d].fd # fd /\ file[doing[d].fd].id = doing[d].id
      OBVIOUS
    <2>1. doing[d].fd \in Fds /\ 1 <= doing[d].id
      BY CallsAre DEF DescriptorsIInv
    <2> QED
      BY <1>4, <2>1
  <1>17. Flags'
    <2>1. \A d \in Callers : doing'[d].to = "flags" => doing'[d] = doing[d] /\ doing[d].to # "idle"
      BY <1>6, <1>7
    <2> QED
      BY <1>1, <1>9, <1>16, <2>1 DEF DescriptorsIInv, Flags
  <1>18. ASSUME ~parallel PROVE OneThread'
    <2>1. OneActive'
      BY <1>1, <1>6, <1>18, OneActs
    <2>2. OneThread
      BY <1>18 DEF DescriptorsIInv
    <2>3. \A d \in Callers : InIo(d) => doing[d].to # "idle"
      BY DEF InIo
    <2>4. ASSUME NEW d \in Callers, doing[d].to = "waiting", doing[d].on = doing[d].id,
                 file[doing[d].fd].id = doing[d].id
          PROVE  file'[doing[d].fd].id = doing[d].id \/ doing[d].id \in outside'
      <3>1. CASE doing[d].fd # fd
        BY <1>4, <1>16, <2>4, <3>1
      <3>2. CASE doing[d].fd = fd
        BY <1>1, <1>3, <1>5, <2>2, <2>4, <3>2 DEF OneThread, Reached
      <3> QED
        BY <3>1, <3>2
    <2>5. \A d \in Callers : InIo(d) =>
            \/ doing[c].fd # doing[d].fd
            \/ file'[doing[d].fd].id # doing[d].id
      BY <1>3, <1>16, <2>3
    <2>6. doing'[c].to \notin {"del", "close"}
      BY <1>7
    <2>7. \A d \in Callers \ {c} : InIo(d) =>
            /\ file'[doing[d].fd].id = doing[d].id => file[doing[d].fd].id = doing[d].id
            /\ m_datas'[doing[d].fd] # None \/ m_datas[doing[d].fd] = None
      BY <1>1, <1>16, <2>3
    <2>8. Tables' /\ OwnContext' /\ Reached'
      BY <1>1, <1>2, <1>5, <1>6, <1>7, <2>2, <2>4, <2>5, <2>6, <2>7, OthersKeep
    <2> QED
      BY <2>1, <2>8 DEF OneThread
  <1> QED
    BY <1>1, <1>11, <1>12, <1>13, <1>14, <1>15, <1>17, <1>18 DEF DescriptorsIInv

\* The kernel gives the lowest number.
LEMMA MinIsIn ==
  ASSUME NEW T, T \subseteq Nat, T # {}
  PROVE  Min(T) \in T
  BY LeastNumber DEF Min

LEMMA SocketIInv ==
  ASSUME DescriptorsIInv, NEW c \in Callers, Socket(c)
  PROVE  DescriptorsIInv'
  <1>1. /\ doing[c].to = "idle" /\ Runs(c) /\ opened' = opened + 1
        /\ UNCHANGED <<parallel, outside, m_datas, datasSize, contextsSize>>
    BY DEF Socket, At, tables
  <1>2. PICK fd \in Fds : fd = Min({n \in Fds : ~IsOpen(n)}) /\ ~IsOpen(fd)
    <2> DEFINE T == {n \in Fds : ~IsOpen(n)}
    <2>1. T \subseteq Nat /\ T # {}
      BY DescriptorsAssumption DEF Socket
    <2>2. Min(T) \in T
      <3> HIDE DEF T
      <3> QED
        BY <2>1, MinIsIn
    <2> QED
      BY <2>2
  <1>3. PICK w : w = [Closed EXCEPT !.id = opened + 1, !.hooked = Hooked(c)]
    OBVIOUS
  <1>4. PICK r : r = [Idle EXCEPT !.to = "get", !.fd = fd, !.id = opened + 1]
    OBVIOUS
  <1>5. /\ file' = [file EXCEPT ![fd] = w]
        /\ Hooked(c) => doing' = [doing EXCEPT ![c] = r]
        /\ ~Hooked(c) => doing' = doing
    BY <1>2, <1>3, <1>4 DEF Socket
  <1>6. opened \in Nat /\ opened' \in Nat /\ \A id \in 1..opened : id \in 1..opened'
    BY <1>1 DEF DescriptorsIInv, DescriptorsTypeOK
  <1>7. /\ \A x \in Sockets : x \in Sockets'
        /\ \A x \in Contexts : x \in Contexts'
        /\ \A x \in Calls : x \in Calls'
    BY <1>6 DEF Sockets, Contexts, Calls
  <1>8. w \in Sockets' /\ w.id = opened + 1 /\ (w.hooked => Hooked(c)) /\ w # Closed
    <2>1. w.id = opened + 1 /\ (w.hooked => Hooked(c))
      BY <1>3 DEF Closed
    <2>2. Hooked(c) \in BOOLEAN
      BY DEF Hooked
    <2>3. w \in Sockets'
      <3>1. opened + 1 \in 1..opened'
        BY <1>1, <1>6
      <3> QED
        BY <1>3, <2>2, <3>1 DEF Sockets, Closed
    <2>4. w # Closed
      <3>1. w.id # 0 /\ Closed.id = 0
        BY <1>6, <2>1 DEF Closed
      <3> QED
        BY <3>1
    <2> QED
      BY <2>1, <2>3, <2>4
  <1>9. r \in Calls' /\ r.to = "get" /\ r.fd = fd /\ r.id = opened + 1 /\ r.kept
    <2>1. opened + 1 \in 1..opened'
      BY <1>1, <1>6
    <2> QED
      BY <1>4, <2>1 DEF Calls, Idle, Places
  <1>10. /\ file' \in [Fds -> Sockets' \cup {Closed}]
         /\ file'[fd] = w /\ \A n \in Fds \ {fd} : file'[n] = file[n]
    BY <1>5, <1>7, <1>8 DEF DescriptorsIInv, DescriptorsTypeOK
  <1>11. /\ doing' \in [Callers -> Calls' \cup {Idle}]
         /\ Hooked(c) => doing'[c] = r
         /\ ~Hooked(c) => doing'[c] = doing[c]
         /\ \A d \in Callers \ {c} : doing'[d] = doing[d]
    <2>1. doing \in [Callers -> Calls' \cup {Idle}]
      BY <1>7 DEF DescriptorsIInv, DescriptorsTypeOK
    <2> QED
      BY <1>5, <1>9, <2>1
  <1>12. /\ doing'[c].to \in {"idle", "get"} /\ doing'[c].kept
         /\ doing'[c].to = "get" <=> Hooked(c)
    <2>1. doing[c].kept
      BY <1>1, CallsAre, IdleIs DEF DescriptorsIInv
    <2> QED
      BY <1>1, <1>9, <1>11, <2>1
  <1>13. /\ ~Owner(c) /\ ~Opens(c) /\ ~InIo(c) /\ ~InIo(c)'
         /\ Owner(c)' => Hooked(c)
         /\ Opens(c)' => Hooked(c)
    BY <1>1, <1>12 DEF Owner, Opens, InIo
  <1>14. \A d \in Callers : Owner(d) => d # c /\ doing[d].fd \in Fds \ {fd}
    BY <1>2, <1>13, OwnerIs
  <1>15. \A d \in Callers : d # c => (Owner(d)' <=> Owner(d)) /\ (Opens(d)' <=> Opens(d))
    BY <1>11 DEF Owner, Opens
  <1>16. \A d \in Callers : doing[d].to # "idle" =>
           /\ doing[d].fd \in Fds /\ doing[d].id # opened + 1
           /\ file'[doing[d].fd].id = doing[d].id <=> file[doing[d].fd].id = doing[d].id
    <2> SUFFICES ASSUME NEW d \in Callers, doing[d].to # "idle"
                 PROVE  /\ doing[d].fd \in Fds /\ doing[d].id # opened + 1
                        /\ file'[doing[d].fd].id = doing[d].id <=>
                             file[doing[d].fd].id = doing[d].id
      OBVIOUS
    <2>1. doing[d].fd \in Fds /\ 1 <= doing[d].id /\ doing[d].id <= opened /\ doing[d].id \in Nat
      BY CallsAre DEF DescriptorsIInv
    <2>2. file[fd].id = 0
      BY <1>2, FilesAre DEF DescriptorsIInv
    <2>3. CASE doing[d].fd = fd
      BY <1>6, <1>8, <1>10, <2>1, <2>2, <2>3
    <2>4. CASE doing[d].fd # fd
      BY <1>6, <1>10, <2>1, <2>4
    <2> QED
      BY <2>3, <2>4
  <1>17. DescriptorsTypeOK'
    <2>1. m_datas' \in [Fds -> Contexts' \cup {None}]
      BY <1>1, <1>7 DEF DescriptorsIInv, DescriptorsTypeOK
    <2>2. outside' \in SUBSET (1..opened')
      BY <1>1, <1>6 DEF DescriptorsIInv, DescriptorsTypeOK
    <2>3. parallel' \in BOOLEAN /\ datasSize' \in Nat /\ contextsSize' \in Nat
      BY <1>1 DEF DescriptorsIInv, DescriptorsTypeOK
    <2> QED
      BY <1>6, <1>10, <1>11, <2>1, <2>2, <2>3 DEF DescriptorsTypeOK
  <1>18. Numbers'
    <2>1. \A n \in Fds : file[n].id \in Nat /\ file[n].id <= opened
      BY FilesAre DEF DescriptorsIInv
    <2>2. \A n \in Fds \ {fd} : file'[n].id # file'[fd].id
      BY <1>6, <1>8, <1>10, <2>1
    <2>3. \A m, n \in Fds : IsOpen(m)' /\ file'[m].id = file'[n].id => m = n
      BY <1>10, <2>2 DEF DescriptorsIInv, Numbers, IsOpen
    <2>4. \A n \in Fds : file'[n].id \notin outside'
      <3>1. opened + 1 \notin outside
        BY <1>6 DEF DescriptorsIInv, DescriptorsTypeOK
      <3> QED
        BY <1>1, <1>8, <1>10, <3>1 DEF DescriptorsIInv, Numbers
    <2> QED
      BY <2>3, <2>4 DEF Numbers
  <1>19. Owners'
    <2>1. \A d \in Outsiders : doing'[d].to \in {"idle", "close"}
      BY <1>1, <1>11, DescriptorsAssumption DEF DescriptorsIInv, Owners, Hooked
    <2>2. \A d \in Callers : Owner(d)' =>
            /\ file'[doing'[d].fd] # Closed /\ doing'[d].id = file'[doing'[d].fd].id
            /\ d # c <=> doing'[d].fd # fd
      <3>1. \A d \in Callers \ {c} : Owner(d)' =>
              /\ file'[doing'[d].fd] # Closed /\ doing'[d].id = file'[doing'[d].fd].id
              /\ doing'[d].fd # fd
        BY <1>10, <1>11, <1>14, <1>15 DEF DescriptorsIInv, Owners, IsOpen
      <3>2. Owner(c)' =>
              /\ file'[doing'[c].fd] # Closed /\ doing'[c].id = file'[doing'[c].fd].id
              /\ doing'[c].fd = fd
        BY <1>8, <1>9, <1>10, <1>11, <1>13
      <3> QED
        BY <3>1, <3>2
    <2>3. \A d, e \in Callers : Owner(d)' /\ Owner(e)' /\ doing'[e].fd = doing'[d].fd => e = d
      BY <1>11, <1>15, <2>2 DEF DescriptorsIInv, Owners
    <2> QED
      BY <2>1, <2>2, <2>3 DEF Owners, IsOpen
  <1>20. \A n \in Fds \ {fd} : IsOpen(n)' <=> IsOpen(n)
    BY <1>10 DEF IsOpen
  <1>21. m_datas[fd] # None => m_datas[fd].of \in outside /\ fd < datasSize
    BY <1>2 DEF DescriptorsIInv, ContextOf
  <1>22. ContextOf'
    BY <1>1, <1>10, <1>20, <1>21 DEF DescriptorsIInv, ContextOf
  <1>23. Unfinished'
    <2>1. \A d \in Callers : Opens(d)' /\ m_datas'[doing'[d].fd] # None =>
            m_datas'[doing'[d].fd].of \in outside'
      <3>1. \A d \in Callers \ {c} : Opens(d)' => doing'[d] = doing[d] /\ Opens(d)
        BY <1>11, <1>15
      <3>2. Opens(c)' => doing'[c].fd = fd
        BY <1>9, <1>11, <1>13
      <3> QED
        BY <1>1, <1>21, <3>1, <3>2 DEF DescriptorsIInv, Unfinished
    <2>2. \A d \in Callers : doing'[d].to = "close" => doing'[d] = doing[d]
      BY <1>11, <1>12
    <2>3. \A n \in Fds \ {fd} : (Making(n)' <=> Making(n)) /\ (Closing(n)' <=> Closing(n))
      BY <1>1, <1>9, <1>11 DEF Making, Closing
    <2>4. file'[fd].hooked => Making(fd)'
      BY <1>8, <1>9, <1>10, <1>11 DEF Making
    <2>5. \A n \in Fds : IsOpen(n)' /\ file'[n].hooked /\ ~Making(n)' /\ ~Closing(n)'
            => m_datas'[n] # None
      BY <1>1, <1>10, <1>20, <2>3, <2>4 DEF DescriptorsIInv, Unfinished
    <2> QED
      BY <1>1, <2>1, <2>2, <2>5 DEF DescriptorsIInv, Unfinished, Hooked
  <1>24. Flags'
    <2> SUFFICES ASSUME NEW d \in Callers, doing'[d].to = "flags",
                        doing'[d].id = file'[doing'[d].fd].id
                 PROVE  /\ \A e \in Callers : Opens(e)' => doing'[e].fd # doing'[d].fd
                        /\ doing'[d].keep /\ ~doing'[d].set => m_datas'[doing'[d].fd] = None
      BY DEF Flags
    <2>1. doing'[d] = doing[d] /\ doing[d].to # "idle" /\ d # c
      BY <1>11, <1>12
    <2>2. file[doing[d].fd].id = doing[d].id /\ doing[d].fd # fd
      BY <1>8, <1>10, <1>16, <2>1
    <2>3. \A e \in Callers : Opens(e)' => doing'[e].fd # doing[d].fd
      <3>1. \A e \in Callers \ {c} : Opens(e)' => doing'[e] = doing[e] /\ Opens(e)
        BY <1>11, <1>15
      <3>2. Opens(c)' => doing'[c].fd = fd
        BY <1>9, <1>11, <1>13
      <3> QED
        BY <2>1, <2>2, <3>1, <3>2 DEF DescriptorsIInv, Flags
    <2> QED
      BY <1>1, <2>1, <2>2, <2>3 DEF DescriptorsIInv, Flags
  <1>25. ASSUME ~parallel PROVE OneThread'
    <2>1. OneActive'
      BY <1>1, <1>11, <1>25, OneActs
    <2>2. OneThread
      BY <1>25 DEF DescriptorsIInv
    <2>3. \A d \in Callers : InIo(d) => doing[d].to # "idle"
      BY DEF InIo
    <2>4. \A d \in Callers : doing[d].to = "waiting" => doing[d].to # "idle"
      OBVIOUS
    <2>5. doing'[c].to \notin {"del", "close"} /\ doing[c].to # "close"
      BY <1>1, <1>12
    <2>6. Tables' /\ OwnContext' /\ Reached'
      BY <1>1, <1>11, <1>12, <1>13, <1>16, <2>2, <2>3, <2>4, <2>5, OthersKeep
    <2> QED
      BY <2>1, <2>6 DEF OneThread
  <1> QED
    BY <1>1, <1>17, <1>18, <1>19, <1>22, <1>23, <1>24, <1>25 DEF DescriptorsIInv

-----------------------------------------------------------------------------
(* Descriptors: the theorems.                                              *)

LEMMA DescriptorsInitIInv == DescriptorsInit => DescriptorsIInv
  <1> SUFFICES ASSUME DescriptorsInit PROVE DescriptorsIInv
    OBVIOUS
  <1>1. \A fd \in Fds : file[fd] = Closed /\ m_datas[fd] = None
    BY DEF DescriptorsInit
  <1>2. \A c \in Callers : doing[c] = Idle /\ doing[c].to = "idle" /\ doing[c].kept /\ ~doing[c].set
    BY IdleIs DEF DescriptorsInit
  <1>3. \A c \in Callers : ~Owner(c) /\ ~Opens(c) /\ ~InIo(c)
    BY <1>2 DEF Owner, Opens, InIo
  <1>4. DescriptorsTypeOK
    BY DescriptorsAssumption DEF DescriptorsInit, DescriptorsTypeOK
  <1>5. \A fd \in Fds : ~IsOpen(fd)
    BY <1>1 DEF IsOpen
  <1>6. Numbers
    BY <1>5 DEF Numbers, DescriptorsInit
  <1>7. Owners
    BY <1>2, <1>3, DescriptorsAssumption DEF Owners
  <1>8. ContextOf /\ Unfinished
    BY <1>1, <1>2, <1>3, <1>5 DEF ContextOf, Unfinished
  <1>9. Flags
    BY <1>2 DEF Flags
  <1>10. OneThread
    <2>1. OneActive
      BY <1>2 DEF OneActive, Resting
    <2>2. Tables /\ OwnContext /\ Reached
      BY <1>2, <1>3 DEF Tables, OwnContext, Reached
    <2> QED
      BY <2>1, <2>2 DEF OneThread
  <1> QED
    BY <1>4, <1>6, <1>7, <1>8, <1>9, <1>10 DEF DescriptorsIInv

LEMMA DescriptorsNextIInv ==
  DescriptorsIInv /\ [DescriptorsNext]_descriptorVars => DescriptorsIInv'
  <1> SUFFICES ASSUME DescriptorsIInv, [DescriptorsNext]_descriptorVars PROVE DescriptorsIInv'
    OBVIOUS
  <1>1. CASE UNCHANGED descriptorVars
    <2>1. UNCHANGED <<parallel, file, opened, outside, m_datas, datasSize, contextsSize, doing>>
      BY <1>1 DEF descriptorVars
    <2>2. \A c \in Callers : /\ Owner(c)' <=> Owner(c)
                             /\ Opens(c)' <=> Opens(c)
                             /\ InIo(c)' <=> InIo(c)
      BY <2>1 DEF Owner, Opens, InIo
    <2>3. DescriptorsTypeOK'
      BY <2>1 DEF DescriptorsIInv, DescriptorsTypeOK, Sockets, Contexts, Calls
    <2>4. Numbers' /\ Owners' /\ ContextOf' /\ Flags'
      BY <2>1, <2>2 DEF DescriptorsIInv, Numbers, Owners, ContextOf, Flags, IsOpen
    <2>5. Unfinished'
      BY <2>1, <2>2 DEF DescriptorsIInv, Unfinished, IsOpen, Making, Closing
    <2>6. OneActive' <=> OneActive
      BY <2>1 DEF OneActive
    <2>7. (Tables' <=> Tables) /\ (Reached' <=> Reached)
      BY <2>1 DEF Tables, Reached
    <2>8. OwnContext' <=> OwnContext
      BY <2>1 DEF OwnContext, InIo, Past
    <2> QED
      BY <2>1, <2>3, <2>4, <2>5, <2>6, <2>7, <2>8 DEF DescriptorsIInv, OneThread
  <1>2. ASSUME NEW c \in Callers, Socket(c) \/ Get(c) \/ Create(c) PROVE DescriptorsIInv'
    BY <1>2, SocketIInv, GetIInv, CreateIInv
  <1>3. ASSUME NEW c \in Callers, SetFlags(c) \/ Ioctl(c) \/ SystemFlags(c)
        PROVE  DescriptorsIInv'
    BY <1>3, SocketSettingsIInv, SystemFlagsIInv
  <1>4. ASSUME NEW c \in Callers, EnterIo(c) \/ Try(c) \/ ReadSize(c) PROVE DescriptorsIInv'
    BY <1>4, EnterIoIInv, TryIInv, ReadSizeIInv
  <1>5. ASSUME NEW c \in Callers, ContextResize(c) \/ Register(c) PROVE DescriptorsIInv'
    BY <1>5, ContextResizeIInv, RegisterIInv
  <1>6. ASSUME NEW c \in Callers, Ready(c) \/ Unblock(c) \/ Expire(c) PROVE DescriptorsIInv'
    BY <1>6, ReadyIInv, EndsIInv
  <1>7. ASSUME NEW c \in Callers, Close(c) \/ CancelAll(c) \/ Del(c) \/ CloseSystem(c)
        PROVE  DescriptorsIInv'
    BY <1>7, CloseIInv, CancelAllIInv, DelIInv, CloseSystemIInv
  <1> QED
    BY <1>1, <1>2, <1>3, <1>4, <1>5, <1>6, <1>7 DEF DescriptorsNext, CallerStep

\* What FdManager and the hook keep of descriptors, in every state: who opens or closes a
\* number has it for himself, and a context is that of the number's socket, or of one
\* that was closed on a thread without the hook (fd_manager.cc, hook.cc).
THEOREM DescriptorsInvariant == DescriptorsSpec => []DescriptorsIInv
  BY DescriptorsInitIInv, DescriptorsNextIInv, PTL DEF DescriptorsSpec

\* However many numbers, sockets and callers there are, and whatever the sizes of the
\* tables, a socket that was opened through the hook has its own context, and blocks in
\* the system only when it was told so behind the context's back (fd_manager.cc:83-114,
\* hook.cc).
THEOREM ContextsAreFit == DescriptorsSpec => []ContextsFit
  <1>1. DescriptorsIInv => ContextsFit
    <2> SUFFICES ASSUME DescriptorsIInv, NEW fd \in Fds, Usable(fd), file[fd].hooked
                 PROVE  /\ Ctx(fd) # None
                        /\ \/ /\ Ctx(fd).of = file[fd].id
                              /\ file[fd].nonblock \/ file[fd].cleared
                           \/ Ctx(fd).of \in outside
      BY DEF ContextsFit
    <2>1. m_datas[fd] # None
      BY DEF DescriptorsIInv, Unfinished, Usable
    <2> QED
      BY <2>1 DEF DescriptorsIInv, ContextOf, Ctx
  <1> QED
    BY <1>1, DescriptorsInvariant, PTL

\* With one thread a call that waits is found by its timeout and by close(): addEvent()
\* looks at the size of the table and uses it without another call in between, so that
\* the table is never made smaller, and nobody waits for a socket that is closed
\* (iomanager.cc, hook.cc).
THEOREM WaitersAreReachable == DescriptorsSpec => []WaitersReachable
  <1>1. DescriptorsIInv => WaitersReachable
    <2> SUFFICES ASSUME DescriptorsIInv, ~parallel, NEW c \in Callers,
                        doing[c].to = "waiting", doing[c].on = doing[c].id
                 PROVE  /\ doing[c].kept /\ doing[c].fd < contextsSize
                        /\ file[doing[c].fd].id = doing[c].id \/ doing[c].id \in outside
      BY DEF WaitersReachable
    <2>1. Tables /\ Reached
      BY DEF DescriptorsIInv, OneThread
    <2>2. doing[c].kept /\ doing[c].fd < contextsSize
      BY <2>1 DEF Tables
    <2>3. file[doing[c].fd].id = doing[c].id \/ doing[c].id \in outside
      BY <2>1 DEF Reached
    <2> QED
      BY <2>2, <2>3
  <1> QED
    BY <1>1, DescriptorsInvariant, PTL

-----------------------------------------------------------------------------
(* Settings: the inductive invariant.                                      *)

Notifying == [at : {"notify"}, todo : Seq(Entries), turn : Nat, done : Nat]
Loading ==
  {Out, [at |-> "read"]} \cup [at : {"check"}, force : BOOLEAN, stat : Nat]
    \cup [at : {"next", "write"}, todo : Seq(Entries)] \cup Notifying
Levels == {"INFO", NotSet} \cup {d.level : d \in UNION {Written(n) : n \in ToSet(LoggerNames)}}
SettingsTypeOK ==
  /\ document \in [content : Contents, mtime : Nat] /\ recorded \in Nat
  /\ value = [v \in DOMAIN Defaults |-> value[v]]
  /\ kept = [v \in DOMAIN Defaults |-> kept[v]]
  /\ "logs" \in DOMAIN Defaults =>
       kept["logs"] \in [ToSet(LoggerNames) -> [level : Levels, appenders : Seq(Appenders)]]
  /\ loader \in [Loaders -> Loading]
  /\ alone \in SUBSET Loaders /\ trusted \in BOOLEAN /\ applied \in BOOLEAN

\* The definitions of "logs" were written in some file, and what is set has a value.
Definitions(x) == DOMAIN x \subseteq ToSet(LoggerNames) /\ \A n \in DOMAIN x : x[n] \in Written(n)
Sets(l) == loader[l].at \in {"notify", "write"}
Values ==
  /\ "logs" \in DOMAIN Defaults => Definitions(value["logs"])
  /\ \A l \in Loaders : Sets(l) =>
       /\ loader[l].todo # <<>>
       /\ loader[l].todo[1][1] \in DOMAIN Defaults /\ loader[l].todo[1][2] # Bad

\* What the listener has done to a logger, of the n-th name, and has not.
TurnOf(i, x) == IF LoggerNames[i] \in DOMAIN x THEN i ELSE Loggers + i
Half(n, x, done) ==
  LET logger == kept["logs"][n]
  IN IF n \in DOMAIN x
       THEN /\ done >= 1 => Differs(n, value["logs"], x) /\ logger.level = x[n].level
            /\ done >= 2 => logger.appenders = SubSeq(Shown(x[n].appenders), 1, done - 2)
       ELSE /\ done >= 1 => n \in DOMAIN value["logs"]
            /\ done >= 2 => logger.appenders = <<>>
LoggersTold(x, turn, done) ==
  \A i \in 1..Loggers :
    /\ turn < TurnOf(i, x) => HasValue(LoggerNames[i], value["logs"])
    /\ turn = TurnOf(i, x) =>
         /\ done = 0 => HasValue(LoggerNames[i], value["logs"])
         /\ Half(LoggerNames[i], x, done)
    /\ turn > TurnOf(i, x) => HasValue(LoggerNames[i], x)
Told(l, v) ==
  LET x == loader[l].todo[1][2]
  IN IF v = "logs" THEN LoggersTold(x, loader[l].turn, loader[l].done)
     ELSE loader[l].turn > 1 \/ loader[l].done > 0 => kept[v] = x
Heard(l, v) ==
  LET x == loader[l].todo[1][2]
  IN IF v = "logs" THEN \A n \in ToSet(LoggerNames) : HasValue(n, x) ELSE kept[v] = x
InTurn(l) ==
  LET v == loader[l].todo[1][1]
  IN /\ loader[l].turn >= 1
     /\ loader[l].done > 0 =>
          /\ loader[l].turn <= Turns(v)
          /\ loader[l].done <= Len(OnChange(v, value[v], loader[l].todo[1][2], loader[l].turn))
Listeners ==
  /\ \A l \in Loaders : loader[l].at = "notify" => InTurn(l)
  /\ \A v \in DOMAIN Defaults \ clashed :
       /\ \A l, m \in Setting(v) : l = m
       /\ Setting(v) = {} => Follows(v)
       /\ \A l \in Setting(v) : IF loader[l].at = "notify" THEN Told(l, v) ELSE Heard(l, v)

\* A load that is alone has set what the entries it has read say last.
Read(l) ==
  LET content == document.content
      todo == loader[l].todo
      n == Len(content) - Len(todo)
  IN /\ content # Broken /\ Len(todo) <= Len(content)
     /\ \A i \in 1..Len(todo) : todo[i] = content[n + i]
     /\ \A v \in DOMAIN Defaults, p \in 1..n :
          LastIn(content, v, p) => SameValue(v, value[v], content[p][2])
Alone ==
  \A l \in alone :
    /\ \A m \in Loaders \ {l} : loader[m] = Out
    /\ loader[l].at = "check" => loader[l].stat = document.mtime
    /\ loader[l].at \in {"next", "notify", "write"} => Read(l)
Times ==
  /\ recorded <= document.mtime
  /\ \A l \in Loaders : loader[l].at = "check" => loader[l].stat <= document.mtime
\* What was recorded is in force while nobody reads.
Recorded ==
  /\ trusted /\ recorded = document.mtime /\ (\A l \in Loaders : loader[l].at \in {"out", "check"})
       => AsInFile
  /\ applied => AsInFile /\ \A l \in Loaders : loader[l] = Out

SettingsIInv == SettingsTypeOK /\ Values /\ Listeners /\ Alone /\ Times /\ Recorded

-----------------------------------------------------------------------------
(* Settings: what the listener of "logs" does.                             *)

\* The loop over the appenders yields a sequence of some of them.
LEMMA ShownType ==
  ASSUME NEW S, NEW a \in Seq(S)
  PROVE  Shown(a) \in Seq(S)
  <1> DEFINE Step(f, i) == IF i = 0 THEN <<>>
                           ELSE IF Daemon /\ a[i] = "out" THEN f[i - 1]
                           ELSE Append(f[i - 1], a[i])
             Loop(f, n) == f = [i \in 0..n |-> Step(f, i)]
  <1>1. \E f : Loop(f, 0)
    <2> DEFINE f == [i \in 0..0 |-> <<>>]
    <2>1. Loop(f, 0)
      OBVIOUS
    <2> QED
      BY <2>1
  <1>2. ASSUME NEW n \in 1..Len(a), NEW f, Loop(f, n - 1) PROVE \E g : Loop(g, n)
    <2> DEFINE g == [i \in 0..n |-> IF i = n THEN Step(f, n) ELSE f[i]]
    <2>1. g[n] = Step(g, n)
      OBVIOUS
    <2>2. ASSUME NEW i \in 0..(n - 1) PROVE g[i] = Step(g, i)
      <3>1. f[i] = Step(f, i)
        <4> HIDE DEF Step
        <4> QED
          BY <1>2
      <3>2. g[i] = f[i] /\ (i # 0 => g[i - 1] = f[i - 1])
        OBVIOUS
      <3> HIDE DEF g
      <3> QED
        BY <3>1, <3>2
    <2>3. \A i \in 0..n : i = n \/ i \in 0..(n - 1)
      OBVIOUS
    <2>4. g = [i \in 0..n |-> g[i]]
      OBVIOUS
    <2> HIDE DEF g, Step
    <2>5. \A i \in 0..n : g[i] = Step(g, i)
      BY <2>1, <2>2, <2>3
    <2> QED
      BY <2>4, <2>5
  <1>3. \E f : Loop(f, Len(a))
    <2> DEFINE T == {n \in 0..Len(a) : ~\E f : Loop(f, n)}
    <2> SUFFICES ASSUME ~\E f : Loop(f, Len(a)) PROVE FALSE
      OBVIOUS
    <2> HIDE DEF Loop
    <2>1. T \subseteq Nat /\ Len(a) \in T
      OBVIOUS
    <2>2. PICK m \in T : \A n \in T : m <= n
      <3> HIDE DEF T
      <3> QED
        BY <2>1, LeastNumber
    <2>3. m \in 1..Len(a) /\ (~\E f : Loop(f, m)) /\ \E f : Loop(f, m - 1)
      BY <1>1, <2>2
    <2> QED
      BY <1>2, <2>3
  <1>4. ASSUME NEW f, Loop(f, Len(a)) PROVE f[Len(a)] \in Seq(S)
    <2> DEFINE T == {n \in 0..Len(a) : f[n] \notin Seq(S)}
    <2> SUFFICES ASSUME f[Len(a)] \notin Seq(S) PROVE FALSE
      OBVIOUS
    <2>1. T \subseteq Nat /\ Len(a) \in T
      OBVIOUS
    <2>2. PICK m \in T : \A n \in T : m <= n
      <3> HIDE DEF T
      <3> QED
        BY <2>1, LeastNumber
    <2>3. m \in 0..Len(a) /\ f[m] = Step(f, m) /\ f[m] \notin Seq(S)
      BY <1>4, <2>2
    <2>4. m # 0 => f[m - 1] \in Seq(S)
      BY <2>2, <2>3
    <2> QED
      BY <2>3, <2>4
  <1>5. Shown(a) = (CHOOSE f : Loop(f, Len(a)))[Len(a)]
    BY DEF Shown
  <1> HIDE DEF Loop
  <1>6. Loop(CHOOSE f : Loop(f, Len(a)), Len(a))
    BY <1>3
  <1> QED
    BY <1>4, <1>5, <1>6

\* What a file says of a logger.
LEMMA WrittenDefinition ==
  ASSUME NEW n \in ToSet(LoggerNames), NEW d \in Written(n)
  PROVE  /\ d.level \in Levels /\ d.appenders \in Seq(Appenders)
         /\ Shown(d.appenders) \in Seq(Appenders)
  <1>1. PICK e \in Entries : e[1] = "logs" /\ e[2] # Bad /\ n \in DOMAIN e[2] /\ d = e[2][n]
    BY DEF Written
  <1>2. d.appenders \in Seq(Appenders)
    BY <1>1, SettingsAssumption
  <1>3. d.level \in Levels
    BY DEF Levels
  <1> QED
    BY <1>2, <1>3, ShownType

\* The steps that set a logger up: its level, no appenders, and then each of them.
AreSetUp(c, n, level, s) ==
  /\ Len(c) = Len(s) + 2
  /\ c[1] = [set |-> "level", name |-> n, to |-> level]
  /\ c[2] = [set |-> "clear", name |-> n]
  /\ \A i \in 1..Len(s) : c[i + 2] = [set |-> "add", name |-> n, to |-> s[i]]
\* SetUp makes those steps.
LEMMA SetUpCalls ==
  ASSUME NEW n, NEW d, Shown(d.appenders) \in Seq(Appenders)
  PROVE  AreSetUp(SetUp(n, d), n, d.level, Shown(d.appenders))
  <1> DEFINE s == Shown(d.appenders)
             a == [set |-> "level", name |-> n, to |-> d.level]
             b == [set |-> "clear", name |-> n]
             t == [i \in 1..Len(s) |-> [set |-> "add", name |-> n, to |-> s[i]]]
             U == {a, b} \cup {t[i] : i \in 1..Len(s)}
  <1>1. DOMAIN s = 1..Len(s) /\ Len(s) \in Nat
    BY LenProperties
  <1>2. SetUp(n, d) = <<a, b>> \o t
    BY <1>1 DEF SetUp, Adds
  <1>3. t \in Seq(U) /\ Len(t) = Len(s)
    <2>1. \A i \in 1..Len(s) : t[i] \in U
      OBVIOUS
    <2>2. t = [i \in 1..Len(s) |-> t[i]]
      OBVIOUS
    <2> HIDE DEF t, U
    <2> QED
      BY <1>1, <2>1, <2>2
  <1> HIDE DEF a, b, s
  <1>4. <<a, b>> \in Seq(U) /\ Len(<<a, b>>) = 2 /\ <<a, b>>[1] = a /\ <<a, b>>[2] = b
    OBVIOUS
  <1>5. \A i \in 1..Len(s) : t[i] = [set |-> "add", name |-> n, to |-> s[i]]
    OBVIOUS
  <1> HIDE DEF t, U
  <1>6. /\ Len(<<a, b>> \o t) = Len(s) + 2
        /\ (<<a, b>> \o t)[1] = a /\ (<<a, b>> \o t)[2] = b
        /\ \A i \in 1..Len(s) : (<<a, b>> \o t)[i + 2] = t[i]
    BY <1>1, <1>3, <1>4, ConcatProperties
  <1> QED
    BY <1>2, <1>5, <1>6 DEF s, a, b, AreSetUp
\* Two of them, and one for each appender.
LEMMA SetUpLength ==
  ASSUME NEW n, NEW d, Shown(d.appenders) \in Seq(Appenders)
  PROVE  Len(SetUp(n, d)) = Len(Shown(d.appenders)) + 2
  BY SetUpCalls DEF AreSetUp

\* What one call does to a logger; nothing else changes.
OnlyLogger(k, n) ==
  /\ k = [v \in DOMAIN Defaults |-> k[v]]
  /\ \A v \in DOMAIN Defaults \ {"logs"} : k[v] = kept[v]
  /\ k["logs"] \in [ToSet(LoggerNames) -> [level : Levels, appenders : Seq(Appenders)]]
  /\ \A m \in ToSet(LoggerNames) \ {n} : k["logs"][m] = kept["logs"][m]

\* One logger becomes r.
LEMMA LoggerWith ==
  ASSUME SettingsTypeOK, "logs" \in DOMAIN Defaults, NEW n \in ToSet(LoggerNames),
         NEW r \in [level : Levels, appenders : Seq(Appenders)],
         NEW k, k = [kept EXCEPT !["logs"] = [kept["logs"] EXCEPT ![n] = r]]
  PROVE  OnlyLogger(k, n) /\ k["logs"][n] = r
  <1> DEFINE Logger == [level : Levels, appenders : Seq(Appenders)]
             log == [kept["logs"] EXCEPT ![n] = r]
  <1>1. /\ kept = [v \in DOMAIN Defaults |-> kept[v]]
        /\ kept["logs"] \in [ToSet(LoggerNames) -> Logger]
    BY DEF SettingsTypeOK
  <1>2. r \in Logger
    OBVIOUS
  <1> HIDE DEF Logger
  <1>3. /\ log \in [ToSet(LoggerNames) -> Logger] /\ log[n] = r
        /\ \A m \in ToSet(LoggerNames) \ {n} : log[m] = kept["logs"][m]
    BY <1>1, <1>2
  <1> HIDE DEF log
  <1>4. k = [kept EXCEPT !["logs"] = log]
    BY DEF log
  <1>5. /\ k = [v \in DOMAIN Defaults |-> k[v]]
        /\ \A v \in DOMAIN Defaults \ {"logs"} : k[v] = kept[v]
        /\ k["logs"] = log
    BY <1>1, <1>4
  <1> QED
    BY <1>3, <1>5 DEF OnlyLogger, Logger

\* What each call of the listener of log.cpp does: it sets the level,
LEMMA LevelCall ==
  ASSUME SettingsTypeOK, "logs" \in DOMAIN Defaults, NEW n \in ToSet(LoggerNames),
         NEW x \in Levels,
         NEW k, k = Applied(kept, [set |-> "level", name |-> n, to |-> x])
  PROVE  OnlyLogger(k, n) /\ k["logs"][n].level = x
  <1> DEFINE r == [kept["logs"][n] EXCEPT !.level = x]
  <1>1. r \in [level : Levels, appenders : Seq(Appenders)] /\ r.level = x
    BY DEF SettingsTypeOK
  <1>2. k = [kept EXCEPT !["logs"] = [kept["logs"] EXCEPT ![n] = r]]
    BY DEF Applied
  <1> HIDE DEF r
  <1> QED
    BY <1>1, <1>2, LoggerWith

\* a logger with other appenders,
LEMMA AppendersWith ==
  ASSUME SettingsTypeOK, "logs" \in DOMAIN Defaults, NEW n \in ToSet(LoggerNames),
         NEW a \in Seq(Appenders)
  PROVE  LET r == [kept["logs"][n] EXCEPT !.appenders = a]
         IN /\ r \in [level : Levels, appenders : Seq(Appenders)]
            /\ r.level = kept["logs"][n].level /\ r.appenders = a
  <1> DEFINE S == Seq(Appenders)
  <1>1. PICK o \in [level : Levels, appenders : S] : o = kept["logs"][n]
    BY DEF SettingsTypeOK
  <1>2. a \in S
    OBVIOUS
  <1>3. PICK L : L = [level : Levels, appenders : S]
    OBVIOUS
  <1> DEFINE r == [o EXCEPT !.appenders = a]
  <1>4. r \in [level : Levels, appenders : S] /\ r.level = o.level /\ r.appenders = a
    <2> HIDE DEF S
    <2> QED
      BY <1>1, <1>2
  <1> QED
    BY <1>1, <1>4

\* it clears the appenders,
LEMMA ClearCall ==
  ASSUME SettingsTypeOK, "logs" \in DOMAIN Defaults, NEW n \in ToSet(LoggerNames),
         NEW k, k = Applied(kept, [set |-> "clear", name |-> n])
  PROVE  /\ OnlyLogger(k, n) /\ k["logs"][n].level = kept["logs"][n].level
         /\ k["logs"][n].appenders = <<>>
  <1> DEFINE r == [kept["logs"][n] EXCEPT !.appenders = <<>>]
  <1>1. <<>> \in Seq(Appenders)
    OBVIOUS
  <1>2. /\ r \in [level : Levels, appenders : Seq(Appenders)]
        /\ r.level = kept["logs"][n].level /\ r.appenders = <<>>
    BY <1>1, AppendersWith
  <1>3. k = [kept EXCEPT !["logs"] = [kept["logs"] EXCEPT ![n] = r]]
    BY DEF Applied
  <1> HIDE DEF r
  <1> QED
    BY <1>2, <1>3, LoggerWith

\* In a turn of the listener it steps one logger, the one whose turn it is.
LEMMA TurnOfListener ==
  ASSUME SettingsTypeOK, Values, "logs" \in DOMAIN Defaults, NEW x, Definitions(x),
         NEW turn \in 1..(2 * Loggers)
  PROVE  \E i \in 1..Loggers :
           LET n == LoggerNames[i]
               old == value["logs"]
               steps == OnChange("logs", old, x, turn)
           IN /\ n \in ToSet(LoggerNames)
              /\ \A j \in 1..Loggers \ {i} : LoggerNames[j] # n /\ TurnOf(j, x) # turn
              /\ \/ /\ n \in DOMAIN x /\ TurnOf(i, x) = turn
                    /\ steps = IF Differs(n, old, x) THEN SetUp(n, x[n]) ELSE <<>>
                 \/ /\ n \notin DOMAIN x /\ TurnOf(i, x) = turn
                    /\ steps = IF n \in DOMAIN old THEN Shut(n) ELSE <<>>
                 \/ TurnOf(i, x) # turn /\ steps = <<>>
  <1>1. LoggerNames \in Seq(ToSet(LoggerNames)) /\ IsInjective(LoggerNames) /\ Loggers \in Nat
        /\ DOMAIN LoggerNames = 1..Loggers
    BY SettingsAssumption, LenProperties DEF Loggers
  <1> DEFINE i == IF turn <= Loggers THEN turn ELSE turn - Loggers
  <1>2. i \in 1..Loggers
    BY <1>1
  <1>3. LoggerNames[i] \in ToSet(LoggerNames)
    BY <1>1, <1>2 DEF ToSet
  <1>4. \A j \in 1..Loggers : j # i => LoggerNames[j] # LoggerNames[i]
    BY <1>1, <1>2 DEF IsInjective
  <1>5. \A j \in 1..Loggers : j # i => TurnOf(j, x) # turn
    BY <1>1, <1>2 DEF TurnOf
  <1>6. CASE turn <= Loggers
    <2>1. i = turn
      BY <1>6
    <2>2. OnChange("logs", value["logs"], x, turn)
            = IF Differs(LoggerNames[turn], value["logs"], x)
                THEN SetUp(LoggerNames[turn], x[LoggerNames[turn]]) ELSE <<>>
      BY <1>6 DEF OnChange
    <2>3. LoggerNames[i] \in DOMAIN x => TurnOf(i, x) = turn
      BY <2>1 DEF TurnOf
    <2>4. LoggerNames[i] \notin DOMAIN x =>
            ~Differs(LoggerNames[i], value["logs"], x) /\ TurnOf(i, x) # turn
      BY <1>1, <1>2, <2>1 DEF TurnOf, Differs
    <2> HIDE DEF i
    <2> QED
      BY <1>2, <1>3, <1>4, <1>5, <2>1, <2>2, <2>3, <2>4
  <1>7. CASE turn > Loggers
    <2>1. i = turn - Loggers /\ turn = Loggers + i /\ ~(turn <= Loggers)
      BY <1>1, <1>7
    <2>2. OnChange("logs", value["logs"], x, turn)
            = IF LoggerNames[i] \in DOMAIN value["logs"] \ DOMAIN x
                THEN Shut(LoggerNames[i]) ELSE <<>>
      BY <2>1 DEF OnChange
    <2>3. LoggerNames[i] \notin DOMAIN x => TurnOf(i, x) = turn
      BY <2>1 DEF TurnOf
    <2>4. LoggerNames[i] \in DOMAIN x => TurnOf(i, x) # turn
      BY <1>1, <1>2, <1>7 DEF TurnOf
    <2> HIDE DEF i
    <2> QED
      BY <1>2, <1>3, <1>4, <1>5, <2>2, <2>3, <2>4
  <1> QED
    BY <1>1, <1>6, <1>7

\* The steps of a turn, done so far; with the next one they are one more.
LEMMA LoggerCall ==
  ASSUME SettingsTypeOK, Values, "logs" \in DOMAIN Defaults, NEW x, Definitions(x),
         NEW turn \in 1..(2 * Loggers), NEW done \in Nat,
         done < Len(OnChange("logs", value["logs"], x, turn)),
         kept' = Applied(kept, OnChange("logs", value["logs"], x, turn)[done + 1]),
         UNCHANGED value
  PROVE  \E i \in 1..Loggers :
           /\ LoggerNames[i] \in ToSet(LoggerNames) /\ TurnOf(i, x) = turn
           /\ \A j \in 1..Loggers \ {i} : LoggerNames[j] # LoggerNames[i] /\ TurnOf(j, x) # turn
           /\ OnlyLogger(kept', LoggerNames[i])
           /\ Half(LoggerNames[i], x, done) => Half(LoggerNames[i], x, done + 1)'
  <1> DEFINE old == value["logs"]
             steps == OnChange("logs", old, x, turn)
  <1>1. PICK i \in 1..Loggers :
           /\ LoggerNames[i] \in ToSet(LoggerNames)
           /\ \A j \in 1..Loggers \ {i} : LoggerNames[j] # LoggerNames[i] /\ TurnOf(j, x) # turn
           /\ \/ /\ LoggerNames[i] \in DOMAIN x /\ TurnOf(i, x) = turn
                 /\ steps = IF Differs(LoggerNames[i], old, x)
                              THEN SetUp(LoggerNames[i], x[LoggerNames[i]]) ELSE <<>>
              \/ /\ LoggerNames[i] \notin DOMAIN x /\ TurnOf(i, x) = turn
                 /\ steps = IF LoggerNames[i] \in DOMAIN old THEN Shut(LoggerNames[i]) ELSE <<>>
              \/ TurnOf(i, x) # turn /\ steps = <<>>
    BY TurnOfListener
  <1>2. PICK n \in ToSet(LoggerNames) : n = LoggerNames[i]
    BY <1>1
  <1>4. Len(<<>>) = 0 /\ ~(done < 0)
    OBVIOUS
  <1>5. \/ n \in DOMAIN x /\ Differs(n, old, x) /\ steps = SetUp(n, x[n])
        \/ n \notin DOMAIN x /\ n \in DOMAIN old /\ steps = Shut(n)
    BY <1>1, <1>2, <1>4
  <1>6. TurnOf(i, x) = turn
    BY <1>1, <1>4
  <1> DEFINE Effect == OnlyLogger(kept', n)
  <1>8. Effect /\ (Half(n, x, done) => Half(n, x, done + 1)')
    <2>1. CASE n \in DOMAIN x /\ Differs(n, old, x) /\ steps = SetUp(n, x[n])
      <3>1. PICK d \in Written(n) : d = x[n]
        BY <2>1 DEF Definitions
      <3>2. PICK s \in Seq(Appenders) : s = Shown(d.appenders)
        BY WrittenDefinition
      <3>3. /\ Len(steps) = Len(s) + 2
            /\ steps[1] = [set |-> "level", name |-> n, to |-> d.level]
            /\ steps[2] = [set |-> "clear", name |-> n]
            /\ \A j \in 1..Len(s) : steps[j + 2] = [set |-> "add", name |-> n, to |-> s[j]]
        <4>1. Shown(d.appenders) \in Seq(Appenders)
          BY <3>2
        <4>2. AreSetUp(SetUp(n, d), n, d.level, Shown(d.appenders))
          BY ONLY <4>1, SetUpCalls
        <4>3. steps = SetUp(n, d)
          BY <2>1, <3>1
        <4> HIDE DEF steps
        <4> QED
          BY <3>2, <4>2, <4>3 DEF AreSetUp
      <3>4. CASE done = 0
        <4>1. kept' = Applied(kept, [set |-> "level", name |-> n, to |-> d.level])
          BY <3>3, <3>4
        <4>2. d.level \in Levels
          BY WrittenDefinition
        <4>3. Effect /\ kept'["logs"][n].level = x[n].level
          BY <3>1, <4>1, <4>2, LevelCall
        <4> QED
          BY <2>1, <3>4, <4>3 DEF Half
      <3>5. CASE done = 1
        <4>1. kept' = Applied(kept, [set |-> "clear", name |-> n])
          BY <3>3, <3>5
        <4>2. Effect /\ kept'["logs"][n].level = kept["logs"][n].level
                     /\ kept'["logs"][n].appenders = <<>>
          BY <4>1, ClearCall
        <4>3. SubSeq(s, 1, 0) = <<>> /\ done + 1 - 2 = 0
          BY <3>5
        <4>4. kept'["logs"][n].appenders = SubSeq(Shown(x[n].appenders), 1, done + 1 - 2)
          BY <3>1, <3>2, <4>2, <4>3
        <4>5. ASSUME Half(n, x, done) PROVE Half(n, x, done + 1)'
          <5>1. kept'["logs"][n].level = x[n].level
            BY <2>1, <3>5, <4>2, <4>5 DEF Half
          <5>2. (n \in DOMAIN x /\ Differs(n, value["logs"], x))'
            BY <2>1
          <5> HIDE DEF Effect, steps, old
          <5> QED
            BY ONLY <4>4, <5>1, <5>2 DEF Half
        <4> QED
          BY <4>2, <4>5
      <3>6. CASE done >= 2
        <4>1. PICK j \in 1..Len(s) : done = j + 1 /\ j + 2 = done + 1 /\ j - 1 = done - 2
                                      /\ done + 1 - 2 = j
          <5>1. done - 1 \in 1..Len(s)
            BY <3>3, <3>6
          <5> QED
            BY <5>1
        <4>2. PICK a \in Appenders : a = s[j]
          OBVIOUS
        <4>3. Effect /\ kept'["logs"][n].level = kept["logs"][n].level
                     /\ kept'["logs"][n].appenders = Append(kept["logs"][n].appenders, a)
          <5>1. kept' = Applied(kept, [set |-> "add", name |-> n, to |-> a])
            BY <3>3, <4>1, <4>2
          <5>2. PICK all : all = Append(kept["logs"][n].appenders, a)
            OBVIOUS
          <5>3. all \in Seq(Appenders)
            BY <5>2 DEF SettingsTypeOK
          <5> DEFINE r == [kept["logs"][n] EXCEPT !.appenders = all]
          <5>4. /\ r \in [level : Levels, appenders : Seq(Appenders)]
                /\ r.level = kept["logs"][n].level /\ r.appenders = all
            BY <5>3, AppendersWith
          <5>5. kept' = [kept EXCEPT !["logs"] = [kept["logs"] EXCEPT ![n] = r]]
            BY <5>1, <5>2 DEF Applied
          <5> HIDE DEF r
          <5>6. OnlyLogger(kept', n) /\ kept'["logs"][n] = r
            BY <5>4, <5>5, LoggerWith
          <5> QED
            BY <5>2, <5>4, <5>6
        <4>4. Append(SubSeq(s, 1, j - 1), s[j]) = SubSeq(s, 1, j)
          OBVIOUS
        <4>5. ASSUME Half(n, x, done) PROVE Half(n, x, done + 1)'
          <5>1. /\ kept["logs"][n].level = x[n].level
                /\ kept["logs"][n].appenders = SubSeq(s, 1, j - 1)
            BY <2>1, <3>1, <3>2, <3>6, <4>1, <4>5 DEF Half
          <5>2. kept'["logs"][n].appenders = SubSeq(Shown(x[n].appenders), 1, done + 1 - 2)
            BY <3>1, <3>2, <4>1, <4>2, <4>3, <4>4, <5>1
          <5>3. kept'["logs"][n].level = x[n].level
            BY <4>3, <5>1
          <5>4. (n \in DOMAIN x /\ Differs(n, value["logs"], x))'
            BY <2>1
          <5> HIDE DEF Effect, steps, old
          <5> QED
            BY ONLY <5>2, <5>3, <5>4 DEF Half
        <4> QED
          BY <4>3, <4>5
      <3> QED
        BY <3>4, <3>5, <3>6
    <2>2. CASE n \notin DOMAIN x /\ n \in DOMAIN old /\ steps = Shut(n)
      <3>1. Len(steps) = 2 /\ steps[1] = [set |-> "level", name |-> n, to |-> NotSet]
                           /\ steps[2] = [set |-> "clear", name |-> n]
        BY <2>2 DEF Shut
      <3>2. CASE done = 0
        <4>1. kept' = Applied(kept, [set |-> "level", name |-> n, to |-> NotSet])
          BY <3>1, <3>2
        <4>2. NotSet \in Levels
          BY DEF Levels
        <4>3. Effect
          BY <4>1, <4>2, LevelCall
        <4> QED
          BY <2>2, <3>2, <4>3 DEF Half
      <3>3. CASE done = 1
        <4>1. kept' = Applied(kept, [set |-> "clear", name |-> n])
          BY <3>1, <3>3
        <4>2. Effect /\ kept'["logs"][n].appenders = <<>>
          BY <4>1, ClearCall
        <4> QED
          BY <2>2, <3>3, <4>2 DEF Half
      <3> QED
        BY <3>1, <3>2, <3>3
    <2> QED
      BY <1>5, <2>1, <2>2
  <1> QED
    BY <1>1, <1>2, <1>6, <1>8

\* One call of the listener: the logger whose turn it is has been told one more.
LEMMA LoggerHeard ==
  ASSUME SettingsTypeOK, Values, "logs" \in DOMAIN Defaults, NEW x, Definitions(x),
         NEW turn \in 1..(2 * Loggers), NEW done \in Nat, LoggersTold(x, turn, done),
         done < Len(OnChange("logs", value["logs"], x, turn)),
         kept' = Applied(kept, OnChange("logs", value["logs"], x, turn)[done + 1]),
         UNCHANGED value
  PROVE  LoggersTold(x, turn, done + 1)'
  <1> DEFINE old == value["logs"]
  <1>1. PICK i \in 1..Loggers :
           /\ LoggerNames[i] \in ToSet(LoggerNames) /\ TurnOf(i, x) = turn
           /\ \A j \in 1..Loggers \ {i} : LoggerNames[j] # LoggerNames[i] /\ TurnOf(j, x) # turn
           /\ OnlyLogger(kept', LoggerNames[i])
           /\ Half(LoggerNames[i], x, done) => Half(LoggerNames[i], x, done + 1)'
    BY LoggerCall
  <1>2. PICK n \in ToSet(LoggerNames) : n = LoggerNames[i]
    BY <1>1
  <1>6. TurnOf(i, x) = turn
    BY <1>1
  <1>7. Half(n, x, done)
    BY <1>2, <1>6 DEF LoggersTold
  <1>8. OnlyLogger(kept', n) /\ Half(n, x, done + 1)'
    BY <1>1, <1>2, <1>7
  <1>9. ASSUME NEW j \in 1..Loggers
        PROVE  /\ turn < TurnOf(j, x) => HasValue(LoggerNames[j], old)'
               /\ turn = TurnOf(j, x) => /\ done + 1 = 0 => HasValue(LoggerNames[j], old)'
                                         /\ Half(LoggerNames[j], x, done + 1)'
               /\ turn > TurnOf(j, x) => HasValue(LoggerNames[j], x)'
    <2>1. CASE j = i
      <3>1. ~(turn < TurnOf(j, x)) /\ ~(turn > TurnOf(j, x)) /\ done + 1 # 0
        BY <1>6, <2>1
      <3> QED
        BY <1>2, <1>8, <2>1, <3>1
    <2>2. CASE j # i
      <3>1. LoggerNames[j] \in ToSet(LoggerNames) \ {n} /\ TurnOf(j, x) # turn
        <4>1. DOMAIN LoggerNames = 1..Loggers
          BY SettingsAssumption, LenProperties DEF Loggers
        <4> QED
          BY <1>1, <1>2, <2>2, <4>1 DEF ToSet
      <3>2. kept'["logs"][LoggerNames[j]] = kept["logs"][LoggerNames[j]]
        BY <1>8, <3>1 DEF OnlyLogger
      <3>3. /\ turn < TurnOf(j, x) => HasValue(LoggerNames[j], old)
            /\ turn > TurnOf(j, x) => HasValue(LoggerNames[j], x)
        BY DEF LoggersTold
      <3> QED
        BY <3>1, <3>2, <3>3 DEF HasValue
    <2> QED
      BY <2>1, <2>2
  <1>10. LoggersTold(x, turn, done + 1)'
    BY <1>9 DEF LoggersTold
  <1> QED
    BY <1>10

\* When they are all done the turn is over.
LEMMA TurnOver ==
  ASSUME SettingsTypeOK, Values, "logs" \in DOMAIN Defaults, NEW x, Definitions(x),
         NEW turn \in 1..(2 * Loggers), NEW done \in Nat, LoggersTold(x, turn, done),
         done = Len(OnChange("logs", value["logs"], x, turn))
  PROVE  LoggersTold(x, turn + 1, 0)
  <1> DEFINE old == value["logs"]
             steps == OnChange("logs", old, x, turn)
  <1>1. PICK i \in 1..Loggers :
           /\ LoggerNames[i] \in ToSet(LoggerNames)
           /\ \A j \in 1..Loggers \ {i} : LoggerNames[j] # LoggerNames[i] /\ TurnOf(j, x) # turn
           /\ \/ /\ LoggerNames[i] \in DOMAIN x /\ TurnOf(i, x) = turn
                 /\ steps = IF Differs(LoggerNames[i], old, x)
                              THEN SetUp(LoggerNames[i], x[LoggerNames[i]]) ELSE <<>>
              \/ /\ LoggerNames[i] \notin DOMAIN x /\ TurnOf(i, x) = turn
                 /\ steps = IF LoggerNames[i] \in DOMAIN old THEN Shut(LoggerNames[i]) ELSE <<>>
              \/ TurnOf(i, x) # turn /\ steps = <<>>
    BY TurnOfListener
  <1>2. PICK n \in ToSet(LoggerNames) : n = LoggerNames[i]
    BY <1>1
  <1>3. \A j \in 1..Loggers : TurnOf(j, x) \in Nat
    BY DEF TurnOf, Loggers
  <1>4. TurnOf(i, x) = turn => HasValue(n, x)
    <2> SUFFICES ASSUME TurnOf(i, x) = turn PROVE HasValue(n, x)
      OBVIOUS
    <2>1. (done = 0 => HasValue(n, old)) /\ Half(n, x, done)
      BY <1>2 DEF LoggersTold
    <2>2. CASE n \in DOMAIN x /\ Differs(n, old, x)
      <3>1. PICK d \in Written(n) : d = x[n]
        BY <2>2 DEF Definitions
      <3>2. PICK s \in Seq(Appenders) : s = Shown(d.appenders)
        BY WrittenDefinition
      <3>3. done = Len(s) + 2 /\ Len(s) \in Nat /\ done - 2 = Len(s)
        <4>1. Shown(d.appenders) \in Seq(Appenders) /\ steps = SetUp(n, d)
          BY <1>1, <1>2, <2>2, <3>1, <3>2
        <4>2. Len(SetUp(n, d)) = Len(Shown(d.appenders)) + 2
          BY ONLY <4>1, SetUpLength
        <4>3. done = Len(s) + 2
          BY <3>2, <4>1, <4>2
        <4> QED
          BY <4>3
      <3>4. SubSeq(s, 1, Len(s)) = s
        OBVIOUS
      <3>5. kept["logs"][n].level = x[n].level
            /\ kept["logs"][n].appenders = SubSeq(Shown(x[n].appenders), 1, done - 2)
        BY <2>1, <2>2, <3>3 DEF Half
      <3> QED
        BY <2>2, <3>1, <3>2, <3>3, <3>4, <3>5 DEF HasValue
    <2>3. CASE n \in DOMAIN x /\ ~Differs(n, old, x)
      <3>1. done = 0
        BY <1>1, <1>2, <2>3
      <3>2. n \in DOMAIN old /\ x[n].level = old[n].level
        BY <2>3 DEF Differs, SameDefine
      <3> QED
        BY <2>1, <2>3, <3>1, <3>2 DEF HasValue
    <2>4. CASE n \notin DOMAIN x /\ n \in DOMAIN old
      <3>1. done = 2
        BY <1>1, <1>2, <2>4 DEF Shut
      <3>2. kept["logs"][n].appenders = <<>>
        BY <2>1, <2>4, <3>1 DEF Half
      <3> QED
        BY <2>4, <3>2 DEF HasValue
    <2>5. CASE n \notin DOMAIN x /\ n \notin DOMAIN old
      <3>1. done = 0
        BY <1>1, <1>2, <2>5
      <3> QED
        BY <2>1, <2>5, <3>1 DEF HasValue
    <2> QED
      BY <2>2, <2>3, <2>4, <2>5
  <1>5. ASSUME NEW j \in 1..Loggers
        PROVE  /\ turn + 1 < TurnOf(j, x) => HasValue(LoggerNames[j], old)
               /\ turn + 1 = TurnOf(j, x) => HasValue(LoggerNames[j], old)
               /\ turn + 1 > TurnOf(j, x) => HasValue(LoggerNames[j], x)
    <2>1. /\ turn < TurnOf(j, x) => HasValue(LoggerNames[j], old)
          /\ turn > TurnOf(j, x) => HasValue(LoggerNames[j], x)
      BY DEF LoggersTold
    <2>2. turn = TurnOf(j, x) => HasValue(LoggerNames[j], x)
      BY <1>1, <1>2, <1>4
    <2>3. PICK t \in Nat : t = TurnOf(j, x)
      BY <1>3
    <2>4. /\ turn + 1 < t => turn < t
          /\ turn + 1 = t => turn < t
          /\ turn + 1 > t => turn > t \/ turn = t
      OBVIOUS
    <2> QED
      BY <2>1, <2>2, <2>3, <2>4
  <1>6. \A m : Half(m, x, 0)
    BY DEF Half
  <1> QED
    BY <1>5, <1>6 DEF LoggersTold

-----------------------------------------------------------------------------
(* Settings: what the steps do.                                            *)

\* Where a load can be.
LEMMA LoadingFields ==
  ASSUME NEW s \in Loading
  PROVE  /\ s.at \in {"out", "read", "check", "next", "write", "notify"}
         /\ s.at = "out" => s = Out
         /\ s.at = "check" => s.force \in BOOLEAN /\ s.stat \in Nat
         /\ s.at \in {"next", "write", "notify"} => s.todo \in Seq(Entries)
         /\ s.at = "notify" =>
              /\ s.turn \in Nat /\ s.done \in Nat
              /\ s \in Notifying
  <1> DEFINE S == Seq(Entries)
  <1>1. Loading = {Out, [at |-> "read"]} \cup [at : {"check"}, force : BOOLEAN, stat : Nat]
                    \cup [at : {"next", "write"}, todo : S] \cup Notifying
    BY DEF Loading
  <1>7. Notifying = [at : {"notify"}, todo : S, turn : Nat, done : Nat]
    BY DEF Notifying
  <1> HIDE DEF S
  <1>2. s \in Notifying => /\ s.at = "notify" /\ s.todo \in S /\ s.turn \in Nat /\ s.done \in Nat
    BY <1>7
  <1>3. s \in [at : {"next", "write"}, todo : S] => s.at \in {"next", "write"} /\ s.todo \in S
    OBVIOUS
  <1>4. s \in [at : {"check"}, force : BOOLEAN, stat : Nat] =>
          s.at = "check" /\ s.force \in BOOLEAN /\ s.stat \in Nat
    OBVIOUS
  <1>5. Out.at = "out" /\ [at |-> "read"].at = "read"
    BY DEF Out
  <1>6. s.at = "notify" => s \in Notifying
    BY <1>1, <1>3, <1>4, <1>5
  <1> QED
    BY <1>1, <1>2, <1>3, <1>4, <1>5, <1>6 DEF S

\* A loader moves, the others stay.
LEMMA LoaderMoved ==
  ASSUME SettingsTypeOK, NEW l \in Loaders, NEW s, Move(l, s)
  PROVE  /\ loader'[l] = s /\ \A m \in Loaders \ {l} : loader'[m] = loader[m]
         /\ s \in Loading => loader' \in [Loaders -> Loading]
  <1>1. loader \in [Loaders -> Loading]
    BY DEF SettingsTypeOK
  <1> QED
    BY <1>1 DEF Move

\* The next entry of what is left to do.
LEMMA NextEntry ==
  ASSUME NEW todo \in Seq(Entries), todo # <<>>
  PROVE  /\ todo[1] \in Entries /\ Tail(todo) \in Seq(Entries)
         /\ Len(todo) \in Nat \ {0} /\ Len(Tail(todo)) = Len(todo) - 1
         /\ \A i \in 1..(Len(todo) - 1) : Tail(todo)[i] = todo[i + 1]
  OBVIOUS

\* What a file says of "logs" is written in it.
LEMMA EntryDefines ==
  ASSUME NEW e \in Entries, e[1] = "logs", e[2] # Bad
  PROVE  Definitions(e[2])
  <1>1. DOMAIN e[2] \subseteq ToSet(LoggerNames)
    BY SettingsAssumption
  <1>2. ASSUME NEW n \in DOMAIN e[2] PROVE e[2][n] \in Written(n)
    BY <1>2 DEF Written
  <1> QED
    BY <1>1, <1>2 DEF Definitions

\* A step that sets no variable: the loader goes on elsewhere.
Quiet ==
  /\ UNCHANGED <<value, kept, clashed>>
  /\ \A m \in Loaders : loader'[m] = loader[m] \/ (~Sets(m) /\ ~Sets(m)')
\* A loader comes upon a variable whose value it is to set.
Starts(l) ==
  LET todo == loader[l].todo
      v == todo[1][1]
      x == todo[1][2]
  IN /\ loader[l].at = "next" /\ todo # <<>>
     /\ v \in DOMAIN value /\ x # Bad /\ ~SameValue(v, x, value[v])
     /\ Move(l, [at |-> "notify", todo |-> todo, turn |-> 1, done |-> 0])
     /\ clashed' = IF Setting(v) = {} THEN clashed ELSE clashed \cup {v}
     /\ UNCHANGED <<document, recorded, value, kept, loads, changes, alone, trusted, applied>>
\* It passes over one that has it, or that is none.
Passes(l) ==
  LET todo == loader[l].todo
      v == todo[1][1]
      x == todo[1][2]
  IN /\ loader[l].at = "next" /\ todo # <<>>
     /\ v \notin DOMAIN value \/ x = Bad \/ SameValue(v, x, value[v])
     /\ Move(l, [at |-> "next", todo |-> Tail(todo)])
     /\ UNCHANGED <<document, recorded, value, kept, loads, changes, watched>>
Ends(l) ==
  /\ loader[l].at = "next" /\ loader[l].todo = <<>> /\ Leave(l, TRUE)
  /\ UNCHANGED <<document, recorded, value, kept, loads, changes, clashed>>

\* NextVar starts to set, passes over, or ends.
LEMMA NextVarCases ==
  ASSUME NEW l, NextVar(l)
  PROVE  Starts(l) \/ Passes(l) \/ Ends(l)
  <1>1. CASE loader[l].todo = <<>>
    BY <1>1 DEF NextVar, Ends
  <1>2. CASE loader[l].todo # <<>>
    <2> DEFINE v == loader[l].todo[1][1]
               x == loader[l].todo[1][2]
    <2>1. CASE v \in DOMAIN value /\ x # Bad /\ ~SameValue(v, x, value[v])
      BY <1>2, <2>1 DEF NextVar, Starts
    <2>2. CASE ~(v \in DOMAIN value /\ x # Bad /\ ~SameValue(v, x, value[v]))
      BY <1>2, <2>2 DEF NextVar, Passes, watched
    <2> QED
      BY <2>1, <2>2
  <1> QED
    BY <1>1, <1>2

\* A step that sets nothing keeps the types.
LEMMA QuietTyping ==
  ASSUME SettingsTypeOK, Values,
         Change \/ \E l \in Loaders : BeginLoad(l) \/ CheckTime(l) \/ LoadFile(l) \/ Passes(l) \/ Ends(l)
  PROVE  SettingsTypeOK' /\ Quiet
  <1> DEFINE History == alone' \in SUBSET Loaders /\ trusted' \in BOOLEAN /\ applied' \in BOOLEAN
             Rest == value' = value /\ kept' = kept /\ clashed' = clashed
             File == document' \in [content : Contents, mtime : Nat] /\ recorded' \in Nat
  <1>1. SUFFICES /\ History /\ Rest /\ File /\ loader' \in [Loaders -> Loading]
                 /\ \A m \in Loaders : loader'[m] = loader[m] \/ (~Sets(m) /\ ~Sets(m)')
    BY DEF SettingsTypeOK, Quiet
  <1>2. /\ document \in [content : Contents, mtime : Nat] /\ recorded \in Nat
        /\ document.content \in Contents /\ document.mtime \in Nat
        /\ loader \in [Loaders -> Loading]
        /\ alone \in SUBSET Loaders /\ trusted \in BOOLEAN /\ applied \in BOOLEAN
    BY DEF SettingsTypeOK
  <1>3. CASE Change
    <2>1. PICK c \in Contents, t \in {0, 1} :
             /\ document' = [content |-> c, mtime |-> document.mtime + t]
             /\ trusted' = (trusted /\ (t = 1 \/ recorded # document.mtime))
      BY <1>3 DEF Change
    <2>2. /\ alone' = {} /\ applied' = FALSE /\ recorded' = recorded
          /\ value' = value /\ kept' = kept /\ loader' = loader /\ clashed' = clashed
      BY <1>3 DEF Change
    <2>3. document.mtime + t \in Nat
      BY <1>2
    <2> QED
      BY <1>2, <2>1, <2>2, <2>3
  <1>4. ASSUME NEW l \in Loaders, NEW read \in BOOLEAN, Leave(l, read), ~Sets(l)
        PROVE  History /\ loader' \in [Loaders -> Loading]
               /\ \A m \in Loaders : loader'[m] = loader[m] \/ (~Sets(m) /\ ~Sets(m)')
    <2>1. Out \in Loading /\ Out.at = "out"
      BY DEF Loading, Out
    <2>2. Move(l, Out)
      BY <1>4 DEF Leave
    <2>3. loader' \in [Loaders -> Loading] /\ loader'[l] = Out
          /\ \A m \in Loaders \ {l} : loader'[m] = loader[m]
      BY <2>1, <2>2, LoaderMoved
    <2>4. History
      BY <1>2, <1>4 DEF Leave
    <2> QED
      BY <1>4, <2>1, <2>3, <2>4 DEF Sets
  <1>5. ASSUME NEW l \in Loaders, NEW s \in Loading, Move(l, s), ~Sets(l),
               s.at \notin {"notify", "write"}
        PROVE  loader' \in [Loaders -> Loading]
               /\ \A m \in Loaders : loader'[m] = loader[m] \/ (~Sets(m) /\ ~Sets(m)')
    <2>1. loader' \in [Loaders -> Loading] /\ loader'[l] = s
          /\ \A m \in Loaders \ {l} : loader'[m] = loader[m]
      BY <1>5, LoaderMoved
    <2> QED
      BY <1>5, <2>1 DEF Sets
  <1>6. ASSUME NEW l \in Loaders, BeginLoad(l)
        PROVE  /\ History /\ Rest /\ File /\ loader' \in [Loaders -> Loading]
               /\ \A m \in Loaders : loader'[m] = loader[m] \/ (~Sets(m) /\ ~Sets(m)')
    <2>1. PICK force \in BOOLEAN :
             Move(l, [at |-> "check", force |-> force, stat |-> document.mtime])
      BY <1>6 DEF BeginLoad
    <2> DEFINE s == [at |-> "check", force |-> force, stat |-> document.mtime]
    <2>2. s \in Loading /\ s.at = "check"
      BY <1>2 DEF Loading
    <2>3. ~Sets(l)
      BY <1>6 DEF BeginLoad, Sets, Out
    <2>4. loader' \in [Loaders -> Loading]
          /\ \A m \in Loaders : loader'[m] = loader[m] \/ (~Sets(m) /\ ~Sets(m)')
      <3> HIDE DEF s
      <3>1. Move(l, s)
        BY <2>1 DEF s
      <3> QED
        BY <1>5, <2>2, <2>3, <3>1
    <2>5. History /\ Rest /\ File
      BY <1>2, <1>6 DEF BeginLoad
    <2> QED
      BY <2>4, <2>5
  <1>7. ASSUME NEW l \in Loaders, CheckTime(l)
        PROVE  /\ History /\ Rest /\ File /\ loader' \in [Loaders -> Loading]
               /\ \A m \in Loaders : loader'[m] = loader[m] \/ (~Sets(m) /\ ~Sets(m)')
    <2>1. ~Sets(l) /\ loader[l].at = "check" /\ loader[l].stat \in Nat
      <3>1. loader[l] \in Loading
        BY <1>2
      <3> QED
        BY <1>7, <3>1, LoadingFields DEF CheckTime, Sets
    <2>2. Rest /\ document' = document
      BY <1>7 DEF CheckTime
    <2>3. CASE Leave(l, FALSE) /\ recorded' = recorded
      BY <1>2, <1>4, <2>1, <2>2, <2>3
    <2>4. CASE recorded' = loader[l].stat /\ Move(l, [at |-> "read"])
               /\ UNCHANGED <<alone, trusted, applied>>
      <3>1. [at |-> "read"] \in Loading /\ [at |-> "read"].at = "read"
        BY DEF Loading
      <3>2. loader' \in [Loaders -> Loading]
            /\ \A m \in Loaders : loader'[m] = loader[m] \/ (~Sets(m) /\ ~Sets(m)')
        BY <1>5, <2>1, <2>4, <3>1
      <3> QED
        BY <1>2, <2>1, <2>2, <2>4, <3>2
    <2> QED
      BY <1>7, <2>3, <2>4 DEF CheckTime
  <1>8. ASSUME NEW l \in Loaders, LoadFile(l)
        PROVE  /\ History /\ Rest /\ File /\ loader' \in [Loaders -> Loading]
               /\ \A m \in Loaders : loader'[m] = loader[m] \/ (~Sets(m) /\ ~Sets(m)')
    <2>1. ~Sets(l)
      BY <1>8 DEF LoadFile, Sets
    <2>2. Rest /\ document' = document /\ recorded' = recorded
      BY <1>8 DEF LoadFile
    <2>3. CASE Leave(l, TRUE)
      BY <1>2, <1>4, <2>1, <2>2, <2>3
    <2>4. CASE document.content # Broken /\ Move(l, [at |-> "next", todo |-> document.content])
               /\ UNCHANGED <<alone, trusted, applied>>
      <3> DEFINE s == [at |-> "next", todo |-> document.content]
      <3>1. s \in Loading /\ s.at = "next"
        <4>1. document.content \in Seq(Entries)
          BY <1>2, <2>4, SettingsAssumption
        <4> QED
          BY <4>1 DEF Loading
      <3>2. loader' \in [Loaders -> Loading]
            /\ \A m \in Loaders : loader'[m] = loader[m] \/ (~Sets(m) /\ ~Sets(m)')
        <4>1. Move(l, s)
          BY <2>4
        <4> HIDE DEF s
        <4> QED
          BY <1>5, <2>1, <3>1, <4>1
      <3> QED
        BY <1>2, <2>2, <2>4, <3>2
    <2> QED
      BY <1>8, <2>3, <2>4 DEF LoadFile
  <1>9. ASSUME NEW l \in Loaders, Passes(l)
        PROVE  /\ History /\ Rest /\ File /\ loader' \in [Loaders -> Loading]
               /\ \A m \in Loaders : loader'[m] = loader[m] \/ (~Sets(m) /\ ~Sets(m)')
    <2>1. ~Sets(l) /\ loader[l].todo \in Seq(Entries) /\ loader[l].todo # <<>>
      <3>1. loader[l] \in Loading
        BY <1>2
      <3> QED
        BY <1>9, <3>1, LoadingFields DEF Passes, Sets
    <2>2. Rest /\ document' = document /\ recorded' = recorded
          /\ UNCHANGED <<alone, trusted, applied>>
      BY <1>9 DEF Passes, settingsVars, watched
    <2> DEFINE s == [at |-> "next", todo |-> Tail(loader[l].todo)]
    <2>3. s \in Loading /\ s.at = "next"
      <3>1. Tail(loader[l].todo) \in Seq(Entries)
        BY <2>1, NextEntry
      <3> QED
        BY <3>1 DEF Loading
    <2>4. Move(l, s)
      BY <1>9 DEF Passes
    <2> HIDE DEF s
    <2> QED
      BY <1>2, <1>5, <2>1, <2>2, <2>3, <2>4
  <1>10. ASSUME NEW l \in Loaders, Ends(l)
         PROVE  /\ History /\ Rest /\ File /\ loader' \in [Loaders -> Loading]
                /\ \A m \in Loaders : loader'[m] = loader[m] \/ (~Sets(m) /\ ~Sets(m)')
    <2>1. ~Sets(l) /\ Leave(l, TRUE)
      BY <1>10 DEF Ends, Sets
    <2>2. Rest /\ document' = document /\ recorded' = recorded
      BY <1>10 DEF Ends
    <2> QED
      BY <1>2, <1>4, <2>1, <2>2
  <1> QED
    BY <1>3, <1>6, <1>7, <1>8, <1>9, <1>10

\* The other steps keep the types: only the first of them tells what is set.
LEMMA SettingStep ==
  ASSUME SettingsTypeOK, Values, NEW l \in Loaders,
         Starts(l) \/ Notify(l) \/ Unlock(l) \/ WriteValue(l)
  PROVE  /\ loader[l] \in Loading /\ loader[l].todo \in Seq(Entries) /\ loader[l].todo # <<>>
         /\ loader[l].todo[1] \in Entries /\ loader[l].todo[1][1] \in DOMAIN Defaults
         /\ loader[l].todo[1][2] # Bad
         /\ loader[l].todo[1][1] = "logs" => Definitions(loader[l].todo[1][2])
  <1>1. loader[l] \in Loading /\ DOMAIN value = DOMAIN Defaults
    BY DEF SettingsTypeOK
  <1>2. loader[l].at \in {"next", "notify", "write"}
    BY DEF Starts, Notify, Unlock, WriteValue
  <1>3. loader[l].todo \in Seq(Entries)
    BY <1>1, <1>2, LoadingFields
  <1>4. loader[l].todo # <<>> /\ loader[l].todo[1][1] \in DOMAIN Defaults /\ loader[l].todo[1][2] # Bad
    <2>1. CASE Starts(l)
      BY <1>1, <2>1 DEF Starts
    <2>2. CASE Notify(l) \/ Unlock(l) \/ WriteValue(l)
      <3>1. Sets(l)
        BY <2>2 DEF Notify, Unlock, WriteValue, Sets
      <3> QED
        BY <3>1 DEF Values
    <2> QED
      BY <2>1, <2>2
  <1>5. loader[l].todo[1] \in Entries
    BY <1>3, <1>4, NextEntry
  <1> QED
    BY <1>1, <1>3, <1>4, <1>5, EntryDefines

\* What one step of a listener does to the loader that steps it.
LEMMA NotifyCases ==
  ASSUME SettingsTypeOK, Values, Listeners, NEW l \in Loaders, Notify(l)
  PROVE  LET v == loader[l].todo[1][1]
             x == loader[l].todo[1][2]
             turn == loader[l].turn
             done == loader[l].done
             steps == OnChange(v, value[v], x, turn)
         IN /\ v \in DOMAIN Defaults /\ turn \in 1..Turns(v) /\ done \in Nat /\ Len(steps) \in Nat
            /\ loader[l].at = "notify" /\ loader'[l].at = "notify"
            /\ loader'[l].todo = loader[l].todo /\ loader' \in [Loaders -> Loading]
            /\ \A m \in Loaders \ {l} : loader'[m] = loader[m]
            /\ value' = value /\ clashed' = clashed
            /\ \/ /\ done < Len(steps) /\ kept' = Applied(kept, steps[done + 1])
                  /\ loader'[l].turn = turn /\ loader'[l].done = done + 1
               \/ /\ done = Len(steps) /\ kept' = kept
                  /\ loader'[l].turn = turn + 1 /\ loader'[l].done = 0
  <1> DEFINE v == loader[l].todo[1][1]
             x == loader[l].todo[1][2]
             turn == loader[l].turn
             done == loader[l].done
             steps == OnChange(v, value[v], x, turn)
  <1>1. /\ loader[l] \in Loading /\ v \in DOMAIN Defaults
        /\ v = "logs" => Definitions(x)
    BY SettingStep
  <1>2. loader[l].at = "notify" /\ turn <= Turns(v) /\ InTurn(l)
    BY DEF Notify, Listeners
  <1>3. turn \in Nat /\ done \in Nat
    BY <1>1, <1>2, LoadingFields
  <1>4. Turns(v) \in Nat
    BY SettingsAssumption, LenProperties DEF Turns, Loggers
  <1>5. turn \in 1..Turns(v)
    BY <1>2, <1>3, <1>4 DEF InTurn
  <1>6. Len(steps) \in Nat
    <2>1. CASE v # "logs"
      BY <2>1 DEF OnChange
    <2>2. CASE v = "logs"
      <3>1. PICK i \in 1..Loggers :
               /\ LoggerNames[i] \in ToSet(LoggerNames)
               /\ \/ LoggerNames[i] \in DOMAIN x /\ steps = SetUp(LoggerNames[i], x[LoggerNames[i]])
                  \/ steps = Shut(LoggerNames[i])
                  \/ steps = <<>>
        <4>1. turn \in 1..(2 * Loggers) /\ Definitions(x) /\ "logs" \in DOMAIN Defaults
          BY <1>1, <1>5, <2>2 DEF Turns
        <4>2. steps = OnChange("logs", value["logs"], x, turn)
          BY <2>2
        <4> HIDE DEF steps, x, turn
        <4> QED
          BY <4>1, <4>2, TurnOfListener
      <3>2. CASE LoggerNames[i] \in DOMAIN x /\ steps = SetUp(LoggerNames[i], x[LoggerNames[i]])
        <4>1. PICK d \in Written(LoggerNames[i]) : d = x[LoggerNames[i]]
          BY <1>1, <2>2, <3>2 DEF Definitions
        <4>2. Shown(d.appenders) \in Seq(Appenders)
          BY <3>1, WrittenDefinition
        <4>3. Len(SetUp(LoggerNames[i], d)) = Len(Shown(d.appenders)) + 2
          BY ONLY <4>2, SetUpLength
        <4>4. Len(Shown(d.appenders)) \in Nat
          BY <4>2
        <4> QED
          BY <3>2, <4>1, <4>3, <4>4
      <3> QED
        BY <3>1, <3>2 DEF Shut
    <2> QED
      BY <2>1, <2>2
  <1>7. done <= Len(steps)
    BY <1>2, <1>3, <1>6 DEF InTurn
  <1>8. value' = value /\ clashed' = clashed
    BY DEF Notify, watched
  <1>9. CASE done < Len(steps)
    <2> DEFINE s == [loader[l] EXCEPT !.done = done + 1]
    <2>1. s \in Loading /\ s.at = "notify" /\ s.todo = loader[l].todo /\ s.turn = turn
          /\ s.done = done + 1
      <3>1. PICK n \in Nat, t \in Nat : n = done + 1 /\ t = turn
        BY <1>3
      <3>2. PICK o \in Notifying : o = loader[l]
        BY <1>1, <1>2, LoadingFields
      <3> DEFINE r == [o EXCEPT !.done = n]
      <3>3. r \in Notifying /\ r.at = "notify" /\ r.todo = o.todo /\ r.turn = o.turn /\ r.done = n
        <4> DEFINE S == Seq(Entries)
        <4>1. o \in [at : {"notify"}, todo : S, turn : Nat, done : Nat]
          BY DEF Notifying
        <4> HIDE DEF S
        <4>2. r \in [at : {"notify"}, todo : S, turn : Nat, done : Nat]
              /\ r.at = "notify" /\ r.todo = o.todo /\ r.turn = o.turn /\ r.done = n
          BY <4>1
        <4> QED
          BY <4>2 DEF S, Notifying
      <3>4. s = r /\ o.turn = turn
        BY <3>1, <3>2
      <3> HIDE DEF s, r, turn, done
      <3> QED
        BY <3>1, <3>2, <3>3, <3>4 DEF Loading
    <2>2. Move(l, s) /\ kept' = Applied(kept, steps[done + 1])
      BY <1>9 DEF Notify
    <2> HIDE DEF s
    <2>3. loader' \in [Loaders -> Loading] /\ loader'[l] = s
          /\ \A m \in Loaders \ {l} : loader'[m] = loader[m]
      BY <2>1, <2>2, LoaderMoved
    <2> QED
      BY <1>1, <1>2, <1>3, <1>5, <1>6, <1>8, <1>9, <2>1, <2>2, <2>3
  <1>10. CASE done = Len(steps)
    <2> DEFINE s == [loader[l] EXCEPT !.turn = turn + 1, !.done = 0]
    <2>1. s \in Loading /\ s.at = "notify" /\ s.todo = loader[l].todo /\ s.turn = turn + 1
          /\ s.done = 0
      <3>1. PICK n \in Nat, z \in Nat : n = turn + 1 /\ z = 0
        BY <1>3
      <3>2. PICK o \in Notifying : o = loader[l]
        BY <1>1, <1>2, LoadingFields
      <3> DEFINE r == [o EXCEPT !.turn = n, !.done = z]
      <3>3. r \in Notifying /\ r.at = "notify" /\ r.todo = o.todo /\ r.turn = n /\ r.done = z
        <4> DEFINE S == Seq(Entries)
        <4>1. o \in [at : {"notify"}, todo : S, turn : Nat, done : Nat]
          BY DEF Notifying
        <4> HIDE DEF S
        <4>2. r \in [at : {"notify"}, todo : S, turn : Nat, done : Nat]
              /\ r.at = "notify" /\ r.todo = o.todo /\ r.turn = n /\ r.done = z
          BY <4>1
        <4> QED
          BY <4>2 DEF S, Notifying
      <3>4. s = r
        BY <3>1, <3>2
      <3> HIDE DEF s, r, turn, done
      <3> QED
        BY <3>1, <3>2, <3>3, <3>4 DEF Loading
    <2>2. Move(l, s) /\ kept' = kept
      BY <1>6, <1>10 DEF Notify
    <2> HIDE DEF s
    <2>3. loader' \in [Loaders -> Loading] /\ loader'[l] = s
          /\ \A m \in Loaders \ {l} : loader'[m] = loader[m]
      BY <2>1, <2>2, LoaderMoved
    <2> QED
      BY <1>1, <1>2, <1>3, <1>5, <1>6, <1>8, <1>10, <2>1, <2>2, <2>3
  <1> QED
    BY <1>3, <1>6, <1>7, <1>9, <1>10, SMTT(30)

\* A call of a listener changes what that listener keeps and nothing else.
LEMMA CallKeepsOthers ==
  ASSUME SettingsTypeOK, Values, NEW v \in DOMAIN Defaults, NEW x,
         v = "logs" => Definitions(x), NEW turn \in 1..Turns(v), NEW done \in Nat,
         done < Len(OnChange(v, value[v], x, turn)), UNCHANGED value,
         kept' = Applied(kept, OnChange(v, value[v], x, turn)[done + 1])
  PROVE  /\ kept' = [w \in DOMAIN Defaults |-> kept'[w]]
         /\ \A w \in DOMAIN Defaults \ {v} : kept'[w] = kept[w]
         /\ "logs" \in DOMAIN Defaults =>
              kept'["logs"] \in [ToSet(LoggerNames) -> [level : Levels, appenders : Seq(Appenders)]]
         /\ v # "logs" => done = 0 /\ kept'[v] = x
         /\ v = "logs" /\ LoggersTold(x, turn, done) => LoggersTold(x, turn, done + 1)'
  <1> DEFINE steps == OnChange(v, value[v], x, turn)
  <1>1. kept = [w \in DOMAIN Defaults |-> kept[w]]
    BY DEF SettingsTypeOK
  <1>2. CASE v # "logs"
    <2>1. steps = <<[set |-> "value", name |-> v, to |-> x]>>
      BY <1>2 DEF OnChange
    <2>2. done = 0 /\ steps[done + 1] = [set |-> "value", name |-> v, to |-> x]
      BY <2>1
    <2>3. kept' = [kept EXCEPT ![v] = x]
      BY <2>2 DEF Applied
    <2>4. /\ kept' = [w \in DOMAIN Defaults |-> kept'[w]]
          /\ kept'[v] = x /\ \A w \in DOMAIN Defaults \ {v} : kept'[w] = kept[w]
      BY <1>1, <2>3
    <2>5. "logs" \in DOMAIN Defaults => kept'["logs"] = kept["logs"]
      BY <1>2, <2>4
    <2> QED
      BY <1>2, <2>2, <2>4, <2>5 DEF SettingsTypeOK
  <1>3. CASE v = "logs"
    <2>1. "logs" \in DOMAIN Defaults /\ turn \in 1..(2 * Loggers) /\ Definitions(x)
      BY <1>3 DEF Turns
    <2>2. /\ done < Len(OnChange("logs", value["logs"], x, turn))
          /\ kept' = Applied(kept, OnChange("logs", value["logs"], x, turn)[done + 1])
      BY <1>3
    <2>3. PICK i \in 1..Loggers : OnlyLogger(kept', LoggerNames[i])
      <3> HIDE DEF steps
      <3> QED
        BY <2>1, <2>2, LoggerCall
    <2>4. LoggersTold(x, turn, done) => LoggersTold(x, turn, done + 1)'
      BY <2>1, <2>2, LoggerHeard
    <2> QED
      BY <1>3, <2>3, <2>4 DEF OnlyLogger
  <1> QED
    BY <1>2, <1>3

\* The rest of a step, in which a variable is set.
LEMMA SettingTypes ==
  ASSUME SettingsTypeOK, Values, Listeners, NEW l \in Loaders,
         Starts(l) \/ Notify(l) \/ Unlock(l) \/ WriteValue(l)
  PROVE  SettingsTypeOK'
  <1> DEFINE v == loader[l].todo[1][1]
             x == loader[l].todo[1][2]
             todo == loader[l].todo
  <1>1. /\ todo \in Seq(Entries) /\ todo # <<>> /\ v \in DOMAIN Defaults
        /\ v = "logs" => Definitions(x)
    BY SettingStep
  <1>2. /\ document' = document /\ recorded' = recorded
        /\ alone' = alone /\ trusted' = trusted /\ applied' = applied
    BY DEF Starts, Notify, Unlock, WriteValue, watched
  <1>3. /\ value = [w \in DOMAIN Defaults |-> value[w]]
        /\ kept = [w \in DOMAIN Defaults |-> kept[w]]
    BY DEF SettingsTypeOK
  <1>4. CASE Starts(l)
    <2>1. [at |-> "notify", todo |-> todo, turn |-> 1, done |-> 0] \in Loading
      BY <1>1 DEF Loading, Notifying
    <2>2. loader' \in [Loaders -> Loading]
      BY <1>4, <2>1, LoaderMoved DEF Starts
    <2>3. value' = value /\ kept' = kept
      BY <1>4 DEF Starts
    <2> QED
      BY <1>2, <2>2, <2>3 DEF SettingsTypeOK
  <1>5. CASE Notify(l)
    <2> DEFINE steps == OnChange(v, value[v], x, loader[l].turn)
    <2>1. /\ loader' \in [Loaders -> Loading] /\ value' = value
          /\ loader[l].turn \in 1..Turns(v) /\ loader[l].done \in Nat
          /\ \/ /\ loader[l].done < Len(steps) /\ kept' = Applied(kept, steps[loader[l].done + 1])
             \/ kept' = kept
      BY <1>5, NotifyCases
    <2>2. CASE loader[l].done < Len(steps) /\ kept' = Applied(kept, steps[loader[l].done + 1])
      <3>0. PICK w \in DOMAIN Defaults : w = v
        BY <1>1
      <3>1. PICK turn \in 1..Turns(w), done \in Nat, y \in {x} :
               w = v /\ y = x /\ turn = loader[l].turn /\ done = loader[l].done
        BY <2>1, <3>0
      <3>2. /\ done < Len(OnChange(w, value[w], y, turn))
            /\ kept' = Applied(kept, OnChange(w, value[w], y, turn)[done + 1])
            /\ w = "logs" => Definitions(y)
        BY <1>1, <2>2, <3>1
      <3>3. /\ kept' = [u \in DOMAIN Defaults |-> kept'[u]]
            /\ "logs" \in DOMAIN Defaults =>
                 kept'["logs"] \in [ToSet(LoggerNames) -> [level : Levels, appenders : Seq(Appenders)]]
        <4> HIDE DEF v, x, todo, steps
        <4> QED
          BY <2>1, <3>2, CallKeepsOthers
      <3> QED
        BY <1>2, <2>1, <3>3 DEF SettingsTypeOK
    <2>3. CASE kept' = kept
      BY <1>2, <2>1, <2>3 DEF SettingsTypeOK
    <2> QED
      BY <2>1, <2>2, <2>3
  <1>6. CASE Unlock(l)
    <2>1. [at |-> "write", todo |-> todo] \in Loading
      BY <1>1 DEF Loading
    <2>2. loader' \in [Loaders -> Loading]
      BY <1>6, <2>1, LoaderMoved DEF Unlock
    <2>3. value' = value /\ kept' = kept
      BY <1>6 DEF Unlock
    <2> QED
      BY <1>2, <2>2, <2>3 DEF SettingsTypeOK
  <1>7. CASE WriteValue(l)
    <2>1. [at |-> "next", todo |-> Tail(todo)] \in Loading
      <3>1. Tail(todo) \in Seq(Entries)
        BY <1>1, NextEntry
      <3> QED
        BY <3>1 DEF Loading
    <2>2. loader' \in [Loaders -> Loading]
      BY <1>7, <2>1, LoaderMoved DEF WriteValue
    <2>3. value' = [value EXCEPT ![v] = x] /\ kept' = kept
      BY <1>7 DEF WriteValue
    <2>4. value' = [w \in DOMAIN Defaults |-> value'[w]]
      <3> HIDE DEF v, x
      <3> QED
        BY <1>3, <2>3
    <2> QED
      BY <1>2, <2>2, <2>3, <2>4 DEF SettingsTypeOK
  <1> QED
    BY <1>4, <1>5, <1>6, <1>7

\* The steps of the system, by whether they set something.
LEMMA SettingsCases ==
  ASSUME [SettingsNext]_settingsVars
  PROVE  \/ UNCHANGED settingsVars
         \/ Change \/ \E l \in Loaders : BeginLoad(l) \/ CheckTime(l) \/ LoadFile(l)
                                          \/ Passes(l) \/ Ends(l)
         \/ \E l \in Loaders : Starts(l) \/ Notify(l) \/ Unlock(l) \/ WriteValue(l)
  <1>1. ASSUME NEW l \in Loaders, NextVar(l) PROVE Starts(l) \/ Passes(l) \/ Ends(l)
    BY <1>1, NextVarCases
  <1> QED
    BY <1>1 DEF SettingsNext, Load

\* Nothing happens.
LEMMA SettingsRest ==
  ASSUME UNCHANGED settingsVars
  PROVE  /\ document' = document /\ recorded' = recorded /\ value' = value /\ kept' = kept
         /\ loader' = loader /\ alone' = alone /\ trusted' = trusted /\ applied' = applied
         /\ clashed' = clashed
  BY DEF settingsVars, watched

\* Every step keeps the types, and what is known of the values that are set.
LEMMA SettingsTyping ==
  ASSUME SettingsTypeOK, Values, Listeners, [SettingsNext]_settingsVars
  PROVE  SettingsTypeOK'
  <1>1. CASE UNCHANGED settingsVars
    <2>1. /\ document' = document /\ recorded' = recorded /\ value' = value /\ kept' = kept
          /\ loader' = loader /\ alone' = alone /\ trusted' = trusted /\ applied' = applied
      BY <1>1, SettingsRest
    <2> QED
      BY <2>1 DEF SettingsTypeOK
  <1>2. CASE Change \/ \E l \in Loaders : BeginLoad(l) \/ CheckTime(l) \/ LoadFile(l)
                                           \/ Passes(l) \/ Ends(l)
    BY <1>2, QuietTyping
  <1>3. CASE \E l \in Loaders : Starts(l) \/ Notify(l) \/ Unlock(l) \/ WriteValue(l)
    BY <1>3, SettingTypes
  <1> QED
    BY <1>1, <1>2, <1>3, SettingsCases

LEMMA ValuesKept ==
  ASSUME SettingsTypeOK, Values, Listeners, [SettingsNext]_settingsVars
  PROVE  Values'
  <1> DEFINE Known(s) == /\ s.todo # <<>> /\ s.todo[1][1] \in DOMAIN Defaults
                         /\ s.todo[1][2] # Bad
  <1>1. SUFFICES /\ "logs" \in DOMAIN Defaults => Definitions(value'["logs"])
                 /\ \A m \in Loaders : Sets(m)' => Known(loader'[m])
    BY DEF Values, Definitions
  <1>2. /\ "logs" \in DOMAIN Defaults => Definitions(value["logs"])
        /\ \A m \in Loaders : Sets(m) => Known(loader[m])
    BY DEF Values
  <1>3. CASE UNCHANGED settingsVars
    BY <1>2, <1>3, SettingsRest DEF Sets
  <1>4. CASE Change \/ \E l \in Loaders : BeginLoad(l) \/ CheckTime(l) \/ LoadFile(l)
                                           \/ Passes(l) \/ Ends(l)
    <2>1. Quiet
      BY <1>4, QuietTyping
    <2>2. ASSUME NEW m \in Loaders, Sets(m)' PROVE Sets(m) /\ loader'[m] = loader[m]
      BY <2>1, <2>2 DEF Quiet, Sets
    <2> HIDE DEF Known
    <2> QED
      BY <1>2, <2>1, <2>2 DEF Quiet
  <1>5. ASSUME NEW l \in Loaders, Starts(l) \/ Notify(l) \/ Unlock(l) \/ WriteValue(l)
        PROVE  /\ "logs" \in DOMAIN Defaults => Definitions(value'["logs"])
               /\ \A m \in Loaders : Sets(m)' => Known(loader'[m])
    <2>1. /\ Known(loader[l])
          /\ loader[l].todo[1][1] = "logs" => Definitions(loader[l].todo[1][2])
      BY <1>5, SettingStep
    <2>2. /\ \A m \in Loaders \ {l} : loader'[m] = loader[m]
          /\ Sets(l)' => loader'[l].todo = loader[l].todo
      <3>1. CASE Notify(l)
        BY <3>1, NotifyCases
      <3>2. CASE Starts(l) \/ Unlock(l) \/ WriteValue(l)
        <4>1. PICK s : Move(l, s) /\ (s.at = "next" \/ s.todo = loader[l].todo)
          BY <3>2 DEF Starts, Unlock, WriteValue
        <4>2. loader'[l] = s /\ \A m \in Loaders \ {l} : loader'[m] = loader[m]
          BY <4>1, LoaderMoved
        <4> QED
          BY <4>1, <4>2 DEF Sets
      <3> QED
        BY <1>5, <3>1, <3>2
    <2>3. \A m \in Loaders : Sets(m)' => Known(loader'[m])
      <3>1. ASSUME NEW m \in Loaders \ {l}, Sets(m)' PROVE Known(loader'[m])
        BY <1>2, <2>2, <3>1 DEF Sets
      <3>2. Sets(l)' => Known(loader'[l])
        BY <2>1, <2>2
      <3> HIDE DEF Known
      <3> QED
        BY <3>1, <3>2
    <2>4. "logs" \in DOMAIN Defaults => Definitions(value'["logs"])
      <3>1. CASE Starts(l) \/ Notify(l) \/ Unlock(l)
        <4>1. value' = value
          BY <3>1 DEF Starts, Notify, Unlock
        <4> QED
          BY <1>2, <4>1
      <3>2. CASE WriteValue(l)
        <4>1. PICK v, x : v = loader[l].todo[1][1] /\ x = loader[l].todo[1][2]
          OBVIOUS
        <4>2. value' = [value EXCEPT ![v] = x] /\ value = [w \in DOMAIN Defaults |-> value[w]]
          BY <3>2, <4>1 DEF WriteValue, SettingsTypeOK
        <4>3. \A w \in DOMAIN Defaults : value'[w] = IF w = v THEN x ELSE value[w]
          BY <4>2
        <4> QED
          BY <1>2, <2>1, <4>1, <4>3
      <3> QED
        BY <1>5, <3>1, <3>2
    <2> QED
      BY <2>3, <2>4
  <1> HIDE DEF Known
  <1> QED
    BY <1>3, <1>4, <1>5, SettingsCases

\* What is kept of a variable, and half made of it, depends on that variable only.
LEMMA SameVar ==
  ASSUME NEW v, kept'[v] = kept[v], value'[v] = value[v]
  PROVE  /\ Follows(v)' <=> Follows(v)
         /\ \A l : loader'[l] = loader[l] => (Told(l, v)' <=> Told(l, v))
         /\ \A l : loader'[l].todo = loader[l].todo => (Heard(l, v)' <=> Heard(l, v))
  <1>1. CASE v = "logs"
    <2>1. /\ \A n, x : HasValue(n, x)' <=> HasValue(n, x)
          /\ \A n, x, done : Half(n, x, done)' <=> Half(n, x, done)
      BY <1>1 DEF HasValue, Half
    <2>2. Follows(v)' <=> Follows(v)
      <3>1. value'["logs"] = value["logs"]
        BY <1>1
      <3> QED
        BY <1>1, <3>1 DEF Follows, HasValue
    <2>3. \A x, turn, done : LoggersTold(x, turn, done)' <=> LoggersTold(x, turn, done)
      <3>1. value'["logs"] = value["logs"] /\ kept'["logs"] = kept["logs"]
        BY <1>1
      <3> QED
        BY <2>1, <3>1 DEF LoggersTold, HasValue, Half
    <2>4. ASSUME NEW l, loader'[l] = loader[l] PROVE Told(l, v)' <=> Told(l, v)
      <3>1. PICK x, turn, done : x = loader[l].todo[1][2] /\ turn = loader[l].turn
                                  /\ done = loader[l].done
        OBVIOUS
      <3>2. Told(l, v) <=> LoggersTold(x, turn, done)
        BY <1>1, <3>1 DEF Told
      <3>3. Told(l, v)' <=> LoggersTold(x, turn, done)'
        <4>1. x = loader'[l].todo[1][2] /\ turn = loader'[l].turn /\ done = loader'[l].done
          BY <2>4, <3>1
        <4> QED
          BY <1>1, <4>1 DEF Told
      <3> QED
        BY <2>3, <3>2, <3>3
    <2>5. ASSUME NEW l, loader'[l].todo = loader[l].todo PROVE Heard(l, v)' <=> Heard(l, v)
      BY <1>1, <2>1, <2>5 DEF Heard
    <2> QED
      BY <2>2, <2>4, <2>5
  <1>2. CASE v # "logs"
    BY <1>2 DEF Follows, Told, Heard
  <1> QED
    BY <1>1, <1>2

\* What holds of the other variables while one of them is set.
LEMMA OthersFollow ==
  ASSUME SettingsTypeOK, Values, Listeners, NEW l \in Loaders, NEW v,
         v = loader[l].todo[1][1], Sets(l)' => v = loader'[l].todo[1][1],
         \A m \in Loaders \ {l} : loader'[m] = loader[m],
         clashed \subseteq clashed',
         \A w \in DOMAIN Defaults \ {v} : kept'[w] = kept[w] /\ value'[w] = value[w],
         NEW w \in DOMAIN Defaults \ clashed', w # v
  PROVE  /\ \A m, n \in Setting(w)' : m = n
         /\ Setting(w)' = {} => Follows(w)'
         /\ \A m \in Setting(w)' : IF loader'[m].at = "notify" THEN Told(m, w)' ELSE Heard(m, w)'
  <1>1. Setting(w)' = Setting(w) /\ l \notin Setting(w)
    <2>1. ASSUME NEW m \in Loaders PROVE m \in Setting(w)' <=> m \in Setting(w)
      BY DEF Setting, Sets
    <2> QED
      BY <2>1 DEF Setting
  <1>2. /\ \A m, n \in Setting(w) : m = n
        /\ Setting(w) = {} => Follows(w)
        /\ \A m \in Setting(w) : IF loader[m].at = "notify" THEN Told(m, w) ELSE Heard(m, w)
    BY DEF Listeners
  <1>3. \A m \in Setting(w) : loader'[m] = loader[m]
    BY <1>1 DEF Setting
  <1>4. kept'[w] = kept[w] /\ value'[w] = value[w]
    OBVIOUS
  <1> QED
    BY <1>1, <1>2, <1>3, <1>4, SameVar

\* What has been told holds on while nobody sets anything, and through each step of who
\* sets.
LEMMA ListenersQuiet ==
  ASSUME Listeners, Quiet
  PROVE  Listeners'
  <1>1. \A m \in Loaders : /\ Sets(m)' <=> Sets(m)
                           /\ Sets(m) => loader'[m] = loader[m]
    BY DEF Quiet, Sets
  <1>2. kept' = kept /\ value' = value /\ clashed' = clashed
    BY DEF Quiet
  <1>3. \A v : Setting(v)' = Setting(v)
    BY <1>1 DEF Setting, Sets
  <1>4. ASSUME NEW m \in Loaders, (loader[m].at = "notify")' PROVE InTurn(m)'
    <2>1. loader'[m] = loader[m]
      BY <1>1, <1>4 DEF Sets
    <2>2. InTurn(m)
      BY <1>4, <2>1 DEF Listeners
    <2> QED
      BY <1>2, <2>1, <2>2 DEF InTurn
  <1>5. ASSUME NEW v \in DOMAIN Defaults \ clashed
        PROVE  /\ \A l, m \in Setting(v)' : l = m
               /\ Setting(v)' = {} => Follows(v)'
               /\ \A l \in Setting(v)' :
                    IF loader'[l].at = "notify" THEN Told(l, v)' ELSE Heard(l, v)'
    <2>1. \A m \in Setting(v) : loader'[m] = loader[m]
      BY <1>1 DEF Setting, Sets
    <2>2. /\ \A l, m \in Setting(v) : l = m
          /\ Setting(v) = {} => Follows(v)
          /\ \A l \in Setting(v) : IF loader[l].at = "notify" THEN Told(l, v) ELSE Heard(l, v)
      BY DEF Listeners
    <2> QED
      BY <1>2, <1>3, <2>1, <2>2, SameVar
  <1> QED
    BY <1>2, <1>4, <1>5 DEF Listeners

\* A loader takes the read lock of a variable that nobody else sets, or it clashes.
LEMMA ListenersStart ==
  ASSUME SettingsTypeOK, Values, Listeners, NEW l \in Loaders, Starts(l)
  PROVE  Listeners'
  <1>1. PICK v : v = loader[l].todo[1][1]
    OBVIOUS
  <1>2. /\ v \in DOMAIN Defaults /\ (v = "logs" => Definitions(loader[l].todo[1][2]))
        /\ loader[l].at = "next"
    BY <1>1, SettingStep DEF Starts
  <1>3. PICK s : /\ s = [at |-> "notify", todo |-> loader[l].todo, turn |-> 1, done |-> 0]
                 /\ loader'[l] = s
                 /\ \A m \in Loaders \ {l} : loader'[m] = loader[m]
    BY LoaderMoved DEF Starts
  <1>4. /\ loader'[l].at = "notify" /\ loader'[l].todo = loader[l].todo
        /\ loader'[l].turn = 1 /\ loader'[l].done = 0
    BY <1>3
  <1>5. kept' = kept /\ value' = value
        /\ clashed' = IF Setting(v) = {} THEN clashed ELSE clashed \cup {v}
    BY <1>1 DEF Starts
  <1>6. ASSUME NEW m \in Loaders, (loader[m].at = "notify")' PROVE InTurn(m)'
    <2>1. CASE m = l
      BY <1>4, <2>1 DEF InTurn
    <2>2. CASE m # l
      BY <1>3, <1>5, <1>6, <2>2 DEF InTurn, Listeners
    <2> QED
      BY <2>1, <2>2
  <1>7. ASSUME v \in DOMAIN Defaults \ clashed'
        PROVE  /\ \A m, n \in Setting(v)' : m = n
               /\ Setting(v)' = {} => Follows(v)'
               /\ \A m \in Setting(v)' :
                    IF loader'[m].at = "notify" THEN Told(m, v)' ELSE Heard(m, v)'
    <2>1. Setting(v) = {} /\ v \notin clashed
      BY <1>5, <1>7
    <2>2. Setting(v)' = {l}
      <3>1. ASSUME NEW m \in Loaders PROVE m \in Setting(v)' <=> m = l
        BY <1>1, <1>3, <1>4, <2>1 DEF Setting
      <3> QED
        BY <3>1 DEF Setting
    <2>3. Follows(v)
      BY <1>2, <2>1 DEF Listeners
    <2>4. Told(l, v)'
      <3>1. CASE v = "logs"
        <4>1. PICK x : x = loader'[l].todo[1][2]
          OBVIOUS
        <4>2. \A i \in 1..Loggers : LoggerNames[i] \in ToSet(LoggerNames)
          BY SettingsAssumption, LenProperties DEF Loggers, ToSet
        <4>3. \A n \in ToSet(LoggerNames) : HasValue(n, value["logs"])'
          BY <1>5, <2>3, <3>1 DEF Follows, HasValue
        <4>4. \A n : Half(n, x, 0)'
          BY DEF Half
        <4>5. \A i \in 1..Loggers : ~(1 > TurnOf(i, x))
          <5>1. Loggers \in Nat
            BY SettingsAssumption, LenProperties DEF Loggers
          <5> QED
            BY <5>1 DEF TurnOf
        <4>6. LoggersTold(x, 1, 0)'
          BY <4>2, <4>3, <4>4, <4>5 DEF LoggersTold
        <4> QED
          BY <1>4, <3>1, <4>1, <4>6 DEF Told
      <3>2. CASE v # "logs"
        BY <1>4, <3>2 DEF Told
      <3> QED
        BY <3>1, <3>2
    <2> QED
      BY <1>4, <2>2, <2>4
  <1>8. ASSUME NEW w \in DOMAIN Defaults \ clashed', w # v
        PROVE  /\ \A m, n \in Setting(w)' : m = n
               /\ Setting(w)' = {} => Follows(w)'
               /\ \A m \in Setting(w)' :
                    IF loader'[m].at = "notify" THEN Told(m, w)' ELSE Heard(m, w)'
    <2>1. /\ Sets(l)' => v = loader'[l].todo[1][1]
          /\ clashed \subseteq clashed'
          /\ \A u \in DOMAIN Defaults \ {v} : kept'[u] = kept[u] /\ value'[u] = value[u]
      BY <1>1, <1>4, <1>5
    <2>2. \A m \in Loaders \ {l} : loader'[m] = loader[m]
      BY <1>3
    <2> QED
      BY <1>1, <1>8, <2>1, <2>2, OthersFollow
  <1>9. ASSUME NEW w \in DOMAIN Defaults \ clashed'
        PROVE  /\ \A m, n \in Setting(w)' : m = n
               /\ Setting(w)' = {} => Follows(w)'
               /\ \A m \in Setting(w)' :
                    IF loader'[m].at = "notify" THEN Told(m, w)' ELSE Heard(m, w)'
    BY <1>7, <1>8
  <1> QED
    BY <1>6, <1>9 DEF Listeners

\* A listener is called, or its next turn comes.
LEMMA ListenersNotify ==
  ASSUME SettingsTypeOK, Values, Listeners, NEW l \in Loaders, Notify(l)
  PROVE  Listeners'
  <1>1. PICK v \in DOMAIN Defaults : v = loader[l].todo[1][1]
    BY NotifyCases
  <1>2. PICK x : x = loader[l].todo[1][2]
    OBVIOUS
  <1>3. PICK turn \in 1..Turns(v), done \in Nat : turn = loader[l].turn /\ done = loader[l].done
    BY <1>1, NotifyCases
  <1>4. PICK steps : steps = OnChange(v, value[v], x, turn)
    OBVIOUS
  <1>5. /\ Len(steps) \in Nat
        /\ loader[l].at = "notify" /\ loader'[l].at = "notify"
        /\ loader'[l].todo = loader[l].todo
        /\ \A m \in Loaders \ {l} : loader'[m] = loader[m]
        /\ value' = value /\ clashed' = clashed
        /\ \/ /\ done < Len(steps) /\ kept' = Applied(kept, steps[done + 1])
              /\ loader'[l].turn = turn /\ loader'[l].done = done + 1
           \/ /\ done = Len(steps) /\ kept' = kept
              /\ loader'[l].turn = turn + 1 /\ loader'[l].done = 0
    BY <1>1, <1>2, <1>3, <1>4, NotifyCases
  <1>6. v = "logs" => Definitions(x)
    BY <1>1, <1>2, SettingStep
  <1>7. Turns(v) \in Nat
    BY SettingsAssumption, LenProperties DEF Turns, Loggers
  <1>8. ASSUME NEW m \in Loaders, (loader[m].at = "notify")' PROVE InTurn(m)'
    <2>1. CASE m # l
      <3>1. loader'[m] = loader[m] /\ InTurn(m)
        BY <1>5, <1>8, <2>1 DEF Listeners
      <3> QED
        BY <1>5, <3>1 DEF InTurn
    <2>2. CASE m = l
      <3>1. v = loader'[l].todo[1][1] /\ x = loader'[l].todo[1][2]
        BY <1>1, <1>2, <1>5
      <3>2. CASE done < Len(steps) /\ loader'[l].turn = turn /\ loader'[l].done = done + 1
        <4>1. steps = OnChange(v, value'[v], x, loader'[l].turn)
          BY <1>4, <1>5, <3>2
        <4>2. turn >= 1 /\ turn <= Turns(v) /\ done + 1 <= Len(steps)
          BY <1>5, <1>7, <3>2
        <4> QED
          BY <2>2, <3>1, <3>2, <4>1, <4>2 DEF InTurn
      <3>3. CASE loader'[l].turn = turn + 1 /\ loader'[l].done = 0
        <4>1. turn + 1 >= 1 /\ ~(0 > 0)
          BY <1>7
        <4> QED
          BY <2>2, <3>3, <4>1 DEF InTurn
      <3> QED
        BY <1>5, <3>2, <3>3
    <2> QED
      BY <2>1, <2>2
  <1>9. /\ \A w \in DOMAIN Defaults \ {v} : kept'[w] = kept[w]
        /\ v # "logs" /\ done < Len(steps) => done = 0 /\ kept'[v] = x
        /\ v = "logs" /\ done < Len(steps) /\ LoggersTold(x, turn, done) =>
             LoggersTold(x, turn, done + 1)'
    <2>1. CASE done < Len(steps) /\ kept' = Applied(kept, steps[done + 1])
      <3>1. /\ done < Len(OnChange(v, value[v], x, turn))
            /\ kept' = Applied(kept, OnChange(v, value[v], x, turn)[done + 1])
        BY <1>4, <2>1
      <3> QED
        BY <1>5, <1>6, <3>1, CallKeepsOthers
    <2>2. CASE done = Len(steps) /\ kept' = kept
      BY <1>5, <2>2
    <2> QED
      BY <1>5, <2>1, <2>2
  <1>10. ASSUME v \notin clashed
         PROVE  /\ \A m, n \in Setting(v)' : m = n
                /\ Setting(v)' = {} => Follows(v)'
                /\ \A m \in Setting(v)' :
                     IF loader'[m].at = "notify" THEN Told(m, v)' ELSE Heard(m, v)'
    <2>1. l \in Setting(v)
      BY <1>1, <1>5 DEF Setting
    <2>2. Setting(v)' = Setting(v)
      <3>1. ASSUME NEW m \in Loaders PROVE m \in Setting(v)' <=> m \in Setting(v)
        BY <1>5 DEF Setting
      <3> QED
        BY <3>1 DEF Setting
    <2>3. (\A m, n \in Setting(v) : m = n) /\ Told(l, v)
      BY <1>5, <1>10, <2>1 DEF Listeners
    <2>4. Told(l, v)'
      <3>1. CASE v = "logs"
        <4>1. LoggersTold(x, turn, done)
          BY <1>2, <1>3, <2>3, <3>1 DEF Told
        <4>2. CASE done < Len(steps) /\ loader'[l].turn = turn /\ loader'[l].done = done + 1
          <5>1. LoggersTold(x, turn, done + 1)'
            BY <1>9, <3>1, <4>1, <4>2
          <5>2. x = loader'[l].todo[1][2]
            BY <1>2, <1>5
          <5> QED
            BY <3>1, <4>2, <5>1, <5>2 DEF Told
        <4>3. CASE done = Len(steps) /\ kept' = kept /\ loader'[l].turn = turn + 1
                   /\ loader'[l].done = 0
          <5>1. /\ turn \in 1..(2 * Loggers) /\ Definitions(x) /\ "logs" \in DOMAIN Defaults
                /\ done = Len(OnChange("logs", value["logs"], x, turn))
            BY <1>4, <1>6, <3>1, <4>3 DEF Turns
          <5>2. LoggersTold(x, turn + 1, 0)
            BY <4>1, <5>1, TurnOver
          <5>3. LoggersTold(x, turn + 1, 0)'
            BY <1>5, <4>3, <5>2 DEF LoggersTold, HasValue, Half
          <5>4. x = loader'[l].todo[1][2]
            BY <1>2, <1>5
          <5> QED
            BY <3>1, <4>3, <5>3, <5>4 DEF Told
        <4> QED
          BY <1>5, <4>2, <4>3
      <3>2. CASE v # "logs"
        <4>1. PICK y : y = loader'[l].todo[1][2]
          OBVIOUS
        <4>2. x = y
          BY <1>2, <1>5, <4>1
        <4>3. CASE done < Len(steps)
          BY <1>9, <3>2, <4>1, <4>2, <4>3 DEF Told
        <4>4. CASE done = Len(steps) /\ kept' = kept
          <5>1. Len(steps) = 1
            BY <1>4, <3>2 DEF OnChange
          <5>2. kept[v] = x
            BY <1>2, <1>3, <2>3, <3>2, <4>4, <5>1 DEF Told
          <5> QED
            BY <3>2, <4>1, <4>2, <4>4, <5>2 DEF Told
        <4> QED
          BY <1>5, <4>3, <4>4
      <3> QED
        BY <3>1, <3>2
    <2> QED
      BY <1>5, <2>1, <2>2, <2>3, <2>4
  <1>11. ASSUME NEW w \in DOMAIN Defaults \ clashed', w # v
         PROVE  /\ \A m, n \in Setting(w)' : m = n
                /\ Setting(w)' = {} => Follows(w)'
                /\ \A m \in Setting(w)' :
                     IF loader'[m].at = "notify" THEN Told(m, w)' ELSE Heard(m, w)'
    <2>1. /\ Sets(l)' => v = loader'[l].todo[1][1]
          /\ clashed \subseteq clashed'
          /\ \A u \in DOMAIN Defaults \ {v} : kept'[u] = kept[u] /\ value'[u] = value[u]
      BY <1>1, <1>5, <1>9
    <2> QED
      BY <1>1, <1>5, <1>11, <2>1, OthersFollow
  <1>12. ASSUME NEW w \in DOMAIN Defaults \ clashed'
         PROVE  /\ \A m, n \in Setting(w)' : m = n
                /\ Setting(w)' = {} => Follows(w)'
                /\ \A m \in Setting(w)' :
                     IF loader'[m].at = "notify" THEN Told(m, w)' ELSE Heard(m, w)'
    BY <1>5, <1>10, <1>11
  <1> QED
    BY <1>8, <1>12 DEF Listeners

\* When the last turn is over every logger has heard.
LEMMA AllHeard ==
  ASSUME SettingsTypeOK, NEW l \in Loaders, NEW v \in DOMAIN Defaults, Told(l, v), InTurn(l),
         loader[l].at = "notify",
         v = loader[l].todo[1][1], loader[l].turn > Turns(v)
  PROVE  Heard(l, v)
  <1>1. loader[l].turn \in Nat
    <2>1. loader[l] \in Loading
      BY DEF SettingsTypeOK
    <2> QED
      BY <2>1, LoadingFields
  <1>2. CASE v = "logs"
    <2>1. PICK x : x = loader[l].todo[1][2]
      OBVIOUS
    <2>2. LoggersTold(x, loader[l].turn, loader[l].done)
      BY <1>2, <2>1 DEF Told
    <2>3. /\ Loggers \in Nat /\ DOMAIN LoggerNames = 1..Loggers
      BY SettingsAssumption, LenProperties DEF Loggers
    <2>4. ASSUME NEW n \in ToSet(LoggerNames) PROVE HasValue(n, x)
      <3>1. PICK i \in 1..Loggers : n = LoggerNames[i]
        BY <2>3 DEF ToSet
      <3>2. loader[l].turn > TurnOf(i, x)
        <4>1. TurnOf(i, x) \in Nat /\ TurnOf(i, x) <= 2 * Loggers
          BY <2>3 DEF TurnOf
        <4>2. loader[l].turn > 2 * Loggers
          BY <1>2 DEF Turns
        <4> QED
          BY <1>1, <2>3, <4>1, <4>2
      <3> QED
        BY <2>2, <3>1, <3>2 DEF LoggersTold
    <2> QED
      BY <1>2, <2>1, <2>4 DEF Heard
  <1>3. CASE v # "logs"
    BY <1>1, <1>3 DEF Told, Heard, Turns
  <1> QED
    BY <1>2, <1>3

\* The read lock is left: the listeners have heard all.
LEMMA ListenersUnlock ==
  ASSUME SettingsTypeOK, Values, Listeners, NEW l \in Loaders, Unlock(l)
  PROVE  Listeners'
  <1>1. PICK v \in DOMAIN Defaults : v = loader[l].todo[1][1]
    BY SettingStep
  <1>2. PICK s : s = [at |-> "write", todo |-> loader[l].todo] /\ Move(l, s)
    BY DEF Unlock
  <1>3. /\ loader'[l].at = "write" /\ loader'[l].todo = loader[l].todo
        /\ \A m \in Loaders \ {l} : loader'[m] = loader[m]
    BY <1>2, LoaderMoved
  <1>4. kept' = kept /\ value' = value /\ clashed' = clashed
        /\ loader[l].at = "notify" /\ loader[l].turn > Turns(v)
    BY <1>1 DEF Unlock, watched
  <1>5. ASSUME NEW m \in Loaders, (loader[m].at = "notify")' PROVE InTurn(m)'
    <2>1. loader'[m] = loader[m] /\ InTurn(m)
      BY <1>3, <1>5 DEF Listeners
    <2> QED
      BY <1>4, <2>1 DEF InTurn
  <1>6. ASSUME NEW w \in DOMAIN Defaults \ clashed
        PROVE  /\ \A m, n \in Setting(w)' : m = n
               /\ Setting(w)' = {} => Follows(w)'
               /\ \A m \in Setting(w)' :
                    IF loader'[m].at = "notify" THEN Told(m, w)' ELSE Heard(m, w)'
    <2>1. Setting(w)' = Setting(w)
      <3>1. ASSUME NEW m \in Loaders PROVE m \in Setting(w)' <=> m \in Setting(w)
        BY <1>3, <1>4 DEF Setting
      <3> QED
        BY <3>1 DEF Setting
    <2>2. /\ \A m, n \in Setting(w) : m = n
          /\ Setting(w) = {} => Follows(w)
          /\ \A m \in Setting(w) : IF loader[m].at = "notify" THEN Told(m, w) ELSE Heard(m, w)
      BY DEF Listeners
    <2>3. ASSUME NEW m \in Setting(w)
          PROVE  IF loader'[m].at = "notify" THEN Told(m, w)' ELSE Heard(m, w)'
      <3>1. CASE m = l
        <4>1. w = v /\ Told(l, v) /\ InTurn(l)
          BY <1>1, <1>4, <2>2, <2>3, <3>1 DEF Setting, Listeners
        <4>2. Heard(l, v)
          BY <1>1, <1>4, <4>1, AllHeard
        <4>3. Heard(l, v)'
          BY <1>3, <1>4, <4>2, SameVar
        <4> QED
          BY <1>3, <3>1, <4>1, <4>3
      <3>2. CASE m # l
        <4>1. loader'[m] = loader[m]
          BY <1>3, <2>3, <3>2 DEF Setting
        <4> QED
          BY <1>4, <2>2, <2>3, <4>1, SameVar
      <3> QED
        BY <3>1, <3>2
    <2>4. Follows(w)' <=> Follows(w)
      BY <1>4, SameVar
    <2> QED
      BY <2>1, <2>2, <2>3, <2>4
  <1> QED
    BY <1>4, <1>5, <1>6 DEF Listeners

\* The value is set: the listeners have heard it.
LEMMA ListenersWrite ==
  ASSUME SettingsTypeOK, Values, Listeners, NEW l \in Loaders, WriteValue(l)
  PROVE  Listeners'
  <1>1. PICK v \in DOMAIN Defaults : v = loader[l].todo[1][1]
    BY SettingStep
  <1>2. PICK x : x = loader[l].todo[1][2]
    OBVIOUS
  <1>3. PICK s : s = [at |-> "next", todo |-> Tail(loader[l].todo)] /\ Move(l, s)
    BY DEF WriteValue
  <1>4. /\ loader'[l].at = "next"
        /\ \A m \in Loaders \ {l} : loader'[m] = loader[m]
    BY <1>3, LoaderMoved
  <1>5. /\ loader[l].at = "write" /\ kept' = kept /\ clashed' = clashed
        /\ value' = [value EXCEPT ![v] = x]
        /\ \A m \in Setting(v) : loader[m].at # "notify"
    BY <1>1, <1>2 DEF WriteValue, watched
  <1>6. value'[v] = x /\ \A w \in DOMAIN Defaults \ {v} : value'[w] = value[w]
    <2>1. value = [w \in DOMAIN Defaults |-> value[w]]
      BY DEF SettingsTypeOK
    <2> QED
      BY <1>5, <2>1
  <1>7. ASSUME NEW m \in Loaders, (loader[m].at = "notify")' PROVE InTurn(m)'
    <2>1. loader'[m] = loader[m] /\ InTurn(m) /\ loader[m].at = "notify"
      BY <1>4, <1>7 DEF Listeners
    <2>2. PICK w \in DOMAIN Defaults : w = loader[m].todo[1][1]
      BY <2>1 DEF Values, Sets
    <2>3. w # v
      BY <1>5, <2>1, <2>2 DEF Setting
    <2>4. value'[w] = value[w]
      BY <1>6, <2>3
    <2> QED
      BY <2>1, <2>2, <2>4 DEF InTurn
  <1>8. ASSUME v \notin clashed
        PROVE  Setting(v)' = {} /\ Follows(v)'
    <2>1. l \in Setting(v)
      BY <1>1, <1>5 DEF Setting
    <2>2. (\A m, n \in Setting(v) : m = n) /\ Heard(l, v)
      BY <1>5, <1>8, <2>1 DEF Listeners
    <2>3. Setting(v)' = {}
      <3>1. ASSUME NEW m \in Loaders PROVE m \notin Setting(v)'
        BY <1>4, <2>1, <2>2 DEF Setting
      <3> QED
        BY <3>1 DEF Setting
    <2>4. CASE v = "logs"
      <3>1. \A n \in ToSet(LoggerNames) : HasValue(n, x)
        BY <1>2, <2>2, <2>4 DEF Heard
      <3>2. \A n : HasValue(n, x)' <=> HasValue(n, x)
        BY <1>5 DEF HasValue
      <3>3. x = value'["logs"]
        BY <1>6, <2>4
      <3> QED
        BY <2>3, <2>4, <3>1, <3>2, <3>3 DEF Follows
    <2>5. CASE v # "logs"
      BY <1>2, <1>5, <1>6, <2>2, <2>3, <2>5 DEF Heard, Follows
    <2> QED
      BY <2>4, <2>5
  <1>9. ASSUME NEW w \in DOMAIN Defaults \ clashed', w # v
        PROVE  /\ \A m, n \in Setting(w)' : m = n
               /\ Setting(w)' = {} => Follows(w)'
               /\ \A m \in Setting(w)' :
                    IF loader'[m].at = "notify" THEN Told(m, w)' ELSE Heard(m, w)'
    <2>1. /\ Sets(l)' => v = loader'[l].todo[1][1]
          /\ clashed \subseteq clashed'
          /\ \A u \in DOMAIN Defaults \ {v} : kept'[u] = kept[u] /\ value'[u] = value[u]
      BY <1>4, <1>5, <1>6 DEF Sets
    <2> QED
      BY <1>1, <1>4, <1>9, <2>1, OthersFollow
  <1>10. ASSUME NEW w \in DOMAIN Defaults \ clashed'
         PROVE  /\ \A m, n \in Setting(w)' : m = n
                /\ Setting(w)' = {} => Follows(w)'
                /\ \A m \in Setting(w)' :
                     IF loader'[m].at = "notify" THEN Told(m, w)' ELSE Heard(m, w)'
    BY <1>5, <1>8, <1>9
  <1> QED
    BY <1>7, <1>10 DEF Listeners

LEMMA ListenersKept ==
  ASSUME SettingsTypeOK, Values, Listeners, [SettingsNext]_settingsVars
  PROVE  Listeners'
  <1>1. CASE UNCHANGED settingsVars
    <2>1. Quiet
      BY <1>1, SettingsRest DEF Quiet
    <2> QED
      BY <2>1, ListenersQuiet
  <1>2. CASE Change \/ \E l \in Loaders : BeginLoad(l) \/ CheckTime(l) \/ LoadFile(l)
                                           \/ Passes(l) \/ Ends(l)
    BY <1>2, QuietTyping, ListenersQuiet
  <1>3. CASE \E l \in Loaders : Starts(l) \/ Notify(l) \/ Unlock(l) \/ WriteValue(l)
    BY <1>3, ListenersStart, ListenersNotify, ListenersUnlock, ListenersWrite
  <1> QED
    BY <1>1, <1>2, <1>3, SettingsCases

-----------------------------------------------------------------------------
(* Settings: a load that is alone, and what was recorded of it.            *)

\* Two values that are the same to operator== are so both ways.
LEMMA SameValueLaws ==
  ASSUME NEW v, NEW x, NEW y
  PROVE  SameValue(v, x, x) /\ (SameValue(v, x, y) => SameValue(v, y, x))
  BY DEF SameValue, SameDefine

\* While a load is alone nobody else moves.
LEMMA OnlyOne ==
  ASSUME Alone, NEW k \in alone, NEW l \in Loaders, loader[l].at # "out"
  PROVE  k = l
  BY DEF Alone, Out

\* The entry that is next to be read is one of the file.
LEMMA ReadNext ==
  ASSUME SettingsTypeOK, NEW l \in Loaders, Read(l), loader[l].todo \in Seq(Entries),
         loader[l].todo # <<>>, loader'[l].todo = Tail(loader[l].todo),
         document' = document,
         LET v == loader[l].todo[1][1]
             x == loader[l].todo[1][2]
         IN /\ \A w \in DOMAIN Defaults \ {v} : value'[w] = value[w]
            /\ \/ value'[v] = value[v]
               \/ x # Bad
            /\ v \in DOMAIN Defaults /\ x # Bad => SameValue(v, value'[v], x)
  PROVE  Read(l)'
  <1> DEFINE content == document.content
             todo == loader[l].todo
             v == todo[1][1]
             x == todo[1][2]
  <1>1. content # Broken /\ content \in Seq(Entries)
    BY SettingsAssumption DEF Read, SettingsTypeOK
  <1>2. PICK length \in Nat, left \in Nat : length = Len(content) /\ left = Len(todo)
    BY <1>1, LenProperties
  <1>3. left <= length
    BY <1>2 DEF Read
  <1>4. PICK n \in Nat : n = length - left
    BY <1>3
  <1>5. \A i \in 1..left : todo[i] = content[n + i]
    BY <1>2, <1>4 DEF Read
  <1>6. \A w \in DOMAIN Defaults, p \in 1..n :
          LastIn(content, w, p) => SameValue(w, value[w], content[p][2])
    BY <1>2, <1>4 DEF Read
  <1>7. /\ left >= 1 /\ Len(Tail(todo)) = left - 1
        /\ \A i \in 1..(left - 1) : Tail(todo)[i] = todo[i + 1]
    BY <1>2, NextEntry
  <1> HIDE DEF content, todo
  <1>8. PICK rest : rest = Tail(todo) /\ Len(rest) = left - 1
    BY <1>7
  <1>9. length - (left - 1) = n + 1 /\ left - 1 <= length /\ n + 1 <= length
    BY <1>3, <1>4, <1>7
  <1>10. \A i \in 1..Len(rest) : rest[i] = content[(n + 1) + i]
    <2>1. ASSUME NEW i \in 1..(left - 1) PROVE rest[i] = content[(n + 1) + i]
      <3>1. PICK j \in 1..left : j = i + 1 /\ n + j = (n + 1) + i
        BY <2>1
      <3>2. rest[i] = todo[j]
        BY <1>7, <1>8, <3>1
      <3> QED
        BY <1>5, <3>1, <3>2
    <2> QED
      BY <1>8, <2>1
  <1>11. content[n + 1] = todo[1] /\ n + 1 \in DOMAIN content
    <2>1. DOMAIN content = 1..length
      BY <1>1, <1>2, LenProperties
    <2>2. 1 \in 1..left
      BY <1>7
    <2>3. n + 1 \in 1..length
      BY <1>9
    <2> QED
      BY <1>5, <2>1, <2>2, <2>3
  <1>12. ASSUME NEW w \in DOMAIN Defaults, NEW p \in 1..(n + 1), LastIn(content, w, p)
         PROVE  SameValue(w, value'[w], content[p][2])
    <2>1. CASE p = n + 1
      <3>1. w = v /\ x # Bad /\ content[p][2] = x
        BY <1>11, <1>12, <2>1 DEF LastIn
      <3> QED
        BY <3>1 DEF todo
    <2>2. CASE p \in 1..n
      <3>1. SameValue(w, value[w], content[p][2])
        BY <1>6, <1>12, <2>2
      <3>2. w # v \/ x = Bad
        <4>1. n + 1 > p
          BY <2>2
        <4> QED
          BY <1>11, <1>12, <4>1 DEF LastIn
      <3>3. value'[w] = value[w]
        BY <3>2 DEF todo
      <3> QED
        BY <3>1, <3>3
    <2> QED
      BY <2>1, <2>2
  <1>13. /\ Len(content) - Len(rest) = n + 1 /\ Len(rest) <= Len(content)
         /\ document'.content = content /\ loader'[l].todo = rest
    BY <1>2, <1>8, <1>9 DEF content, todo
  <1>14. Read(l)'
    <2>1. /\ document'.content # Broken
          /\ Len(loader'[l].todo) <= Len(document'.content)
          /\ Len(document'.content) - Len(loader'[l].todo) = n + 1
      BY <1>1, <1>13 DEF content
    <2>2. \A i \in 1..Len(loader'[l].todo) :
             loader'[l].todo[i] = document'.content[(n + 1) + i]
      BY <1>10, <1>13
    <2>3. \A w \in DOMAIN Defaults, p \in 1..(n + 1) :
             LastIn(document'.content, w, p) => SameValue(w, value'[w], document'.content[p][2])
      BY <1>12, <1>13
    <2> QED
      BY <2>1, <2>2, <2>3 DEF Read
  <1> QED
    BY <1>14

\* A load that is alone stays so until another begins or the file changes.
LEMMA AloneKept ==
  ASSUME SettingsTypeOK, Values, Listeners, Alone, [SettingsNext]_settingsVars
  PROVE  Alone'
  <1> DEFINE Held(k) == /\ \A m \in Loaders \ {k} : loader'[m] = Out
                        /\ loader'[k].at = "check" => loader'[k].stat = document'.mtime
                        /\ loader'[k].at \in {"next", "notify", "write"} => Read(k)'
  <1>1. SUFFICES ASSUME NEW k \in alone' PROVE Held(k)
    BY DEF Alone
  <1>2. alone \in SUBSET Loaders
    BY DEF SettingsTypeOK
  <1>3. CASE UNCHANGED settingsVars
    <2>1. /\ document' = document /\ value' = value /\ loader' = loader /\ alone' = alone
      BY <1>3, SettingsRest
    <2> QED
      BY <2>1 DEF Alone, Read
  <1>4. CASE Change
    BY <1>4 DEF Change
  <1>5. ASSUME NEW l \in Loaders, BeginLoad(l) PROVE Held(k)
    <2>1. k = l /\ \A m \in Loaders : loader[m] = Out
      BY <1>5 DEF BeginLoad
    <2>2. PICK force \in BOOLEAN :
             Move(l, [at |-> "check", force |-> force, stat |-> document.mtime])
      BY <1>5 DEF BeginLoad
    <2>3. PICK s : /\ s = [at |-> "check", force |-> force, stat |-> document.mtime]
                   /\ Move(l, s)
      BY <2>2
    <2>4. loader'[l] = s /\ \A m \in Loaders \ {l} : loader'[m] = loader[m]
      BY <2>3, LoaderMoved
    <2>5. document' = document
      BY <1>5 DEF BeginLoad
    <2>6. s.at = "check" /\ s.stat = document.mtime
      BY <2>3
    <2> QED
      BY <2>1, <2>4, <2>5, <2>6
  <1>6. ASSUME NEW l \in Loaders, k \in alone, loader[l].at # "out"
        PROVE  /\ k = l /\ \A m \in Loaders \ {l} : loader[m] = Out
               /\ loader[l].at = "check" => loader[l].stat = document.mtime
               /\ loader[l].at \in {"next", "notify", "write"} => Read(l)
    <2>1. k = l
      BY <1>6, OnlyOne
    <2> QED
      BY <1>6, <2>1 DEF Alone
  <1>7. ASSUME NEW l \in Loaders, NEW read \in BOOLEAN, Leave(l, read), loader[l].at # "out"
        PROVE  FALSE
    <2>1. k \in alone /\ k # l
      BY <1>7 DEF Leave
    <2> QED
      BY <1>6, <1>7, <2>1
  <1>8. ASSUME NEW l \in Loaders, CheckTime(l) PROVE Held(k)
    <2>1. Move(l, [at |-> "read"]) /\ alone' = alone /\ loader[l].at = "check"
      <3>1. loader[l].at = "check"
        BY <1>8 DEF CheckTime
      <3>2. ~Leave(l, FALSE)
        BY <1>7, <3>1
      <3> QED
        BY <1>8, <3>1, <3>2 DEF CheckTime
    <2>2. PICK s : s = [at |-> "read"] /\ Move(l, s)
      BY <2>1
    <2>3. loader'[l] = s /\ \A m \in Loaders \ {l} : loader'[m] = loader[m]
      BY <2>2, LoaderMoved
    <2>4. k = l /\ \A m \in Loaders \ {l} : loader[m] = Out
      BY <1>6, <2>1
    <2>5. s.at = "read"
      BY <2>2
    <2> QED
      BY <2>3, <2>4, <2>5
  <1>9. ASSUME NEW l \in Loaders, LoadFile(l) PROVE Held(k)
    <2>1. /\ Move(l, [at |-> "next", todo |-> document.content]) /\ alone' = alone
          /\ loader[l].at = "read" /\ document.content # Broken /\ document' = document
      <3>1. loader[l].at = "read"
        BY <1>9 DEF LoadFile
      <3>2. ~Leave(l, TRUE)
        BY <1>7, <3>1
      <3> QED
        BY <1>9, <3>1, <3>2 DEF LoadFile
    <2>2. PICK s : s = [at |-> "next", todo |-> document.content] /\ Move(l, s)
      BY <2>1
    <2>3. loader'[l] = s /\ \A m \in Loaders \ {l} : loader'[m] = loader[m]
      BY <2>2, LoaderMoved
    <2>4. k = l /\ \A m \in Loaders \ {l} : loader[m] = Out
      BY <1>6, <2>1
    <2>5. s.at = "next" /\ s.todo = document.content
      BY <2>2
    <2>6. Read(l)'
      <3>1. PICK content \in Seq(Entries) : content = document.content
        BY <2>1, SettingsAssumption DEF SettingsTypeOK
      <3>2. Len(content) - Len(content) = 0 /\ \A i \in 1..Len(content) : 0 + i = i
        OBVIOUS
      <3>3. \A p : p \notin 1..0
        OBVIOUS
      <3>4. loader'[l].todo = content /\ document'.content = content /\ content # Broken
            /\ Len(content) <= Len(content)
        BY <2>1, <2>3, <2>5, <3>1
      <3> QED
        BY <3>2, <3>3, <3>4 DEF Read
    <2> QED
      BY <2>3, <2>4, <2>5, <2>6
  <1>10. ASSUME NEW l \in Loaders, Passes(l) PROVE Held(k)
    <2>1. /\ loader[l].at = "next" /\ loader[l].todo # <<>> /\ alone' = alone
          /\ document' = document /\ value' = value
      BY <1>10 DEF Passes, watched
    <2>2. PICK s : s = [at |-> "next", todo |-> Tail(loader[l].todo)] /\ Move(l, s)
      BY <1>10 DEF Passes
    <2>3. loader'[l] = s /\ \A m \in Loaders \ {l} : loader'[m] = loader[m]
      BY <2>2, LoaderMoved
    <2>4. k = l /\ (\A m \in Loaders \ {l} : loader[m] = Out) /\ Read(l)
      BY <1>6, <2>1
    <2>5. s.at = "next" /\ s.todo = Tail(loader[l].todo)
      BY <2>2
    <2>6. loader[l].todo \in Seq(Entries)
      <3>1. loader[l] \in Loading
        BY DEF SettingsTypeOK
      <3> QED
        BY <2>1, <3>1, LoadingFields
    <2>7. Read(l)'
      <3> DEFINE v == loader[l].todo[1][1]
                 x == loader[l].todo[1][2]
      <3>1. v \in DOMAIN Defaults /\ x # Bad => SameValue(v, value'[v], x)
        <4>1. v \notin DOMAIN value \/ x = Bad \/ SameValue(v, x, value[v])
          BY <1>10 DEF Passes
        <4>2. DOMAIN value = DOMAIN Defaults
          BY DEF SettingsTypeOK
        <4>3. SameValue(v, x, value[v]) => SameValue(v, value[v], x)
          BY SameValueLaws
        <4> QED
          BY <2>1, <4>1, <4>2, <4>3
      <3>2. /\ \A w \in DOMAIN Defaults \ {v} : value'[w] = value[w]
            /\ value'[v] = value[v]
        BY <2>1
      <3>3. loader'[l].todo = Tail(loader[l].todo)
        BY <2>3, <2>5
      <3> HIDE DEF v, x
      <3> QED
        BY <2>1, <2>4, <2>6, <3>1, <3>2, <3>3, ReadNext DEF v, x
    <2> QED
      BY <2>3, <2>4, <2>5, <2>7
  <1>11. ASSUME NEW l \in Loaders, Ends(l) PROVE Held(k)
    BY <1>7, <1>11 DEF Ends
  <1>12. ASSUME NEW l \in Loaders, Starts(l) \/ Notify(l) \/ Unlock(l) PROVE Held(k)
    <2>1. /\ loader[l].at \in {"next", "notify"} /\ alone' = alone
          /\ document' = document /\ value' = value
      BY <1>12 DEF Starts, Notify, Unlock, watched
    <2>2. k = l /\ (\A m \in Loaders \ {l} : loader[m] = Out) /\ Read(l)
      BY <1>6, <2>1
    <2>3. /\ \A m \in Loaders \ {l} : loader'[m] = loader[m]
          /\ loader'[l].todo = loader[l].todo /\ loader'[l].at # "check"
      <3>1. CASE Notify(l)
        BY <3>1, NotifyCases
      <3>2. CASE Starts(l) \/ Unlock(l)
        <4>1. PICK s : Move(l, s) /\ s.todo = loader[l].todo /\ s.at # "check"
          BY <3>2 DEF Starts, Unlock
        <4> QED
          BY <4>1, LoaderMoved
      <3> QED
        BY <1>12, <3>1, <3>2
    <2>4. Read(l)'
      BY <2>1, <2>2, <2>3 DEF Read
    <2> QED
      BY <2>2, <2>3, <2>4
  <1>13. ASSUME NEW l \in Loaders, WriteValue(l) PROVE Held(k)
    <2>1. loader[l].at = "write" /\ alone' = alone /\ document' = document
      BY <1>13 DEF WriteValue, watched
    <2>2. PICK s : s = [at |-> "next", todo |-> Tail(loader[l].todo)] /\ Move(l, s)
      BY <1>13 DEF WriteValue
    <2>3. loader'[l] = s /\ \A m \in Loaders \ {l} : loader'[m] = loader[m]
      BY <2>2, LoaderMoved
    <2>4. k = l /\ (\A m \in Loaders \ {l} : loader[m] = Out) /\ Read(l)
      BY <1>6, <2>1
    <2>5. s.at = "next" /\ s.todo = Tail(loader[l].todo)
      BY <2>2
    <2>6. loader[l].todo \in Seq(Entries) /\ loader[l].todo # <<>>
          /\ loader[l].todo[1][1] \in DOMAIN Defaults /\ loader[l].todo[1][2] # Bad
      BY <1>13, SettingStep
    <2>7. Read(l)'
      <3> DEFINE v == loader[l].todo[1][1]
                 x == loader[l].todo[1][2]
      <3>1. value' = [value EXCEPT ![v] = x] /\ value = [w \in DOMAIN Defaults |-> value[w]]
        BY <1>13 DEF WriteValue, SettingsTypeOK
      <3>2. loader'[l].todo = Tail(loader[l].todo)
        BY <2>3, <2>5
      <3>3. v \in DOMAIN Defaults /\ x # Bad
        BY <2>6
      <3> HIDE DEF v, x
      <3>4. value'[v] = x /\ \A w \in DOMAIN Defaults \ {v} : value'[w] = value[w]
        BY <3>1, <3>3
      <3>5. SameValue(v, value'[v], x)
        BY <3>4, SameValueLaws
      <3> QED
        BY <2>1, <2>4, <2>6, <3>2, <3>3, <3>4, <3>5, ReadNext DEF v, x
    <2> QED
      BY <2>3, <2>4, <2>5, <2>7
  <1> HIDE DEF Held
  <1> QED
    BY <1>3, <1>4, <1>5, <1>8, <1>9, <1>10, <1>11, <1>12, <1>13, SettingsCases

\* What a load does once the time of the file is recorded.
LEMMA Reading ==
  ASSUME SettingsTypeOK, Values, Listeners, NEW l \in Loaders,
         \/ LoadFile(l) \/ Passes(l) \/ Ends(l)
         \/ Starts(l) \/ Notify(l) \/ Unlock(l) \/ WriteValue(l)
  PROVE  /\ document' = document /\ recorded' = recorded
         /\ loader[l].at \notin {"out", "check"} /\ loader'[l].at # "check"
         /\ \A m \in Loaders \ {l} : loader'[m] = loader[m]
         /\ \/ /\ loader'[l].at # "out" /\ trusted' = trusted /\ applied' = applied
            \/ /\ Leave(l, TRUE) /\ loader'[l] = Out /\ value' = value
               /\ \/ document.content = Broken
                  \/ loader[l].at = "next" /\ loader[l].todo = <<>>
  <1> DEFINE On == \E s : Move(l, s) /\ s.at \notin {"out", "check"}
             AtEnd == /\ Leave(l, TRUE) /\ value' = value
                    /\ \/ document.content = Broken
                       \/ loader[l].at = "next" /\ loader[l].todo = <<>>
  <1>1. document' = document /\ recorded' = recorded /\ loader[l].at \notin {"out", "check"}
    BY DEF LoadFile, Passes, Ends, Starts, Notify, Unlock, WriteValue
  <1>2. CASE Notify(l)
    <2>1. loader'[l].at = "notify" /\ \A m \in Loaders \ {l} : loader'[m] = loader[m]
      BY <1>2, NotifyCases
    <2>2. trusted' = trusted /\ applied' = applied
      BY <1>2 DEF Notify, watched
    <2> QED
      BY <1>1, <2>1, <2>2
  <1>3. CASE ~Notify(l)
    <2>1. (On /\ trusted' = trusted /\ applied' = applied) \/ AtEnd
      <3>1. CASE LoadFile(l)
        <4>1. CASE document.content = Broken
          BY <3>1, <4>1 DEF LoadFile
        <4>2. CASE document.content # Broken
          <5>1. /\ Move(l, [at |-> "next", todo |-> document.content])
                /\ trusted' = trusted /\ applied' = applied
            BY <3>1, <4>2 DEF LoadFile
          <5>2. On
            BY <5>1
          <5> QED
            BY <5>1, <5>2
        <4> QED
          BY <4>1, <4>2
      <3>2. CASE Passes(l)
        <4>1. Move(l, [at |-> "next", todo |-> Tail(loader[l].todo)]) /\ trusted' = trusted /\ applied' = applied
          BY <3>2 DEF Passes, watched
        <4>2. On
          BY <4>1
        <4> QED
          BY <4>1, <4>2
      <3>3. CASE Ends(l)
        BY <3>3 DEF Ends
      <3>4. CASE Starts(l)
        <4>1. /\ Move(l, [at |-> "notify", todo |-> loader[l].todo, turn |-> 1, done |-> 0])
              /\ trusted' = trusted /\ applied' = applied
          BY <3>4 DEF Starts
        <4>2. On
          BY <4>1
        <4> QED
          BY <4>1, <4>2
      <3>5. CASE Unlock(l)
        <4>1. Move(l, [at |-> "write", todo |-> loader[l].todo]) /\ trusted' = trusted /\ applied' = applied
          BY <3>5 DEF Unlock, watched
        <4>2. On
          BY <4>1
        <4> QED
          BY <4>1, <4>2
      <3>6. CASE WriteValue(l)
        <4>1. Move(l, [at |-> "next", todo |-> Tail(loader[l].todo)]) /\ trusted' = trusted /\ applied' = applied
          BY <3>6 DEF WriteValue, watched
        <4>2. On
          BY <4>1
        <4> QED
          BY <4>1, <4>2
      <3> QED
        BY <1>3, <3>1, <3>2, <3>3, <3>4, <3>5, <3>6
    <2>2. CASE On /\ trusted' = trusted /\ applied' = applied
      BY <1>1, <2>2, LoaderMoved
    <2>3. CASE AtEnd
      <3>1. PICK s : s = Out /\ Move(l, s)
        BY <2>3 DEF Leave
      <3>2. s.at = "out"
        BY <3>1 DEF Out
      <3>3. loader'[l] = s /\ \A m \in Loaders \ {l} : loader'[m] = loader[m]
        BY <3>1, LoaderMoved
      <3> QED
        BY <1>1, <2>3, <3>1, <3>2, <3>3
    <2> QED
      BY <2>1, <2>2, <2>3
  <1> QED
    BY <1>2, <1>3

\* The two ways a load goes on under s_mutex.
LEMMA Checking ==
  ASSUME SettingsTypeOK, NEW l \in Loaders, CheckTime(l)
  PROVE  /\ document' = document /\ value' = value /\ loader[l].at = "check"
         /\ \A m \in Loaders \ {l} : loader'[m] = loader[m]
         /\ \/ /\ loader'[l] = Out /\ recorded' = recorded /\ recorded = loader[l].stat
               /\ Leave(l, FALSE)
            \/ /\ loader'[l].at = "read" /\ recorded' = loader[l].stat
               /\ trusted' = trusted /\ applied' = applied
  <1>1. document' = document /\ value' = value /\ loader[l].at = "check"
    BY DEF CheckTime
  <1>2. CASE ~loader[l].force /\ recorded = loader[l].stat
    <2>1. PICK s : s = Out /\ Move(l, s) /\ Leave(l, FALSE) /\ recorded' = recorded
      BY <1>2 DEF CheckTime, Leave
    <2>2. loader'[l] = s /\ \A m \in Loaders \ {l} : loader'[m] = loader[m]
      BY <2>1, LoaderMoved
    <2> QED
      BY <1>1, <1>2, <2>1, <2>2
  <1>3. CASE loader[l].force \/ recorded # loader[l].stat
    <2>1. PICK s : /\ s = [at |-> "read"] /\ Move(l, s) /\ recorded' = loader[l].stat
                   /\ trusted' = trusted /\ applied' = applied
      BY <1>3 DEF CheckTime
    <2>2. loader'[l] = s /\ \A m \in Loaders \ {l} : loader'[m] = loader[m]
      BY <2>1, LoaderMoved
    <2>3. s.at = "read"
      BY <2>1
    <2> QED
      BY <1>1, <2>1, <2>2, <2>3
  <1> QED
    BY <1>2, <1>3

\* A load begins: nothing is in force for certain until it ends.
LEMMA Beginning ==
  ASSUME SettingsTypeOK, NEW l \in Loaders, BeginLoad(l)
  PROVE  /\ document' = document /\ value' = value /\ recorded' = recorded
         /\ trusted' = trusted /\ applied' = FALSE /\ loader[l] = Out
         /\ \A m \in Loaders \ {l} : loader'[m] = loader[m]
         /\ loader'[l].at = "check" /\ loader'[l].stat = document.mtime
  <1>1. PICK force \in BOOLEAN :
           Move(l, [at |-> "check", force |-> force, stat |-> document.mtime])
    BY DEF BeginLoad
  <1>2. PICK s : /\ s = [at |-> "check", force |-> force, stat |-> document.mtime]
                 /\ Move(l, s)
    BY <1>1
  <1>3. loader'[l] = s /\ \A m \in Loaders \ {l} : loader'[m] = loader[m]
    BY <1>2, LoaderMoved
  <1>4. s.at = "check" /\ s.stat = document.mtime
    BY <1>2
  <1> QED
    BY <1>3, <1>4 DEF BeginLoad

\* No time that was recorded, or read to be, is later than the file's.
LEMMA TimesKept ==
  ASSUME SettingsTypeOK, Values, Listeners, Times, [SettingsNext]_settingsVars
  PROVE  Times'
  <1>1. PICK mtime \in Nat : mtime = document.mtime
    BY DEF SettingsTypeOK
  <1>2. recorded \in Nat /\ recorded <= mtime
    BY <1>1 DEF Times, SettingsTypeOK
  <1>3. \A m \in Loaders : loader[m].at = "check" =>
          loader[m].stat \in Nat /\ loader[m].stat <= mtime
    <2>1. ASSUME NEW m \in Loaders, loader[m].at = "check"
          PROVE  loader[m].stat \in Nat /\ loader[m].stat <= mtime
      <3>1. loader[m] \in Loading
        BY DEF SettingsTypeOK
      <3>2. loader[m].stat \in Nat
        BY <2>1, <3>1, LoadingFields
      <3> QED
        BY <1>1, <2>1, <3>2 DEF Times
    <2> QED
      BY <2>1
  <1>4. CASE UNCHANGED settingsVars
    BY <1>4, SettingsRest DEF Times
  <1>5. CASE Change
    <2>1. PICK t \in {0, 1} : document'.mtime = mtime + t
      BY <1>1, <1>5 DEF Change
    <2>2. loader' = loader /\ recorded' = recorded
      BY <1>5 DEF Change
    <2>3. \A n \in Nat : n <= mtime => n <= mtime + t
      OBVIOUS
    <2> QED
      BY <1>2, <1>3, <2>1, <2>2, <2>3 DEF Times
  <1>6. ASSUME NEW l \in Loaders, BeginLoad(l) PROVE Times'
    <2>1. mtime <= mtime
      OBVIOUS
    <2> QED
      BY <1>1, <1>2, <1>3, <1>6, <2>1, Beginning DEF Times
  <1>7. ASSUME NEW l \in Loaders, CheckTime(l) PROVE Times'
    <2>1. recorded' <= mtime /\ document'.mtime = mtime
      BY <1>1, <1>2, <1>3, <1>7, Checking
    <2>2. loader'[l].at # "check" /\ \A m \in Loaders \ {l} : loader'[m] = loader[m]
      <3>1. loader'[l] = Out \/ loader'[l].at = "read"
        BY <1>7, Checking
      <3>2. Out.at = "out"
        BY DEF Out
      <3>3. \A m \in Loaders \ {l} : loader'[m] = loader[m]
        BY <1>7, Checking
      <3> QED
        BY <3>1, <3>2, <3>3
    <2> QED
      BY <1>3, <2>1, <2>2 DEF Times
  <1>8. ASSUME NEW l \in Loaders,
               \/ LoadFile(l) \/ Passes(l) \/ Ends(l)
               \/ Starts(l) \/ Notify(l) \/ Unlock(l) \/ WriteValue(l)
        PROVE  Times'
    <2>1. /\ document' = document /\ recorded' = recorded /\ loader'[l].at # "check"
          /\ \A m \in Loaders \ {l} : loader'[m] = loader[m]
      BY <1>8, Reading
    <2> QED
      BY <1>1, <1>2, <1>3, <2>1 DEF Times
  <1> QED
    BY <1>4, <1>5, <1>6, <1>7, <1>8, SettingsCases

\* A load that read the whole file, alone, has set what it says.
LEMMA AllRead ==
  ASSUME SettingsTypeOK, NEW l \in Loaders, Read(l), loader[l].todo = <<>>
  PROVE  AsInFile
  <1>1. document.content # Broken /\ document.content \in Seq(Entries)
    BY SettingsAssumption DEF Read, SettingsTypeOK
  <1>2. PICK length \in Nat : length = Len(document.content)
    BY <1>1, LenProperties
  <1>3. length - 0 = length /\ Len(loader[l].todo) = 0
    BY <1>2
  <1>4. DOMAIN document.content = 1..length
    BY <1>1, <1>2, LenProperties
  <1>5. DOMAIN value = DOMAIN Defaults
    BY DEF SettingsTypeOK
  <1>6. \A v \in DOMAIN Defaults, p \in 1..length :
          LastIn(document.content, v, p) => SameValue(v, value[v], document.content[p][2])
    BY <1>2, <1>3 DEF Read
  <1> QED
    BY <1>4, <1>5, <1>6 DEF AsInFile

\* What was recorded is in force, and so is the file a load that stands has read.
LEMMA RecordedKept ==
  ASSUME SettingsTypeOK, Values, Listeners, Alone, Times, Recorded,
         [SettingsNext]_settingsVars
  PROVE  Recorded'
  <1> DEFINE Rested == \A m \in Loaders : loader[m].at \in {"out", "check"}
             Done == \A m \in Loaders : loader[m] = Out
  <1>1. /\ trusted /\ recorded = document.mtime /\ Rested => AsInFile
        /\ applied => AsInFile /\ Done
    BY DEF Recorded
  <1>2. SUFFICES /\ trusted' /\ recorded' = document'.mtime /\ Rested' => AsInFile'
                 /\ applied' => AsInFile' /\ Done'
    BY DEF Recorded
  <1>3. ASSUME document' = document, value' = value PROVE AsInFile' = AsInFile
    BY <1>3 DEF AsInFile
  <1>4. Out.at = "out"
    BY DEF Out
  <1>5. CASE UNCHANGED settingsVars
    BY <1>1, <1>3, <1>5, SettingsRest
  <1>6. CASE Change
    <2>1. PICK mtime \in Nat, past \in Nat : mtime = document.mtime /\ past = recorded
      BY DEF SettingsTypeOK
    <2>2. past <= mtime
      BY <2>1 DEF Times
    <2>3. PICK t \in {0, 1} : /\ document'.mtime = mtime + t
                              /\ trusted' = (trusted /\ (t = 1 \/ past # mtime))
      BY <1>6, <2>1 DEF Change
    <2>4. recorded' = past /\ applied' = FALSE
      BY <1>6, <2>1 DEF Change
    <2>5. t = 1 => past # mtime + t
      BY <2>2
    <2>6. t = 0 => mtime + t = mtime
      OBVIOUS
    <2> QED
      BY <2>3, <2>4, <2>5, <2>6
  <1>7. ASSUME NEW l \in Loaders, BeginLoad(l) PROVE Recorded'
    <2>1. /\ document' = document /\ value' = value /\ recorded' = recorded
          /\ trusted' = trusted /\ applied' = FALSE /\ loader[l] = Out
          /\ \A m \in Loaders \ {l} : loader'[m] = loader[m]
      BY <1>7, Beginning
    <2>2. Rested' => Rested
      BY <1>4, <2>1
    <2> QED
      BY <1>1, <1>3, <2>1, <2>2 DEF Recorded
  <1>8. ASSUME NEW l \in Loaders, CheckTime(l) PROVE Recorded'
    <2>1. /\ document' = document /\ value' = value /\ loader[l].at = "check"
          /\ \A m \in Loaders \ {l} : loader'[m] = loader[m]
      BY <1>8, Checking
    <2>2. CASE loader'[l] = Out /\ recorded' = recorded /\ recorded = loader[l].stat /\ Leave(l, FALSE)
      <3>1. trusted' = (l \in alone /\ trusted) /\ applied' = (l \in alone /\ trusted)
        BY <2>2 DEF Leave
      <3>2. ASSUME l \in alone, trusted PROVE AsInFile /\ Done'
        <4>1. loader[l].stat = document.mtime /\ \A m \in Loaders \ {l} : loader[m] = Out
          BY <2>1, <3>2 DEF Alone
        <4>2. Rested
          BY <1>4, <2>1, <4>1
        <4>3. Done'
          BY <2>1, <2>2, <4>1
        <4> QED
          BY <1>1, <2>2, <3>2, <4>1, <4>2, <4>3
      <3> QED
        BY <1>3, <2>1, <3>1, <3>2 DEF Recorded
    <2>3. CASE loader'[l].at = "read" /\ trusted' = trusted /\ applied' = applied
      <3>1. ~Rested' /\ ~applied
        BY <1>1, <1>4, <2>1, <2>3
      <3> QED
        BY <2>3, <3>1 DEF Recorded
    <2> QED
      BY <1>8, <2>2, <2>3, Checking
  <1>9. ASSUME NEW l \in Loaders,
               \/ LoadFile(l) \/ Passes(l) \/ Ends(l)
               \/ Starts(l) \/ Notify(l) \/ Unlock(l) \/ WriteValue(l)
        PROVE  Recorded'
    <2>1. /\ document' = document /\ loader[l].at \notin {"out", "check"}
          /\ loader'[l].at # "check" /\ \A m \in Loaders \ {l} : loader'[m] = loader[m]
      BY <1>9, Reading
    <2>2. CASE loader'[l].at # "out" /\ trusted' = trusted /\ applied' = applied
      <3>1. ~Rested' /\ ~applied
        BY <1>1, <1>4, <2>1, <2>2
      <3> QED
        BY <2>2, <3>1 DEF Recorded
    <2>3. CASE /\ Leave(l, TRUE) /\ loader'[l] = Out /\ value' = value
               /\ \/ document.content = Broken
                  \/ loader[l].at = "next" /\ loader[l].todo = <<>>
      <3>1. trusted' = (l \in alone) /\ applied' = (l \in alone)
        BY <2>3 DEF Leave
      <3>2. ASSUME l \in alone PROVE AsInFile /\ Done'
        <4>1. \A m \in Loaders \ {l} : loader[m] = Out
          BY <3>2 DEF Alone
        <4>2. Done'
          BY <2>1, <2>3, <4>1
        <4>3. AsInFile
          <5>1. CASE document.content = Broken
            BY <5>1 DEF AsInFile
          <5>2. CASE loader[l].at = "next" /\ loader[l].todo = <<>>
            <6>1. Read(l)
              BY <3>2, <5>2 DEF Alone
            <6> QED
              BY <5>2, <6>1, AllRead
          <5> QED
            BY <2>3, <5>1, <5>2
        <4> QED
          BY <4>2, <4>3
      <3> QED
        BY <1>3, <2>1, <2>3, <3>1, <3>2 DEF Recorded
    <2> QED
      BY <1>9, <2>2, <2>3, Reading
  <1> QED
    BY <1>5, <1>6, <1>7, <1>8, <1>9, SettingsCases DEF Recorded

-----------------------------------------------------------------------------
(* Settings: what holds in every state.                                    *)

\* The registered values are in force, no logger has anything to write to.
LEMMA SettingsInitIInv == ASSUME SettingsInit PROVE SettingsIInv
  <1>1. /\ document \in [content : Contents, mtime : {1}] /\ recorded = 0 /\ value = Defaults
        /\ kept = [v \in DOMAIN Defaults |->
                     IF v # "logs" THEN Defaults[v]
                     ELSE [n \in ToSet(LoggerNames) |-> [level |-> "INFO", appenders |-> <<>>]]]
        /\ loader = [l \in Loaders |-> Out]
        /\ alone = {} /\ trusted = TRUE /\ applied = FALSE /\ clashed = {}
    BY DEF SettingsInit
  <1>2. Out.at = "out" /\ Out \in Loading
    BY DEF Out, Loading
  <1>3. \A l \in Loaders : loader[l] = Out
    BY <1>1
  <1>4. document \in [content : Contents, mtime : Nat] /\ document.mtime = 1
    BY <1>1
  <1>5. /\ "logs" \in DOMAIN Defaults =>
             kept["logs"] = [n \in ToSet(LoggerNames) |-> [level |-> "INFO", appenders |-> <<>>]]
        /\ \A v \in DOMAIN Defaults \ {"logs"} : kept[v] = value[v]
    BY <1>1
  <1>6. [level |-> "INFO", appenders |-> <<>>] \in [level : Levels, appenders : Seq(Appenders)]
    BY DEF Levels
  <1>7. SettingsTypeOK
    <2>1. value = [v \in DOMAIN Defaults |-> value[v]]
      BY <1>1, SettingsAssumption
    <2>2. kept = [v \in DOMAIN Defaults |-> kept[v]]
      BY <1>1
    <2>3. "logs" \in DOMAIN Defaults =>
            kept["logs"] \in [ToSet(LoggerNames) -> [level : Levels, appenders : Seq(Appenders)]]
      BY <1>5, <1>6
    <2>4. loader \in [Loaders -> Loading]
      BY <1>1, <1>2
    <2>5. recorded \in Nat /\ alone \in SUBSET Loaders /\ trusted \in BOOLEAN /\ applied \in BOOLEAN
      BY <1>1
    <2> QED
      BY <1>4, <2>1, <2>2, <2>3, <2>4, <2>5 DEF SettingsTypeOK
  <1>8. "logs" \in DOMAIN Defaults => DOMAIN value["logs"] = {}
    BY <1>1, SettingsAssumption
  <1>9. Values
    BY <1>2, <1>3, <1>8 DEF Values, Definitions, Sets
  <1>10. Listeners
    <2>1. \A v : Setting(v) = {}
      BY <1>2, <1>3 DEF Setting
    <2>2. ASSUME NEW v \in DOMAIN Defaults PROVE Follows(v)
      <3>1. CASE v = "logs"
        <4>1. \A n \in ToSet(LoggerNames) : kept["logs"][n].appenders = <<>>
          BY <1>5, <3>1
        <4> QED
          BY <1>8, <3>1, <4>1 DEF Follows, HasValue
      <3>2. CASE v # "logs"
        BY <1>5, <3>2 DEF Follows
      <3> QED
        BY <3>1, <3>2
    <2>3. \A l \in Loaders : loader[l].at # "notify"
      BY <1>2, <1>3
    <2> QED
      BY <2>1, <2>2, <2>3 DEF Listeners
  <1>11. Alone
    BY <1>1 DEF Alone
  <1>12. Times
    BY <1>1, <1>2, <1>3, <1>4 DEF Times
  <1>13. Recorded
    BY <1>1, <1>4 DEF Recorded
  <1> QED
    BY <1>7, <1>9, <1>10, <1>11, <1>12, <1>13 DEF SettingsIInv

\* Every call of Config::LoadFromConfDir, ConfigVar::setValue and the listeners of
\* hook.cc and log.cpp, step by step by any number of threads, and every change of
\* the file keep the settings typed, the definitions known, each logger as its
\* listener has left it, a load that is alone in agreement with the file as far as
\* it has read, and the file in force that was recorded so.
THEOREM SettingsInductive == SettingsSpec => []SettingsIInv
  <1>1. SettingsInit => SettingsIInv
    BY SettingsInitIInv
  <1>2. SettingsIInv /\ [SettingsNext]_settingsVars => SettingsIInv'
    BY SettingsTyping, ValuesKept, ListenersKept, AloneKept, TimesKept, RecordedKept
       DEF SettingsIInv
  <1> QED
    BY <1>1, <1>2, PTL DEF SettingsSpec

\* After Config::LoadFromConfDir has run with no other load and no change of the file
\* meanwhile, every registered variable has the value the file says last, and what
\* the listeners of hook.cc and log.cpp keep follows every variable that no two loads
\* have set at the same time: whoever loads, whatever the files say and whichever
\* loggers there are.
THEOREM LoadsApply == SettingsSpec => []LoadApplies
  <1>1. SettingsIInv => LoadApplies
    <2>1. SUFFICES ASSUME SettingsIInv PROVE LoadApplies
      OBVIOUS
    <2>2. DOMAIN value = DOMAIN Defaults
      BY <2>1 DEF SettingsIInv, SettingsTypeOK
    <2>3. applied => AsInFile
      BY <2>1 DEF SettingsIInv, Recorded
    <2>4. \A v \in DOMAIN Defaults \ clashed : Setting(v) = {} => Follows(v)
      BY <2>1 DEF SettingsIInv, Listeners
    <2> QED
      BY <2>2, <2>3, <2>4 DEF LoadApplies
  <1> QED
    BY <1>1, SettingsInductive, PTL

=============================================================================
