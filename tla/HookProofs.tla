----------------------------- MODULE HookProofs -----------------------------
(***************************************************************************)
(* What holds of the calls that wait (hook.cc), for any fibers that use    *)
(* the socket, any number of calls and of threads, and whatever the clock, *)
(* the peer and close() do.                                                *)
(***************************************************************************)
EXTENDS Hook, SequenceLemmas, TLAPS

-----------------------------------------------------------------------------
(* The inductive invariant.                                                *)

Begun ==
  \A f \in Fibers :
    /\ pc[f] # "out" => call[f] \in Nat \ {0} /\ attempt[f] \in Nat \ {0}
    /\ pc[f] = "arm" => f \in Timed

\* A fiber that waits is registered for its event, or in the queue, and it is there
\* once.
Registration ==
  \A e \in Events : ctx[e] # NoFiber => e = EventOf[ctx[e]] /\ pc[ctx[e]] = "wait"
FibersOnce(q) == \A i, j \in DOMAIN q : q[i] = q[j] /\ q[i] \in Fibers => i = j

Waiting ==
  \A f \in Fibers :
    pc[f] = "wait" => ctx[EventOf[f]] = f \/ f \in ToSet(queue)
Queued ==
  /\ \A f \in Fibers : f \in ToSet(queue) => pc[f] = "wait" /\ ctx[EventOf[f]] # f
  /\ FibersOnce(queue)

\* A timer that is armed is that of the attempt its fiber is making.
Armed ==
  \A tm \in m_timers :
    tm = Timer(tm[1]) /\ pc[tm[1]] \in {"register", "wait", "woken"}

\* A timer that has come due belongs to this call of its fiber, whose time has come
\* then, or to an earlier one; a call is cancelled by a timer of its own.
Lapsed ==
  /\ \A tm \in Timers : tm \in due \cup ToSet(queue) =>
       tm[2] <= call[tm[1]] /\ (tm[2] = call[tm[1]] => lapsed[tm[1]])
  /\ \A f \in Fibers : cancelled[f] => lapsed[f]
  /\ \A f \in Fibers : pc[f] = "out" /\ result[f] = "timeout" => lapsed[f]
  /\ \A tm \in cancelling :
       tm[2] <= call[tm[1]] /\ (tm[2] = call[tm[1]] => cancelled[tm[1]])

\* What one thread adds.  While it runs a fiber no close() is under way, and none
\* leaves a fiber registered.
Alone ==
  threads = 1 =>
    /\ \A f \in Fibers :
         pc[f] \notin {"out", "wait"} => fd \notin {"cancelled", "deleted"}
    /\ fd # "open" => Registered = {}

\* A fiber that is about to wait, or registered, is not cancelled, unless the
\* callback that did it is about to cancel the event; and its timer is under way.
Cancellable ==
  threads = 1 => \A f \in Fibers :
    /\ pc[f] \in {"try", "arm", "register"} => ~cancelled[f]
    /\ ctx[EventOf[f]] = f /\ cancelled[f] => \E tm \in cancelling : tm[1] = f
    /\ f \in Timed /\ (pc[f] = "register" \/ ctx[EventOf[f]] = f) =>
         Timer(f) \in m_timers \cup cancelling \cup ToSet(queue)

\* A connect() that has been woken timed out, has its connection, or close() has
\* begun.
Woken(f) == pc[f] \in {"woken", "check"} \/ (pc[f] = "wait" /\ ctx[EventOf[f]] # f)
Reasons ==
  threads = 1 => \A f \in Fibers :
    InConnect(f) /\ Woken(f) => cancelled[f] \/ EventOf[f] \in ready \/ fd # "open"

HookIInv ==
  /\ TypeOK /\ IsFiniteSet(m_timers) /\ IsFiniteSet(cancelling)
  /\ Begun /\ Registration /\ Waiting /\ Queued /\ Armed /\ Lapsed
  /\ Alone /\ Cancellable /\ Reasons

-----------------------------------------------------------------------------
(* Timers and sets of them.                                                *)

LEMMA TimerParts ==
  ASSUME NEW tm \in Timers
  PROVE  /\ tm[1] \in Timed /\ tm[1] \in Fibers
         /\ tm[2] \in 1..CallsOf[tm[1]] /\ tm[3] \in 1..MaxAttempts
         /\ tm[2] \in Nat /\ tm \notin Fibers
  <1>1. PICK f \in Timed : tm \in {f} \X (1..CallsOf[f]) \X (1..MaxAttempts)
    BY DEF Timers
  <1>2. f \in Fibers /\ CallsOf[f] \in Nat
    BY HookAssumption
  <1> QED
    BY <1>1, <1>2, HookAssumption

LEMMA TimerOf ==
  ASSUME TypeOK, Begun, NEW f \in Timed, pc[f] # "out"
  PROVE  Timer(f) \in Timers /\ Timer(f)[1] = f /\ Timer(f)[2] = call[f]
  <1>1. f \in Fibers /\ CallsOf[f] \in Nat /\ MaxAttempts \in Nat
    BY HookAssumption
  <1>2. call[f] \in 1..CallsOf[f] /\ attempt[f] \in 1..MaxAttempts
    BY <1>1 DEF TypeOK, Begun
  <1>3. Timer(f) \in {f} \X (1..CallsOf[f]) \X (1..MaxAttempts)
    BY <1>2 DEF Timer
  <1>4. Timer(f) \in Timers
    BY <1>3 DEF Timers
  <1> QED
    BY <1>4 DEF Timer

LEMMA EventsOf ==
  ASSUME NEW f \in Fibers
  PROVE  EventOf[f] \in Events /\ \A g \in Fibers : EventOf[g] = EventOf[f] => g = f
  BY HookAssumption DEF Events

\* With one thread, whoever needs a free one finds nobody in the middle of anything.
LEMMA FreeAlone ==
  ASSUME TypeOK, IsFiniteSet(cancelling), threads = 1, Free
  PROVE  /\ \A f \in Fibers : pc[f] \in {"out", "wait"}
         /\ cancelling = {}
         /\ fd \notin {"cancelled", "deleted"}
  <1> DEFINE busy == {f \in Fibers : pc[f] \notin {"out", "wait"}}
  <1>1. IsFiniteSet(busy) /\ Cardinality(busy) \in Nat /\ Cardinality(cancelling) \in Nat
    <2>1. busy \subseteq Fibers
      OBVIOUS
    <2> HIDE DEF busy
    <2> QED
      BY <2>1, HookAssumption, FS_Subset, FS_CardinalityType
  <1>2. Cardinality(busy) + Cardinality(cancelling)
          + (IF fd \in {"cancelled", "deleted"} THEN 1 ELSE 0) < 1
    BY DEF Free, Executing
  <1> HIDE DEF busy
  <1>3. Cardinality(busy) = 0 /\ Cardinality(cancelling) = 0
        /\ fd \notin {"cancelled", "deleted"}
    BY <1>1, <1>2
  <1>4. busy = {} /\ cancelling = {}
    BY <1>1, <1>3, FS_EmptySet
  <1> QED
    BY <1>3, <1>4 DEF busy


-----------------------------------------------------------------------------
(* The queue.                                                              *)

LEMMA PopQueue ==
  ASSUME NEW q \in Seq(Fibers \cup Timers), q # <<>>, FibersOnce(q)
  PROVE  /\ Head(q) \in Fibers \cup Timers /\ Tail(q) \in Seq(Fibers \cup Timers)
         /\ ToSet(q) = ToSet(Tail(q)) \cup {Head(q)}
         /\ FibersOnce(Tail(q))
         /\ Head(q) \in Fibers => Head(q) \notin ToSet(Tail(q))
  <1> DEFINE t == Tail(q)
             n == Len(q)
  <1>1. /\ Head(q) \in Fibers \cup Timers /\ t \in Seq(Fibers \cup Timers)
        /\ ToSet(q) = ToSet(t) \cup {Head(q)}
    BY HeadTailEntries
  <1>2. /\ Len(t) = n - 1 /\ n \in Nat \ {0} /\ DOMAIN q = 1..n
        /\ \A i \in 1..(n - 1) : t[i] = q[i + 1]
        /\ Head(q) = q[1]
    BY HeadTailProperties, LenProperties, EmptySeq
  <1> HIDE DEF t
  <1>3. DOMAIN t = 1..(n - 1)
    BY <1>1, <1>2, LenProperties
  <1> HIDE DEF n
  <1>4. \A i \in DOMAIN t : i + 1 \in DOMAIN q /\ i + 1 # 1 /\ t[i] = q[i + 1]
    BY <1>2, <1>3
  <1>5. FibersOnce(t)
    <2>1. ASSUME NEW i \in DOMAIN t, NEW j \in DOMAIN t, t[i] = t[j], t[i] \in Fibers
          PROVE  i = j
      <3>1. i + 1 = j + 1
        BY <1>4, <2>1 DEF FibersOnce
      <3> QED
        BY <1>2, <1>3, <3>1
    <2> QED
      BY <2>1 DEF FibersOnce
  <1>6. ASSUME Head(q) \in Fibers PROVE Head(q) \notin ToSet(t)
    <2>1. 1 \in DOMAIN q
      BY <1>2
    <2> QED
      BY <1>2, <1>4, <1>6, <2>1 DEF FibersOnce, ToSet
  <1> QED
    BY <1>1, <1>5, <1>6 DEF t

LEMMA PushQueue ==
  ASSUME NEW q \in Seq(Fibers \cup Timers), NEW s \in Seq(Fibers \cup Timers),
         FibersOnce(q), FibersOnce(s), ToSet(q) \cap ToSet(s) \cap Fibers = {}
  PROVE  /\ q \o s \in Seq(Fibers \cup Timers)
         /\ ToSet(q \o s) = ToSet(q) \cup ToSet(s)
         /\ FibersOnce(q \o s)
  <1> DEFINE u == q \o s
             m == Len(q)
             n == Len(s)
  <1>1. u \in Seq(Fibers \cup Timers) /\ ToSet(u) = ToSet(q) \cup ToSet(s)
    BY ConcatEntries
  <1>2. /\ Len(u) = m + n /\ m \in Nat /\ n \in Nat
        /\ \A i \in 1..(m + n) : u[i] = IF i <= m THEN q[i] ELSE s[i - m]
        /\ DOMAIN q = 1..m /\ DOMAIN s = 1..n
    BY ConcatProperties, LenProperties
  <1> HIDE DEF u
  <1>3. DOMAIN u = 1..(m + n)
    BY <1>1, <1>2, LenProperties
  <1> HIDE DEF m, n
  <1>4. \A i \in DOMAIN u :
          \/ i \in 1..m /\ u[i] = q[i]
          \/ i - m \in 1..n /\ u[i] = s[i - m]
    BY <1>2, <1>3
  <1>5. FibersOnce(u)
    <2> SUFFICES ASSUME NEW i \in DOMAIN u, NEW j \in DOMAIN u, u[i] = u[j],
                        u[i] \in Fibers
                 PROVE  i = j
      BY DEF FibersOnce
    <2>1. \A k \in 1..m, l \in 1..n : q[k] \in Fibers => q[k] # s[l]
      BY <1>2 DEF ToSet
    <2>2. CASE i \in 1..m /\ u[i] = q[i] /\ j \in 1..m /\ u[j] = q[j]
      BY <1>2, <2>2 DEF FibersOnce
    <2>3. CASE i - m \in 1..n /\ u[i] = s[i - m] /\ j - m \in 1..n /\ u[j] = s[j - m]
      <3>1. i - m = j - m
        BY <1>2, <2>3 DEF FibersOnce
      <3> QED
        BY <1>2, <1>3, <3>1
    <2> QED
      BY <1>4, <2>1, <2>2, <2>3
  <1> QED
    BY <1>1, <1>5 DEF u

\* Some of those that are registered go to the queue.
LEMMA TriggerEffect ==
  ASSUME HookIInv, NEW events \in SUBSET Registered, Trigger(events), UNCHANGED pc
  PROVE  /\ ctx' \in [Events -> Fibers \cup {NoFiber}]
         /\ queue' \in Seq(Fibers \cup Timers)
         /\ \A tm \in Timers : tm \in ToSet(queue') <=> tm \in ToSet(queue)
         /\ \A e \in Events : ctx'[e] = IF e \in events THEN NoFiber ELSE ctx[e]
         /\ Registration' /\ Waiting' /\ Queued'
  <1> DEFINE S == {ctx[e] : e \in events}
  <1>1. events \subseteq Events /\ ctx \in [Events -> Fibers \cup {NoFiber}]
        /\ \A e \in events : ctx[e] # NoFiber
    BY DEF Registered, HookIInv, TypeOK
  <1>2. /\ \A e \in Events : ctx'[e] = IF e \in events THEN NoFiber ELSE ctx[e]
        /\ ctx' \in [Events -> Fibers \cup {NoFiber}]
    BY <1>1 DEF Trigger
  <1>3. S \subseteq Fibers /\ IsFiniteSet(S)
    <2>1. S \subseteq Fibers
      BY <1>1
    <2> HIDE DEF S
    <2> QED
      BY <2>1, HookAssumption, FS_Subset
  <1>4. PICK s : s = SetToSeq(S)
    OBVIOUS
  <1>5. queue' = queue \o s
    BY <1>4 DEF Trigger
  <1>6. \A f \in Fibers : f \in S <=> EventOf[f] \in events /\ ctx[EventOf[f]] = f
    BY <1>1, EventsOf, HookAssumption DEF HookIInv, Registration
  <1> HIDE DEF S
  <1>7. s \in Seq(Fibers \cup Timers) /\ ToSet(s) = S /\ FibersOnce(s)
    <2>1. s \in Seq(S) /\ ToSet(s) = S /\ IsInjective(s)
      BY <1>3, <1>4, SetToSeqLists
    <2>2. s \in Seq(Fibers \cup Timers)
      BY <1>3, <2>1
    <2> QED
      BY <2>1, <2>2 DEF IsInjective, FibersOnce
  <1>8. /\ queue' \in Seq(Fibers \cup Timers)
        /\ ToSet(queue') = ToSet(queue) \cup S
        /\ FibersOnce(queue')
    <2>1. ToSet(queue) \cap ToSet(s) \cap Fibers = {}
      BY <1>6, <1>7 DEF HookIInv, Queued
    <2> QED
      BY <1>5, <1>7, <2>1, PushQueue DEF HookIInv, TypeOK, Queued
  <1>9. \A tm \in Timers : tm \notin S
    BY <1>3, TimerParts
  <1>10. Registration'
    BY <1>2 DEF HookIInv, Registration
  <1>11. Waiting'
    BY <1>2, <1>6, <1>8, EventsOf DEF HookIInv, Waiting
  <1>12. Queued'
    BY <1>1, <1>2, <1>6, <1>8, EventsOf, HookAssumption DEF HookIInv, Queued, Registration, FibersOnce
  <1> QED
    BY <1>2, <1>8, <1>9, <1>10, <1>11, <1>12

-----------------------------------------------------------------------------
(* Every step preserves it: the calls first.                               *)

LEMMA EnterIInv ==
  ASSUME HookIInv, NEW f \in Fibers, Enter(f)
  PROVE  HookIInv'
  <1> USE DEF Goto, Returns
  <1>1. /\ Free /\ call[f] < CallsOf[f] /\ pc[f] = "out"
        /\ call' = [call EXCEPT ![f] = @ + 1] /\ attempt' = [attempt EXCEPT ![f] = 1]
        /\ cancelled' = [cancelled EXCEPT ![f] = FALSE]
        /\ lapsed' = [lapsed EXCEPT ![f] = FALSE]
        /\ UNCHANGED <<threads, m_timers, due, queue, cancelling, ctx, fd>>
    BY DEF Enter
  <1>2. /\ \E to \in {"try", "out"} :
             /\ pc' = [pc EXCEPT ![f] = to]
             /\ to = "out" => \E how \in {"ok", "error"} : result' = [result EXCEPT ![f] = how]
             /\ to = "try" => UNCHANGED result
        /\ ready' \in {ready, ready \ {EventOf[f]}}
    BY DEF Enter
  <1>3. /\ call[f] \in Nat /\ CallsOf[f] \in Nat
        /\ call[f] + 1 \in Nat \ {0} /\ call[f] + 1 <= CallsOf[f]
    <2>1. call[f] \in Nat /\ CallsOf[f] \in Nat
      BY HookAssumption DEF HookIInv, TypeOK
    <2> QED
      BY <1>1, <2>1
  <1>4. TypeOK'
    <2>1. call' \in [Fibers -> Nat] /\ \A g \in Fibers : call'[g] <= CallsOf[g]
      BY <1>1, <1>3 DEF HookIInv, TypeOK
    <2>2. attempt' \in [Fibers -> 0..MaxAttempts]
      BY <1>1, HookAssumption DEF HookIInv, TypeOK
    <2>3. pc' \in [Fibers -> Labels] /\ result' \in [Fibers -> {"none", "ok", "timeout", "error"}]
      BY <1>2 DEF HookIInv, TypeOK, Labels
    <2>4. cancelled' \in [Fibers -> BOOLEAN] /\ lapsed' \in [Fibers -> BOOLEAN]
          /\ ready' \subseteq Events
      BY <1>1, <1>2 DEF HookIInv, TypeOK
    <2> QED
      BY <1>1, <2>1, <2>2, <2>3, <2>4 DEF HookIInv, TypeOK
  <1>5. Begun'
    BY <1>1, <1>2, <1>3 DEF HookIInv, TypeOK, Begun
  <1>6. Registration' /\ Waiting' /\ Queued'
    BY <1>1, <1>2 DEF HookIInv, TypeOK, Registration, Waiting, Queued
  <1>7. Armed'
    BY <1>1, <1>2, TimerParts DEF HookIInv, TypeOK, Armed, Timer
  <1>8. Lapsed'
    <2>1. \A tm \in Timers : tm \in due \cup cancelling \cup ToSet(queue) /\ tm[1] = f =>
            tm[2] <= call'[f] /\ tm[2] # call'[f]
      BY <1>1, <1>3, TimerParts DEF HookIInv, TypeOK, Lapsed
    <2>2. \A tm \in Timers : tm[1] \in Fibers
      BY TimerParts
    <2>3. cancelling \subseteq Timers
      BY DEF HookIInv, TypeOK
    <2> QED
      BY <1>1, <1>2, <2>1, <2>2, <2>3 DEF HookIInv, TypeOK, Lapsed
  <1>9. Alone'
    BY <1>1, <1>2, FreeAlone DEF HookIInv, TypeOK, Alone, Registered
  <1>10. Cancellable'
    <2>1. \A g \in Fibers : ctx[EventOf[g]] = g => g # f
      BY <1>1, EventsOf, HookAssumption DEF HookIInv, Registration
    <2>2. pc'[f] \notin {"arm", "register"} /\ ~cancelled'[f]
      BY <1>1, <1>2 DEF HookIInv, TypeOK
    <2>3. \A g \in Fibers \ {f} : UNCHANGED <<pc[g], cancelled[g], Timer(g)>>
      BY <1>1, <1>2 DEF HookIInv, TypeOK, Timer
    <2> QED
      BY <1>1, <2>1, <2>2, <2>3 DEF HookIInv, Cancellable
  <1>11. Reasons'
    BY <1>1, <1>2, EventsOf DEF HookIInv, TypeOK, Reasons, Woken, InConnect
  <1> QED
    BY <1>1, <1>4, <1>5, <1>6, <1>7, <1>8, <1>9, <1>10, <1>11 DEF HookIInv

LEMMA TryIInv ==
  ASSUME HookIInv, NEW f \in Fibers, Try(f)
  PROVE  HookIInv'
  <1>1. /\ pc[f] = "try" /\ ready' \in {ready, ready \ {EventOf[f]}}
        /\ UNCHANGED <<threads, call, attempt, cancelled, timerVars, queue, cancelling,
                       ctx, fd>>
        /\ \E to \in {"out", "arm", "register"} :
             /\ pc' = [pc EXCEPT ![f] = to]
             /\ to = "out" => \E how \in {"ok", "error"} : result' = [result EXCEPT ![f] = how]
             /\ to # "out" => UNCHANGED result
             /\ IF f \in Timed THEN to # "register" ELSE to # "arm"
    BY DEF Try, Goto, Returns
  <1>2. TypeOK'
    <2>1. /\ pc' \in [Fibers -> Labels] /\ ready' \subseteq Events
          /\ result' \in [Fibers -> {"none", "ok", "timeout", "error"}]
      BY <1>1 DEF HookIInv, TypeOK, Labels
    <2> QED
      BY <1>1, <2>1 DEF HookIInv, TypeOK, timerVars
  <1>3. Begun' /\ Registration' /\ Waiting' /\ Queued'
    BY <1>1 DEF HookIInv, TypeOK, Begun, Registration, Waiting, Queued
  <1>4. Armed' /\ Lapsed'
    <2>1. \A tm \in m_timers : tm[1] # f
      BY <1>1 DEF HookIInv, Armed
    <2> QED
      BY <1>1, <2>1, TimerParts DEF HookIInv, TypeOK, Armed, Lapsed, Timer, timerVars
  <1>5. Alone'
    BY <1>1 DEF HookIInv, TypeOK, Alone, Registered
  <1>6. Cancellable'
    <2>1. \A g \in Fibers : Timer(g)' = Timer(g)
      BY <1>1 DEF Timer
    <2>2. \A g \in Fibers : \/ pc'[g] = pc[g]
                             \/ /\ g = f
                                /\ pc'[g] = "register" => g \notin Timed
      BY <1>1 DEF HookIInv, TypeOK
    <2>3. UNCHANGED <<threads, ctx, cancelled, cancelling, m_timers, queue>>
      BY <1>1 DEF timerVars
    <2> QED
      BY <1>1, <2>1, <2>2, <2>3 DEF HookIInv, Cancellable
  <1>7. Reasons'
    BY <1>1, EventsOf DEF HookIInv, TypeOK, Reasons, Woken, InConnect
  <1> QED
    BY <1>1, <1>2, <1>3, <1>4, <1>5, <1>6, <1>7 DEF HookIInv, timerVars

LEMMA ArmIInv ==
  ASSUME HookIInv, NEW f \in Fibers, Arm(f)
  PROVE  HookIInv'
  <1>1. /\ pc[f] = "arm" /\ pc' = [pc EXCEPT ![f] = "register"]
        /\ m_timers' = m_timers \cup {Timer(f)}
        /\ UNCHANGED <<threads, call, attempt, cancelled, result, due, lapsed, queue,
                       cancelling, ctx, ready, fd>>
    BY DEF Arm, Goto
  <1> f \in Timed
    BY <1>1 DEF HookIInv, Begun
  <1>2. Timer(f) \in Timers /\ Timer(f)[1] = f
    BY <1>1, TimerOf DEF HookIInv
  <1>3. TypeOK' /\ IsFiniteSet(m_timers')
    BY <1>1, <1>2, FS_AddElement DEF HookIInv, TypeOK, Labels
  <1>4. Begun' /\ Registration' /\ Waiting' /\ Queued'
    BY <1>1 DEF HookIInv, TypeOK, Begun, Registration, Waiting, Queued
  <1>5. Armed' /\ Lapsed'
    <2>1. UNCHANGED Timer(f) /\ \A tm \in m_timers : UNCHANGED Timer(tm[1])
      BY <1>1 DEF Timer
    <2>2. Armed'
      BY <1>1, <1>2, <2>1, TimerParts DEF HookIInv, TypeOK, Armed
    <2> QED
      BY <1>1, <2>2 DEF HookIInv, TypeOK, Lapsed
  <1>6. Alone'
    BY <1>1 DEF HookIInv, TypeOK, Alone, Registered
  <1>7. Cancellable'
    BY <1>1 DEF HookIInv, TypeOK, Cancellable, Timer
  <1>8. Reasons'
    BY <1>1 DEF HookIInv, TypeOK, Reasons, Woken, InConnect
  <1> QED
    BY <1>1, <1>3, <1>4, <1>5, <1>6, <1>7, <1>8 DEF HookIInv

LEMMA RegisterIInv ==
  ASSUME HookIInv, NEW f \in Fibers, Register(f)
  PROVE  HookIInv'
  <1>0. UNCHANGED <<threads, call, attempt, cancelled, queue, cancelling, ready, fd>>
    BY DEF Register
  <1>1. CASE fd # "closed"
    <2>1. /\ pc[f] = "register" /\ pc' = [pc EXCEPT ![f] = "wait"]
          /\ ctx' = [ctx EXCEPT ![EventOf[f]] = f]
          /\ UNCHANGED <<result, m_timers, due, lapsed>>
      BY <1>1 DEF Register, Goto, timerVars
    <2>2. EventOf[f] \in Events /\ f # NoFiber /\ f \notin ToSet(queue)
      BY <2>1, EventsOf, HookAssumption DEF HookIInv, Queued
    <2>3. TypeOK'
      BY <1>0, <2>1 DEF HookIInv, TypeOK, Labels
    <2>4. Begun' /\ Registration' /\ Waiting'
      BY <1>0, <2>1, <2>2, EventsOf DEF HookIInv, TypeOK, Begun, Registration, Waiting
    <2>5. Queued'
      BY <1>0, <2>1, <2>2, EventsOf DEF HookIInv, TypeOK, Queued, FibersOnce
    <2>6. Armed' /\ Lapsed'
      BY <1>0, <2>1, TimerParts DEF HookIInv, TypeOK, Armed, Lapsed, Timer
    <2>7. Alone'
      <3>1. threads = 1 => fd = "open"
        BY <1>1, <2>1 DEF HookIInv, TypeOK, Alone
      <3> QED
        BY <1>0, <2>1, <3>1 DEF HookIInv, TypeOK, Alone
    <2>8. Cancellable'
      BY <1>0, <2>1, <2>2, EventsOf DEF HookIInv, TypeOK, Cancellable, Timer
    <2>9. Reasons'
      BY <1>0, <2>1, <2>2, EventsOf DEF HookIInv, TypeOK, Reasons, Woken, InConnect
    <2> QED
      BY <1>0, <2>1, <2>3, <2>4, <2>5, <2>6, <2>7, <2>8, <2>9 DEF HookIInv
  <1>2. CASE fd = "closed"
    <2>1. /\ pc[f] = "register" /\ pc' = [pc EXCEPT ![f] = "out"]
          /\ result' = [result EXCEPT ![f] = "error"]
          /\ m_timers' = m_timers \ {Timer(f)} /\ due' = due \ {Timer(f)}
          /\ UNCHANGED <<lapsed, ctx>>
      BY <1>2 DEF Register, Returns, Goto
    <2>2. TypeOK' /\ IsFiniteSet(m_timers')
      BY <1>0, <2>1, FS_RemoveElement DEF HookIInv, TypeOK, Labels
    <2>3. Begun' /\ Registration' /\ Waiting' /\ Queued'
      BY <1>0, <2>1 DEF HookIInv, TypeOK, Begun, Registration, Waiting, Queued
    <2>4. Armed' /\ Lapsed'
      BY <1>0, <2>1, TimerParts DEF HookIInv, TypeOK, Armed, Lapsed, Timer
    <2>5. Alone'
      BY <1>0, <2>1 DEF HookIInv, TypeOK, Alone, Registered
    <2>6. Cancellable'
      <3>1. \A g \in Fibers : ctx[EventOf[g]] = g => g # f
        BY <2>1, EventsOf, HookAssumption DEF HookIInv, Registration
      <3>2. \A g \in Fibers \ {f} : UNCHANGED <<pc[g], Timer(g)>> /\ Timer(g) # Timer(f)
        BY <1>0, <2>1 DEF HookIInv, TypeOK, Timer
      <3>3. pc'[f] = "out"
        BY <2>1 DEF HookIInv, TypeOK
      <3> QED
        BY <1>0, <2>1, <3>1, <3>2, <3>3 DEF HookIInv, Cancellable
    <2>7. Reasons'
      BY <1>0, <2>1 DEF HookIInv, TypeOK, Reasons, Woken, InConnect
    <2> QED
      BY <1>0, <2>1, <2>2, <2>3, <2>4, <2>5, <2>6, <2>7 DEF HookIInv
  <1> QED
    BY <1>1, <1>2

LEMMA ResumeIInv ==
  ASSUME HookIInv, NEW f \in Fibers, Resume(f)
  PROVE  HookIInv'
  <1>1. /\ Free /\ queue # <<>> /\ Head(queue) = f /\ queue' = Tail(queue)
        /\ pc[f] = "wait" /\ pc' = [pc EXCEPT ![f] = "woken"]
        /\ UNCHANGED <<threads, call, attempt, cancelled, result, m_timers, due, lapsed,
                       cancelling, ctx, ready, fd>>
    BY DEF Resume, Goto, timerVars
  <1>2. /\ queue' \in Seq(Fibers \cup Timers) /\ FibersOnce(queue')
        /\ ToSet(queue) = ToSet(queue') \cup {f} /\ f \notin ToSet(queue')
    BY <1>1, PopQueue DEF HookIInv, TypeOK, Queued
  <1>3. ctx[EventOf[f]] # f
    BY <1>2 DEF HookIInv, Queued
  <1>4. TypeOK'
    BY <1>1, <1>2 DEF HookIInv, TypeOK, Labels
  <1>5. Begun' /\ Registration'
    BY <1>1, <1>3, EventsOf, HookAssumption DEF HookIInv, TypeOK, Begun, Registration
  <1>6. Waiting' /\ Queued'
    BY <1>1, <1>2, <1>3 DEF HookIInv, TypeOK, Waiting, Queued, FibersOnce
  <1>7. Armed' /\ Lapsed'
    BY <1>1, <1>2, TimerParts DEF HookIInv, TypeOK, Armed, Lapsed, Timer
  <1>8. Alone'
    BY <1>1, FreeAlone DEF HookIInv, TypeOK, Alone, Registered
  <1>9. Cancellable'
    <2>1. \A g \in Timed : pc[g] # "out" => Timer(g) \notin Fibers
      BY TimerOf, TimerParts DEF HookIInv
    <2>2. \A g \in Fibers : pc[g] = "register" \/ ctx[EventOf[g]] = g => pc[g] # "out"
      BY EventsOf, HookAssumption DEF HookIInv, Registration
    <2>3. \A g \in Fibers : UNCHANGED Timer(g)
      BY <1>1 DEF Timer
    <2>4. \A g \in Fibers : pc'[g] \in {"try", "arm", "register"} => pc'[g] = pc[g]
      BY <1>1 DEF HookIInv, TypeOK
    <2> QED
      BY <1>1, <1>2, <2>1, <2>2, <2>3, <2>4 DEF HookIInv, Cancellable
  <1>10. Reasons'
    BY <1>1, <1>3 DEF HookIInv, TypeOK, Reasons, Woken, InConnect
  <1> QED
    BY <1>1, <1>4, <1>5, <1>6, <1>7, <1>8, <1>9, <1>10 DEF HookIInv

LEMMA CancelTimerIInv ==
  ASSUME HookIInv, NEW f \in Fibers, CancelTimer(f)
  PROVE  HookIInv'
  <1>1. /\ pc[f] = "woken" /\ pc' = [pc EXCEPT ![f] = "check"]
        /\ m_timers' = m_timers \ {Timer(f)} /\ due' = due \ {Timer(f)}
        /\ UNCHANGED <<threads, call, attempt, cancelled, result, lapsed, queue,
                       cancelling, ctx, ready, fd>>
    BY DEF CancelTimer, Goto
  <1>2. TypeOK' /\ IsFiniteSet(m_timers')
    BY <1>1, FS_RemoveElement DEF HookIInv, TypeOK, Labels
  <1>3. Begun' /\ Registration' /\ Waiting' /\ Queued'
    BY <1>1 DEF HookIInv, TypeOK, Begun, Registration, Waiting, Queued
  <1>4. Armed' /\ Lapsed'
    BY <1>1, TimerParts DEF HookIInv, TypeOK, Armed, Lapsed, Timer
  <1>5. Alone'
    BY <1>1 DEF HookIInv, TypeOK, Alone, Registered
  <1>6. Cancellable'
    <2>1. \A g \in Fibers : ctx[EventOf[g]] = g => g # f
      BY <1>1, EventsOf, HookAssumption DEF HookIInv, Registration
    <2>2. \A g \in Fibers \ {f} : UNCHANGED <<pc[g], Timer(g)>> /\ Timer(g) # Timer(f)
      BY <1>1 DEF HookIInv, TypeOK, Timer
    <2>3. pc'[f] = "check"
      BY <1>1 DEF HookIInv, TypeOK
    <2> QED
      BY <1>1, <2>1, <2>2, <2>3 DEF HookIInv, Cancellable
  <1>7. Reasons'
    BY <1>1 DEF HookIInv, TypeOK, Reasons, Woken, InConnect
  <1> QED
    BY <1>1, <1>2, <1>3, <1>4, <1>5, <1>6, <1>7 DEF HookIInv

LEMMA CheckIInv ==
  ASSUME HookIInv, NEW f \in Fibers, Check(f)
  PROVE  HookIInv'
  <1>1. /\ pc[f] = "check"
        /\ UNCHANGED <<threads, call, cancelled, m_timers, due, lapsed, queue, cancelling,
                       ctx, ready, fd>>
        /\ \/ /\ pc' = [pc EXCEPT ![f] = "out"] /\ UNCHANGED attempt
              /\ \E how \in {"timeout", "ok", "error"} :
                   /\ result' = [result EXCEPT ![f] = how]
                   /\ how = "timeout" => cancelled[f]
           \/ /\ pc' = [pc EXCEPT ![f] = "try"] /\ ~cancelled[f]
              /\ attempt[f] < MaxAttempts
              /\ attempt' = [attempt EXCEPT ![f] = @ + 1] /\ UNCHANGED result
    BY DEF Check, Returns, Goto, timerVars
  <1>2. attempt[f] \in 0..MaxAttempts /\ MaxAttempts \in Nat
    BY HookAssumption DEF HookIInv, TypeOK
  <1>3. TypeOK'
    <2>1. pc' \in [Fibers -> Labels] /\ result' \in [Fibers -> {"none", "ok", "timeout", "error"}]
      <3>1. PICK to \in {"out", "try"} : pc' = [pc EXCEPT ![f] = to]
        BY <1>1
      <3>2. to \in Labels
        BY DEF Labels
      <3>3. \/ UNCHANGED result
            \/ \E how \in {"timeout", "ok", "error"} : result' = [result EXCEPT ![f] = how]
        BY <1>1
      <3> QED
        BY <3>1, <3>2, <3>3 DEF HookIInv, TypeOK
    <2>2. attempt' \in [Fibers -> 0..MaxAttempts]
      <3>1. attempt[f] < MaxAttempts => attempt[f] + 1 \in 0..MaxAttempts
        BY <1>2
      <3> QED
        BY <1>1, <3>1 DEF HookIInv, TypeOK
    <2> QED
      BY <1>1, <2>1, <2>2 DEF HookIInv, TypeOK
  <1>4. Begun'
    <2>1. attempt[f] + 1 \in Nat \ {0}
      BY <1>2
    <2> QED
      BY <1>1, <2>1 DEF HookIInv, TypeOK, Begun
  <1>5. Registration' /\ Waiting' /\ Queued'
    BY <1>1 DEF HookIInv, TypeOK, Registration, Waiting, Queued
  <1>6. Armed' /\ Lapsed'
    <2>1. \A tm \in m_timers : tm[1] # f
      BY <1>1 DEF HookIInv, Armed
    <2>2. \A g \in Fibers \ {f} : UNCHANGED <<pc[g], Timer(g), result[g]>>
      BY <1>1 DEF HookIInv, TypeOK, Timer
    <2>3. Armed'
      BY <1>1, <2>1, <2>2, TimerParts DEF HookIInv, TypeOK, Armed
    <2>4. result'[f] = "timeout" /\ pc'[f] = "out" => cancelled[f]
      BY <1>1 DEF HookIInv, TypeOK
    <2> QED
      BY <1>1, <2>2, <2>3, <2>4 DEF HookIInv, Lapsed
  <1>7. Alone'
    BY <1>1 DEF HookIInv, TypeOK, Alone, Registered
  <1>8. Cancellable'
    <2>1. \A g \in Fibers : ctx[EventOf[g]] = g => g # f
      BY <1>1, EventsOf, HookAssumption DEF HookIInv, Registration
    <2>2. \A g \in Fibers \ {f} : UNCHANGED <<pc[g], Timer(g)>>
      BY <1>1 DEF HookIInv, TypeOK, Timer
    <2>3. pc'[f] = "out" \/ (pc'[f] = "try" /\ ~cancelled[f])
      BY <1>1 DEF HookIInv, TypeOK
    <2> QED
      BY <1>1, <2>1, <2>2, <2>3 DEF HookIInv, Cancellable
  <1>9. Reasons'
    BY <1>1 DEF HookIInv, TypeOK, Reasons, Woken, InConnect
  <1> QED
    BY <1>1, <1>3, <1>4, <1>5, <1>6, <1>7, <1>8, <1>9 DEF HookIInv

-----------------------------------------------------------------------------
(* The callback of a timer.                                                *)

LEMMA CallbackIInv ==
  ASSUME HookIInv, NEW tm \in Timers, Callback(tm)
  PROVE  HookIInv'
  <1>1. /\ Free /\ queue # <<>> /\ Head(queue) = tm /\ queue' = Tail(queue)
        /\ IF Alive(tm) /\ ~cancelled[tm[1]]
           THEN /\ cancelled' = [cancelled EXCEPT ![tm[1]] = TRUE]
                /\ cancelling' = cancelling \cup {tm}
           ELSE UNCHANGED <<cancelled, cancelling>>
        /\ UNCHANGED <<threads, pc, call, attempt, result, m_timers, due, lapsed, ctx,
                       ready, fd>>
    BY DEF Callback, timerVars
  <1>2. /\ queue' \in Seq(Fibers \cup Timers) /\ FibersOnce(queue')
        /\ ToSet(queue) = ToSet(queue') \cup {tm}
    BY <1>1, PopQueue DEF HookIInv, TypeOK, Queued
  <1>3. tm[1] \in Fibers /\ tm \notin Fibers
    BY TimerParts
  <1>4. TypeOK' /\ IsFiniteSet(cancelling')
    <2>1. cancelled' \in [Fibers -> BOOLEAN]
      BY <1>1 DEF HookIInv, TypeOK
    <2>2. cancelling' \subseteq Timers /\ IsFiniteSet(cancelling')
      <3>1. cancelling' \in {cancelling, cancelling \cup {tm}}
        BY <1>1
      <3>2. IsFiniteSet(cancelling \cup {tm})
        BY FS_AddElement DEF HookIInv
      <3> QED
        BY <3>1, <3>2 DEF HookIInv, TypeOK
    <2> QED
      BY <1>1, <1>2, <2>1, <2>2 DEF HookIInv, TypeOK
  <1>5. Begun' /\ Registration'
    BY <1>1 DEF HookIInv, Begun, Registration
  <1>6. Waiting' /\ Queued'
    BY <1>1, <1>2, <1>3 DEF HookIInv, Waiting, Queued, FibersOnce
  <1>7. Armed'
    BY <1>1 DEF HookIInv, Armed, Timer
  <1>8. Lapsed'
    <2>1. tm \in ToSet(queue) /\ (Alive(tm) => tm[2] = call[tm[1]] /\ lapsed[tm[1]])
      BY <1>2 DEF HookIInv, Lapsed, Alive
    <2>2. \A g \in Fibers : cancelled'[g] => cancelled[g] \/ (g = tm[1] /\ Alive(tm))
      BY <1>1, <1>3 DEF HookIInv, TypeOK
    <2>3. \A g \in Fibers : cancelled[g] => cancelled'[g]
      BY <1>1 DEF HookIInv, TypeOK
    <2>4. \A tn \in cancelling' :
            tn[2] <= call[tn[1]] /\ (tn[2] = call[tn[1]] => cancelled'[tn[1]])
      <3>1. \A tn \in cancelling : tn[1] \in Fibers
        BY TimerParts DEF HookIInv, TypeOK
      <3>2. CASE Alive(tm) /\ ~cancelled[tm[1]]
        <4>1. cancelled'[tm[1]] /\ tm[2] <= call[tm[1]]
          BY <1>1, <1>3, <2>1, <3>2 DEF HookIInv, TypeOK, Lapsed
        <4> QED
          BY <1>1, <2>3, <3>1, <3>2, <4>1 DEF HookIInv, Lapsed
      <3> QED
        BY <1>1, <3>2 DEF HookIInv, Lapsed
    <2> QED
      BY <1>1, <1>2, <2>1, <2>2, <2>4 DEF HookIInv, Lapsed
  <1>9. Alone'
    BY <1>1 DEF HookIInv, Alone, Registered
  <1>10. Cancellable'
    <2> SUFFICES ASSUME threads = 1, NEW g \in Fibers
                 PROVE  /\ pc[g] \notin {"try", "arm", "register"}
                        /\ ctx[EventOf[g]] = g =>
                             /\ cancelled'[g] => \E tn \in cancelling' : tn[1] = g
                             /\ g \in Timed =>
                                  Timer(g) \in m_timers \cup cancelling' \cup ToSet(queue')
      BY <1>1 DEF Cancellable, Timer
    <2>1. pc[g] \in {"out", "wait"} /\ cancelling = {}
      BY <1>1, FreeAlone DEF HookIInv
    <2>2. ctx[EventOf[g]] = g => pc[g] = "wait" /\ ~cancelled[g]
      BY <2>1, EventsOf, HookAssumption DEF HookIInv, Registration, Cancellable
    <2>3. cancelled'[g] => cancelled[g] \/ (g = tm[1] /\ tm \in cancelling')
      BY <1>1, <1>3 DEF HookIInv, TypeOK
    <2>4. ASSUME ctx[EventOf[g]] = g, g \in Timed, Timer(g) = tm
          PROVE  tm \in cancelling'
      <3>1. tm[1] = g /\ tm[2] = call[g]
        BY <2>4 DEF Timer
      <3> QED
        BY <1>1, <2>2, <2>4, <3>1 DEF Alive
    <2>5. ctx[EventOf[g]] = g /\ g \in Timed =>
            Timer(g) \in m_timers \cup cancelling \cup ToSet(queue)
      BY DEF HookIInv, Cancellable
    <2> QED
      BY <1>1, <1>2, <2>1, <2>2, <2>3, <2>4, <2>5
  <1>11. Reasons'
    <2>1. \A g \in Fibers : cancelled[g] => cancelled'[g]
      BY <1>1 DEF HookIInv, TypeOK
    <2> QED
      BY <1>1, <2>1 DEF HookIInv, Reasons, Woken, InConnect
  <1> QED
    BY <1>1, <1>4, <1>5, <1>6, <1>7, <1>8, <1>9, <1>10, <1>11 DEF HookIInv

LEMMA CancelEventIInv ==
  ASSUME HookIInv, NEW tm \in Timers, CancelEvent(tm)
  PROVE  HookIInv'
  <1> DEFINE e == EventOf[tm[1]]
  <1>1. /\ tm \in cancelling /\ cancelling' = cancelling \ {tm}
        /\ UNCHANGED <<threads, pc, call, attempt, cancelled, result, m_timers, due,
                       lapsed, ready, fd>>
    BY DEF CancelEvent, fiberVars, timerVars
  <1>2. tm[1] \in Fibers /\ e \in Events /\ tm[2] \in Nat \ {0}
    BY TimerParts, EventsOf
  <1>3. /\ ctx' \in [Events -> Fibers \cup {NoFiber}]
        /\ queue' \in Seq(Fibers \cup Timers)
        /\ \A tn \in Timers : tn \in ToSet(queue') <=> tn \in ToSet(queue)
        /\ Registration' /\ Waiting' /\ Queued'
        /\ \A d \in Events : ctx'[d] = ctx[d] \/ (d = e /\ ctx'[d] = NoFiber)
        /\ fd # "closed" => ctx'[e] = NoFiber
    <2>1. CASE e \in Registered /\ fd # "closed"
      BY <1>1, <1>2, <2>1, TriggerEffect DEF CancelEvent
    <2>2. CASE ~(e \in Registered /\ fd # "closed")
      BY <1>1, <1>2, <2>2
      DEF CancelEvent, Registered, HookIInv, TypeOK, Registration, Waiting, Queued, FibersOnce
    <2> QED
      BY <2>1, <2>2
  <1>4. TypeOK' /\ IsFiniteSet(cancelling')
    BY <1>1, <1>3, FS_RemoveElement DEF HookIInv, TypeOK
  <1>5. Begun' /\ Armed'
    BY <1>1 DEF HookIInv, Begun, Armed, Timer
  <1>6. Lapsed'
    BY <1>1, <1>3 DEF HookIInv, Lapsed
  <1>7. Alone'
    BY <1>1, <1>3 DEF HookIInv, Alone, Registered
  <1>8. Cancellable'
    <2> SUFFICES ASSUME threads = 1, NEW g \in Fibers
                 PROVE  /\ pc[g] \in {"try", "arm", "register"} => ~cancelled[g]
                        /\ ctx'[EventOf[g]] = g /\ cancelled[g] =>
                             \E tn \in cancelling' : tn[1] = g
                        /\ g \in Timed /\ (pc[g] = "register" \/ ctx'[EventOf[g]] = g) =>
                             Timer(g) \in m_timers \cup cancelling' \cup ToSet(queue')
      BY <1>1 DEF Cancellable, Timer
    <2>1. ctx'[EventOf[g]] = g => ctx[EventOf[g]] = g /\ g # tm[1]
      <3>1. ctx'[EventOf[g]] = g => ctx[EventOf[g]] = g
        BY <1>3, EventsOf, HookAssumption
      <3>2. fd = "closed" => Registered = {}
        BY DEF HookIInv, Alone
      <3>3. ctx'[e] # tm[1]
        BY <1>2, <1>3, <3>2, HookAssumption DEF Registered, HookIInv, TypeOK
      <3> QED
        BY <3>1, <3>3
    <2>2. /\ pc[g] \in {"try", "arm", "register"} => ~cancelled[g]
          /\ ctx[EventOf[g]] = g /\ cancelled[g] => \E tn \in cancelling : tn[1] = g
          /\ g \in Timed /\ (pc[g] = "register" \/ ctx[EventOf[g]] = g) =>
                Timer(g) \in m_timers \cup cancelling \cup ToSet(queue)
      BY DEF HookIInv, Cancellable
    <2>3. ASSUME g \in Timed, pc[g] = "register" PROVE Timer(g) # tm
      <3>1. ~cancelled[g]
        BY <2>2, <2>3
      <3>2. Timer(g)[1] = g /\ Timer(g)[2] = call[g]
        BY DEF Timer
      <3> QED
        BY <1>1, <3>1, <3>2 DEF HookIInv, Lapsed
    <2>4. g # tm[1] => Timer(g) # tm
      BY DEF Timer
    <2>5. g \in Timed /\ pc[g] # "out" => Timer(g) \in Timers
      BY TimerOf DEF HookIInv
    <2>6. ctx[EventOf[g]] = g => pc[g] = "wait"
      BY EventsOf, HookAssumption DEF HookIInv, Registration
    <2> QED
      BY <1>1, <1>3, <2>1, <2>2, <2>3, <2>4, <2>5, <2>6
  <1>9. Reasons'
    <2> SUFFICES ASSUME threads = 1, NEW g \in Fibers, InConnect(g), Woken(g)'
                 PROVE  cancelled[g] \/ EventOf[g] \in ready \/ fd # "open"
      BY <1>1 DEF Reasons, InConnect
    <2>1. CASE Woken(g)
      BY <2>1 DEF HookIInv, Reasons
    <2>2. CASE ~Woken(g)
      <3>1. g = tm[1]
        BY <1>1, <1>2, <1>3, <2>2, EventsOf DEF Woken
      <3>2. tm[2] = call[g]
        BY <1>1, <1>2, <3>1 DEF HookIInv, Lapsed, InConnect
      <3> QED
        BY <1>1, <3>1, <3>2 DEF HookIInv, Lapsed
    <2> QED
      BY <2>1, <2>2
  <1> QED
    BY <1>1, <1>3, <1>4, <1>5, <1>6, <1>7, <1>8, <1>9 DEF HookIInv

-----------------------------------------------------------------------------
(* Idle threads, close(), the clock and the peer.                          *)

LEMMA ExpireIInv ==
  ASSUME HookIInv, Expire
  PROVE  HookIInv'
  <1>1. /\ m_timers' = m_timers \ due /\ due' = {}
        /\ \E s \in SetToSeqs(due) : queue' = queue \o s
        /\ UNCHANGED <<threads, pc, call, attempt, cancelled, result, lapsed, cancelling,
                       ctx, ready, fd>>
    BY DEF Expire, fiberVars
  <1>2. due \subseteq m_timers /\ m_timers \subseteq Timers /\ IsFiniteSet(due)
    BY FS_Subset DEF HookIInv, TypeOK
  <1>3. PICK s : /\ s \in Seq(Fibers \cup Timers) /\ ToSet(s) = due /\ queue' = queue \o s
    <2>1. PICK s \in SetToSeqs(due) : queue' = queue \o s
      BY <1>1
    <2>2. s \in Seq(due) /\ ToSet(s) = due
      BY <1>2, <2>1, ListsAll DEF SetToSeqs
    <2>3. s \in Seq(Fibers \cup Timers)
      BY <1>2, <2>2
    <2> QED
      BY <2>1, <2>2, <2>3
  <1>4. FibersOnce(s)
    BY <1>2, <1>3, TimerParts DEF FibersOnce, ToSet
  <1>5. ToSet(queue) \cap ToSet(s) \cap Fibers = {}
    BY <1>2, <1>3, TimerParts
  <1>6. /\ queue' \in Seq(Fibers \cup Timers) /\ ToSet(queue') = ToSet(queue) \cup due
        /\ FibersOnce(queue')
    BY <1>3, <1>4, <1>5, PushQueue DEF HookIInv, TypeOK, Queued
  <1>7. TypeOK' /\ IsFiniteSet(m_timers')
    <2>1. IsFiniteSet(m_timers \ due)
      BY FS_Subset DEF HookIInv
    <2> QED
      BY <1>1, <1>6, <2>1 DEF HookIInv, TypeOK
  <1>8. Begun' /\ Registration'
    BY <1>1 DEF HookIInv, Begun, Registration
  <1>9. Waiting' /\ Queued'
    <2>1. \A f \in Fibers : f \notin due
      BY <1>2, TimerParts
    <2> QED
      BY <1>1, <1>6, <2>1 DEF HookIInv, Waiting, Queued, FibersOnce
  <1>10. Armed' /\ Lapsed'
    BY <1>1, <1>6 DEF HookIInv, Armed, Lapsed, Timer
  <1>11. Alone' /\ Reasons'
    BY <1>1 DEF HookIInv, Alone, Registered, Reasons, Woken, InConnect
  <1>12. Cancellable'
    BY <1>1, <1>6 DEF HookIInv, Cancellable, Timer
  <1> QED
    BY <1>1, <1>7, <1>8, <1>9, <1>10, <1>11, <1>12 DEF HookIInv

\* What epoll_wait() and close() have in common: they wake those that are registered.
LEMMA WakeIInv ==
  ASSUME HookIInv, NEW events \in SUBSET Registered, Trigger(events),
         fd' \in {"open", "cancelled", "deleted", "closed"},
         UNCHANGED <<threads, fiberVars, timerVars, cancelling, ready>>, Alone',
         \/ UNCHANGED fd /\ events \subseteq ready
         \/ fd' # "open" /\ events = Registered
  PROVE  HookIInv'
  <1>1. UNCHANGED <<pc, call, attempt, cancelled, result, m_timers, due, lapsed>>
    BY DEF fiberVars, timerVars
  <1>2. /\ ctx' \in [Events -> Fibers \cup {NoFiber}]
        /\ queue' \in Seq(Fibers \cup Timers)
        /\ \A tn \in Timers : tn \in ToSet(queue') <=> tn \in ToSet(queue)
        /\ \A e \in Events : ctx'[e] = IF e \in events THEN NoFiber ELSE ctx[e]
        /\ Registration' /\ Waiting' /\ Queued'
    BY <1>1, TriggerEffect
  <1>3. TypeOK' /\ IsFiniteSet(m_timers') /\ IsFiniteSet(cancelling')
    BY <1>1, <1>2 DEF HookIInv, TypeOK
  <1>4. Begun' /\ Armed' /\ Lapsed'
    BY <1>1, <1>2 DEF HookIInv, Begun, Armed, Lapsed, Timer
  <1>5. Cancellable'
    <2>1. \A g \in Fibers : ctx'[EventOf[g]] = g => ctx[EventOf[g]] = g
      BY <1>2, EventsOf, HookAssumption
    <2>2. \A g \in Timed : pc[g] = "register" \/ ctx[EventOf[g]] = g => Timer(g) \in Timers
      BY TimerOf, EventsOf, HookAssumption DEF HookIInv, Registration
    <2> QED
      BY <1>1, <1>2, <2>1, <2>2 DEF HookIInv, Cancellable, Timer
  <1>6. Reasons'
    <2> SUFFICES ASSUME threads = 1, NEW g \in Fibers, InConnect(g), Woken(g)'
                 PROVE  cancelled[g] \/ EventOf[g] \in ready \/ fd' # "open"
      BY <1>1 DEF Reasons, InConnect
    <2>1. CASE Woken(g)
      BY <2>1 DEF HookIInv, Reasons
    <2>2. CASE ~Woken(g)
      BY <1>1, <1>2, <2>2, EventsOf DEF Woken
    <2> QED
      BY <2>1, <2>2
  <1> QED
    BY <1>2, <1>3, <1>4, <1>5, <1>6 DEF HookIInv

LEMMA PollIInv ==
  ASSUME HookIInv, Poll
  PROVE  HookIInv'
  <1>1. PICK events : events = ready \cap Registered
    OBVIOUS
  <1>2. Trigger(events) /\ UNCHANGED <<threads, fiberVars, timerVars, cancelling, ready, fd>>
    BY <1>1 DEF Poll
  <1>3. Alone'
    BY <1>2 DEF HookIInv, TypeOK, Alone, Registered, Trigger, fiberVars
  <1> QED
    BY <1>1, <1>2, <1>3, WakeIInv DEF HookIInv, TypeOK

LEMMA CloseCancelIInv ==
  ASSUME HookIInv, CloseCancel
  PROVE  HookIInv'
  <1>1. /\ Free /\ Trigger(Registered) /\ fd' = "cancelled"
        /\ UNCHANGED <<threads, fiberVars, timerVars, cancelling, ready>>
    BY DEF CloseCancel
  <1>2. Alone'
    BY <1>1, FreeAlone DEF HookIInv, Alone, Registered, Trigger, fiberVars
  <1> QED
    BY <1>1, <1>2, WakeIInv

\* FdManager::del(), the system call, the clock, and the peer.
LEMMA OutsideIInv ==
  ASSUME HookIInv,
         \/ CloseDelete \/ CloseSystem
         \/ \E e \in Events : Arrive(e)
         \/ \E tm \in Timers : Elapse(tm)
         \/ UNCHANGED vars
  PROVE  HookIInv'
  <1>0. UNCHANGED <<threads, pc, call, attempt, cancelled, result, m_timers, queue,
                    cancelling, ctx>>
    BY DEF CloseDelete, CloseSystem, Arrive, Elapse, vars, fiberVars, timerVars
  <1>1. /\ Begun' /\ Registration' /\ Waiting' /\ Queued' /\ Armed' /\ Cancellable'
        /\ IsFiniteSet(m_timers') /\ IsFiniteSet(cancelling')
    BY <1>0
    DEF HookIInv, Begun, Registration, Waiting, Queued, FibersOnce, Armed, Cancellable, Timer
  <1>2. CASE CloseDelete \/ CloseSystem \/ UNCHANGED vars
    <2>1. /\ UNCHANGED <<due, lapsed>> /\ ready' \in {ready, {}}
          /\ \/ UNCHANGED <<fd, ready>>
             \/ fd \in {"cancelled", "deleted"} /\ fd' \in {"deleted", "closed"}
      BY <1>2 DEF CloseDelete, CloseSystem, vars, timerVars
    <2>2. TypeOK' /\ Lapsed'
      BY <1>0, <2>1 DEF HookIInv, TypeOK, Lapsed
    <2>3. Alone' /\ Reasons'
      BY <1>0, <2>1 DEF HookIInv, Alone, Registered, Reasons, Woken, InConnect
    <2> QED
      BY <1>1, <2>2, <2>3 DEF HookIInv
  <1>3. ASSUME NEW e \in Events, Arrive(e)
        PROVE  HookIInv'
    <2>1. ready' = ready \cup {e} /\ UNCHANGED <<fd, due, lapsed>>
      BY <1>3 DEF Arrive, timerVars
    <2>2. TypeOK' /\ Lapsed'
      BY <1>0, <2>1 DEF HookIInv, TypeOK, Lapsed
    <2>3. Alone' /\ Reasons'
      BY <1>0, <2>1 DEF HookIInv, Alone, Registered, Reasons, Woken, InConnect
    <2> QED
      BY <1>1, <2>2, <2>3 DEF HookIInv
  <1>4. ASSUME NEW tm \in Timers, Elapse(tm)
        PROVE  HookIInv'
    <2>1. /\ tm \in m_timers /\ due' = due \cup {tm} /\ UNCHANGED <<fd, ready>>
          /\ lapsed' = [lapsed EXCEPT ![tm[1]] = @ \/ tm[2] = call[tm[1]]]
      BY <1>4 DEF Elapse
    <2>2. tm[1] \in Fibers /\ tm[2] = call[tm[1]] /\ call[tm[1]] \in Nat
      BY <2>1, TimerParts DEF HookIInv, Armed, Timer, TypeOK
    <2>3. \A g \in Fibers : lapsed'[g] <=> lapsed[g] \/ g = tm[1]
      BY <2>1, <2>2 DEF HookIInv, TypeOK
    <2>4. TypeOK'
      <3>1. lapsed' \in [Fibers -> BOOLEAN]
        BY <2>1 DEF HookIInv, TypeOK
      <3> QED
        BY <1>0, <2>1, <3>1 DEF HookIInv, TypeOK
    <2>5. Lapsed'
      BY <1>0, <2>1, <2>2, <2>3, TimerParts DEF HookIInv, Lapsed
    <2>6. Alone' /\ Reasons'
      BY <1>0, <2>1 DEF HookIInv, Alone, Registered, Reasons, Woken, InConnect
    <2> QED
      BY <1>1, <2>4, <2>5, <2>6 DEF HookIInv
  <1> QED
    BY <1>2, <1>3, <1>4

LEMMA HookInitIInv == Init => HookIInv
  <1> SUFFICES ASSUME Init PROVE HookIInv
    OBVIOUS
  <1> USE DEF Init
  <1>1. ToSet(queue) = {} /\ queue \in Seq(Fibers \cup Timers)
    BY DEF ToSet
  <1>2. TypeOK
    <2>1. \A f \in Fibers : CallsOf[f] \in Nat
      BY HookAssumption
    <2> QED
      BY <1>1, <2>1, HookAssumption DEF TypeOK, Labels
  <1>3. IsFiniteSet(m_timers) /\ IsFiniteSet(cancelling)
    BY FS_EmptySet
  <1>4. Begun /\ Registration /\ Waiting /\ Queued /\ Armed
    BY <1>1 DEF Begun, Registration, Waiting, Queued, FibersOnce, Armed
  <1>5. Lapsed /\ Alone /\ Reasons
    BY <1>1 DEF Lapsed, Alone, Registered, Reasons, Woken
  <1>6. Cancellable
    BY EventsOf, HookAssumption DEF Cancellable
  <1> QED
    BY <1>2, <1>3, <1>4, <1>5, <1>6 DEF HookIInv

LEMMA HookNextIInv == HookIInv /\ [Next]_vars => HookIInv'
  BY EnterIInv, TryIInv, ArmIInv, RegisterIInv, ResumeIInv, CancelTimerIInv, CheckIInv,
     CallbackIInv, CancelEventIInv, ExpireIInv, PollIInv, CloseCancelIInv, OutsideIInv
  DEF Next, Call, TimerSteps

-----------------------------------------------------------------------------
(* The theorems.                                                           *)

\* Where the fibers, their timers and their registrations are, for any number of
\* threads, as do_io(), the callbacks of timers and close() interleave.
THEOREM HookInvariant == Spec => []HookIInv
  BY HookInitIInv, HookNextIInv, PTL DEF Spec

LEMMA OneOf ==
  ASSUME NEW S, NEW x, \A y \in S : y = x
  PROVE  Cardinality(S) = IF x \in S THEN 1 ELSE 0
  <1>1. S = {} \/ S = {x}
    OBVIOUS
  <1> QED
    BY <1>1, FS_EmptySet, FS_Singleton

\* A fiber that waits is resumed once, by its event, by the timeout or by close(),
\* though all of them may come at the same time (hook.cc:139, iomanager.cc:240); with
\* one thread close() leaves nobody registered.
THEOREM WakersAreOne == Spec => []OneWaker
  <1>1. HookIInv => OneWaker
    <2> SUFFICES ASSUME HookIInv PROVE OneWaker
      OBVIOUS
    <2>1. ASSUME NEW f \in Fibers
          PROVE  Wakers(f) = IF pc[f] = "wait" THEN 1 ELSE 0
      <3>1. \A e \in Events : ctx[e] = f => e = EventOf[f] /\ pc[f] = "wait"
        BY HookAssumption DEF HookIInv, Registration
      <3>2. Cardinality({e \in Events : ctx[e] = f}) = IF ctx[EventOf[f]] = f THEN 1 ELSE 0
        <4>1. \A e \in {d \in Events : ctx[d] = f} : e = EventOf[f]
          BY <3>1
        <4>2. EventOf[f] \in {d \in Events : ctx[d] = f} <=> ctx[EventOf[f]] = f
          BY EventsOf
        <4> HIDE DEF Events
        <4> QED
          BY <4>1, <4>2, OneOf
      <3>3. Cardinality({i \in DOMAIN queue : queue[i] = f}) =
              IF f \in ToSet(queue) THEN 1 ELSE 0
        <4>1. CASE f \in ToSet(queue)
          <5>1. PICK i \in DOMAIN queue : queue[i] = f
            BY <4>1 DEF ToSet
          <5> DEFINE S == {j \in DOMAIN queue : queue[j] = f}
          <5>2. i \in S /\ \A j \in S : j = i
            BY <5>1 DEF HookIInv, Queued, FibersOnce
          <5> HIDE DEF S
          <5>3. Cardinality(S) = 1
            BY <5>2, OneOf
          <5> QED
            BY <4>1, <5>3 DEF S
        <4>2. CASE f \notin ToSet(queue)
          <5>1. {i \in DOMAIN queue : queue[i] = f} = {}
            BY <4>2 DEF ToSet
          <5> QED
            BY <4>2, <5>1, FS_EmptySet
        <4> QED
          BY <4>1, <4>2
      <3>4. \/ pc[f] = "wait" /\ ctx[EventOf[f]] = f /\ f \notin ToSet(queue)
            \/ pc[f] = "wait" /\ ctx[EventOf[f]] # f /\ f \in ToSet(queue)
            \/ pc[f] # "wait" /\ ctx[EventOf[f]] # f /\ f \notin ToSet(queue)
        BY <3>1, EventsOf DEF HookIInv, Waiting, Queued
      <3> QED
        BY <3>2, <3>3, <3>4 DEF Wakers
    <2>2. threads = 1 /\ fd = "closed" => Registered = {}
      BY DEF HookIInv, Alone
    <2> QED
      BY <2>1, <2>2 DEF OneWaker
  <1> QED
    BY <1>1, HookInvariant, PTL

\* With one thread a call with a timeout that waits has its timer armed, or on its way
\* to the cancelEvent() of its callback (hook.cc:114-121).
THEOREM TimeoutsCover == Spec => []TimeoutCovers
  <1>1. HookIInv => TimeoutCovers
    <2> SUFFICES ASSUME HookIInv, NEW f \in Timed, threads = 1, ctx[EventOf[f]] = f
                 PROVE  Timer(f) \in Pending(f)
      BY DEF TimeoutCovers
    <2>1. f \in Fibers /\ f # NoFiber
      BY HookAssumption
    <2>2. pc[f] = "wait"
      BY <2>1, EventsOf DEF HookIInv, Registration
    <2>3. Timer(f) \in Timers /\ Timer(f)[1] = f
      BY <2>2, TimerOf DEF HookIInv
    <2>4. Timer(f) \in m_timers \cup cancelling \cup ToSet(queue)
      BY <2>1 DEF HookIInv, Cancellable
    <2> QED
      BY <2>3, <2>4 DEF Pending, ToSet
  <1> QED
    BY <1>1, HookInvariant, PTL

\* No timer stays armed when its call has ended, and a call times out only after its
\* own time has come: the timer_info that the callback looks for is that of the call
\* (hook.cc:104, 115-119).
THEOREM TimeoutsAreTheirOwn == Spec => []TimeoutIsOwn
  <1>1. HookIInv => TimeoutIsOwn
    <2> SUFFICES ASSUME HookIInv PROVE TimeoutIsOwn
      OBVIOUS
    <2>1. \A tm \in m_timers : tm[2] = call[tm[1]] /\ pc[tm[1]] # "out"
      BY DEF HookIInv, Armed, Timer
    <2> QED
      BY <2>1 DEF HookIInv, Lapsed, TimeoutIsOwn
  <1> QED
    BY <1>1, HookInvariant, PTL

\* With one thread connect_with_timeout() says that there is a connection only when
\* there is: whoever wakes it, it sees the cancellation or the error (hook.cc:257-272).
THEOREM ConnectIsHonest == Spec => ConnectHonest
  <1> DEFINE A == \A f \in Fibers :
                    threads = 1 /\ InConnect(f) /\ pc[f] # "out"
                      /\ pc'[f] = "out" /\ result'[f] = "ok"
                      => EventOf[f] \in ready
  <1>1. HookIInv /\ [Next]_vars => [A]_vars
    <2> SUFFICES ASSUME HookIInv, Next, NEW f \in Fibers, threads = 1, InConnect(f),
                        pc[f] # "out", pc'[f] = "out", result'[f] = "ok"
                 PROVE  EventOf[f] \in ready
      BY DEF vars, fiberVars
    <2>1. pc' # pc
      OBVIOUS
    <2>2. PICK g \in Fibers : Enter(g) \/ Try(g) \/ Arm(g) \/ Register(g) \/ Resume(g)
                             \/ CancelTimer(g) \/ Check(g)
      BY <2>1 DEF Next, Call, TimerSteps, Callback, CancelEvent, Elapse, Expire, Poll,
                  CloseCancel, CloseDelete, CloseSystem, Arrive, fiberVars
    <2>3. g = f
      BY <2>2 DEF Enter, Try, Arm, Register, Resume, CancelTimer, Check, Goto, Returns,
                  HookIInv, TypeOK
    <2>4. Try(f) \/ Check(f)
      BY <2>2, <2>3 DEF Enter, Arm, Register, Resume, CancelTimer, Goto, Returns,
                        HookIInv, TypeOK
    <2>5. CASE Try(f)
      BY <2>5 DEF Try, Goto, Returns, HookIInv, TypeOK
    <2>6. CASE Check(f)
      <3>1. pc[f] = "check" /\ ~cancelled[f] /\ (fd # "closed" \/ EventOf[f] \in ready)
        BY <2>6 DEF Check, Goto, Returns, HookIInv, TypeOK
      <3>2. fd \notin {"cancelled", "deleted"}
        BY <3>1 DEF HookIInv, Alone
      <3>3. EventOf[f] \in ready \/ fd # "open"
        BY <3>1 DEF HookIInv, Reasons, Woken
      <3> QED
        BY <3>1, <3>2, <3>3 DEF HookIInv, TypeOK
    <2> QED
      BY <2>4, <2>5, <2>6
  <1> QED
    BY <1>1, HookInvariant, PTL DEF Spec, ConnectHonest, A
=============================================================================
