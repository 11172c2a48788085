---------------------------- MODULE RedisProofs -----------------------------
(***************************************************************************)
(* What holds of the Redis connection pool for any number of users, any    *)
(* connections, limits and settings, with one thread or more; and of one   *)
(* connection for any keys and numbers, and transactions of any length.    *)
(***************************************************************************)
EXTENDS RedisPool, RedisSession, SequenceLemmas, TLAPS

Labels == {"out", "pop", "count", "connect", "second", "wait", "sleep", "last",
           "using", "erase", "put", "ping", "putback", "fill"}

RedisPoolTypeOK ==
  /\ setup \in [threads : {1, 2}, max : Nat, min : Nat]
  /\ link \in [Links -> {"none", "open", "broken"}]
  /\ idle \in Seq(Links) /\ active \in Seq(Links)
  /\ doing \in [Fibers -> Labels]
  /\ hand \in [Fibers -> Links \cup {NoLink}]
  /\ place \in [Fibers -> Seq(Links)]
  /\ tries \in [Fibers -> Nat]
  /\ checking \in [ask : Seq(Links), healthy : Seq(Links)]
  /\ stuck \subseteq Clients
  /\ running \in Fibers \cup {NoLink}

-----------------------------------------------------------------------------
(* The inductive invariant.  The pool's own lists, the idle connections and *)
(* those the cleanup asks or has found healthy, have no connection twice,  *)
(* and none in common; the active ones are left out, because the stale     *)
(* iterator makes that list wrong (redis_connector.cc:802).                *)

\* A fiber has a connection from the step that takes it out of the idle ones to
\* the end of returnConnection(), or for good when it is stuck there.
InHand == {"using", "erase", "put"}

Control ==
  \A f \in Clients :
    hand[f] # NoLink <=> doing[f] \in InHand \/ f \in stuck

Once ==
  /\ IsInjective(idle) /\ IsInjective(checking.ask) /\ IsInjective(checking.healthy)
  /\ ToSet(idle) \cap ToSet(checking.ask) = {}
  /\ ToSet(idle) \cap ToSet(checking.healthy) = {}
  /\ ToSet(checking.ask) \cap ToSet(checking.healthy) = {}

Free == ToSet(idle) \cup ToSet(checking.ask) \cup ToSet(checking.healthy)

Apart == \A f \in Clients : hand[f] \notin Free

Sole == \A f, g \in Clients : hand[f] = hand[g] /\ hand[f] # NoLink => f = g

PoolIInv == RedisPoolTypeOK /\ Control /\ Once /\ Apart /\ Sole

LEMMA FreeOneUser == PoolIInv => OneUser
  <1> SUFFICES ASSUME PoolIInv PROVE OneUser
    OBVIOUS
  <1>1. /\ idle \in Seq(Links)
        /\ checking.ask \in Seq(Links) /\ checking.healthy \in Seq(Links)
    BY DEF PoolIInv, RedisPoolTypeOK
  <1>2. ToSet(idle \o checking.ask) = ToSet(idle) \cup ToSet(checking.ask)
        /\ idle \o checking.ask \in Seq(Links)
    BY <1>1, ConcatEntries
  <1>3. ToSet(idle \o checking.ask \o checking.healthy) = Free
    <2>1. PICK s \in Seq(Links) : s = idle \o checking.ask
      BY <1>2
    <2>2. ToSet(s \o checking.healthy) = ToSet(s) \cup ToSet(checking.healthy)
      BY <1>1, ConcatEntries
    <2> QED
      BY <1>2, <2>1, <2>2 DEF Free
  <1> QED
    BY <1>3 DEF PoolIInv, Apart, Sole, OneUser

LEMMA PoolInitIInv == RedisPoolInit => PoolIInv
  <1> SUFFICES ASSUME RedisPoolInit PROVE PoolIInv
    OBVIOUS
  <1>1. setup \in [threads : {1, 2}, max : Nat, min : Nat]
    BY RedisPoolAssumption DEF RedisPoolInit, Configured, SetupOf
  <1>2. /\ idle \in Seq(Links) /\ IsInjective(idle)
        /\ link \in [Links -> {"none", "open", "broken"}]
    <2>1. PICK first \in {<<>>, <<CHOOSE c \in Links : TRUE>>} :
            /\ idle = first
            /\ link = [c \in Links |-> IF c \in ToSet(first) THEN "open" ELSE "none"]
      BY DEF RedisPoolInit
    <2>2. PICK k \in Links : k = CHOOSE c \in Links : TRUE
      BY RedisPoolAssumption
    <2>3. CASE first = <<>>
      BY <2>1, <2>3 DEF IsInjective
    <2>4. CASE first = <<k>>
      BY <2>1, <2>4 DEF IsInjective
    <2> QED
      BY <2>1, <2>2, <2>3, <2>4
  <1>3. checking.ask = <<>> /\ checking.healthy = <<>> /\ \A f \in Clients : hand[f] = NoLink
    BY DEF RedisPoolInit, Fibers
  <1>4. ToSet(<<>>) = {} /\ IsInjective(<<>>)
    BY DEF ToSet, IsInjective
  <1>5. RedisPoolTypeOK
    <2>1. <<>> \in Seq(Links)
      OBVIOUS
    <2> QED
      BY <1>1, <1>2, <2>1 DEF RedisPoolInit, RedisPoolTypeOK, Labels
  <1>6. Control /\ Sole
    BY <1>3 DEF RedisPoolInit, Fibers, Control, InHand, Sole
  <1>7. Once /\ Apart
    <2>1. ToSet(idle) \subseteq Links
      BY <1>2, ListedEntries
    <2> QED
      BY <1>2, <1>3, <1>4, <2>1, RedisPoolAssumption DEF Once, Apart, Free
  <1> QED
    BY <1>5, <1>6, <1>7 DEF PoolIInv

-----------------------------------------------------------------------------
(* Every step preserves it.                                                *)

LEMMA StepEffect ==
  ASSUME RedisPoolTypeOK, NEW f \in Fibers, NEW from \in Labels, NEW to \in Labels,
         Step(f, from, to)
  PROVE  /\ f \notin stuck /\ doing[f] = from /\ doing' = [doing EXCEPT ![f] = to]
         /\ doing' \in [Fibers -> Labels] /\ running' \in Fibers \cup {NoLink}
  BY DEF RedisPoolTypeOK, Step

\* Steps that move no connection: those that look, wait, or break one, and the
\* one that takes an entry out of the active list.
LEMMA QuietIInv ==
  ASSUME PoolIInv, NEW f \in Fibers, NEW from \in Labels, NEW to \in Labels,
         Step(f, from, to), f \in Clients => (from \in InHand <=> to \in InHand),
         UNCHANGED <<setup, idle, hand, checking, stuck>>,
         link' \in [Links -> {"none", "open", "broken"}], active' \in Seq(Links),
         place' \in [Fibers -> Seq(Links)], tries' \in [Fibers -> Nat]
  PROVE  PoolIInv'
  <1>1. /\ f \notin stuck /\ doing[f] = from /\ doing' = [doing EXCEPT ![f] = to]
        /\ doing' \in [Fibers -> Labels] /\ running' \in Fibers \cup {NoLink}
    BY StepEffect DEF PoolIInv
  <1>2. RedisPoolTypeOK'
    BY <1>1 DEF PoolIInv, RedisPoolTypeOK
  <1>3. Control'
    <2>1. \A g \in Clients : doing'[g] = IF g = f THEN to ELSE doing[g]
      BY <1>1 DEF PoolIInv, RedisPoolTypeOK, Fibers
    <2>2. \A g \in Clients : doing'[g] \in InHand <=> doing[g] \in InHand
      BY <1>1, <2>1
    <2> QED
      BY <2>2 DEF PoolIInv, Control
  <1>4. Once' /\ Apart' /\ Sole'
    BY DEF PoolIInv, Once, Apart, Sole, Free
  <1> QED
    BY <1>2, <1>3, <1>4 DEF PoolIInv

\* Whoever takes the first idle connection is its only user.
LEMMA TakeFirstIInv ==
  ASSUME PoolIInv, NEW f \in Clients, NEW from \in Labels \ InHand,
         Step(f, from, "using"), idle # <<>>, TakeFirst(f),
         UNCHANGED <<setup, link, place, checking, stuck>>,
         tries' \in [Fibers -> Nat]
  PROVE  PoolIInv' /\ L!Acquire(f)
  <1> DEFINE c == Head(idle)
             rest == Tail(idle)
  <1>1. /\ f \notin stuck /\ doing[f] = from /\ doing' = [doing EXCEPT ![f] = "using"]
        /\ doing' \in [Fibers -> Labels] /\ running' \in Fibers \cup {NoLink}
    BY StepEffect DEF PoolIInv, Labels, Fibers
  <1>2. /\ c \in Links /\ rest \in Seq(Links)
        /\ ToSet(idle) = ToSet(rest) \cup {c}
        /\ IsInjective(rest) /\ c \notin ToSet(rest)
    BY HeadTailEntries DEF PoolIInv, RedisPoolTypeOK, Once
  <1>3. /\ hand' = [hand EXCEPT ![f] = c] /\ idle' = rest
        /\ active' = Append(active, c)
    BY DEF TakeFirst
  <1> HIDE DEF c, rest
  <1>4. c # NoLink /\ hand[f] = NoLink
    BY <1>1, <1>2, RedisPoolAssumption DEF PoolIInv, Control
  <1>5. RedisPoolTypeOK'
    <2>1. active' \in Seq(Links)
      BY <1>2, <1>3, AppendEntries DEF PoolIInv, RedisPoolTypeOK
    <2> QED
      BY <1>1, <1>2, <1>3, <2>1 DEF PoolIInv, RedisPoolTypeOK
  <1>6. Control'
    BY <1>1, <1>3, <1>4 DEF PoolIInv, RedisPoolTypeOK, Control, Fibers, InHand
  <1>7. Once' /\ Free' = Free \ {c} /\ c \in Free
    BY <1>2, <1>3 DEF PoolIInv, Once, Free
  <1>8. /\ \A g \in Clients : hand[g] # c
        /\ \A g \in Clients : hand'[g] = IF g = f THEN c ELSE hand[g]
    BY <1>3, <1>7 DEF PoolIInv, RedisPoolTypeOK, Apart, Fibers
  <1>9. Apart'
    BY <1>7, <1>8 DEF PoolIInv, Apart
  <1>10. Sole'
    BY <1>8 DEF PoolIInv, Sole
  <1>11. L!Acquire(f)
    BY <1>2, <1>4, <1>8 DEF L!Acquire
  <1> QED
    BY <1>5, <1>6, <1>7, <1>9, <1>10, <1>11 DEF PoolIInv

\* A connection that is opened is one that nobody has.
LEMMA ConnectedIInv ==
  ASSUME PoolIInv, NEW f \in Fibers, NEW to \in Labels \ InHand,
         Step(f, "connect", to), Connected,
         UNCHANGED <<setup, active, hand, place, tries, checking, stuck>>
  PROVE  PoolIInv'
  <1>1. PICK c \in Links : /\ ~Referenced(c)
                          /\ link' = [link EXCEPT ![c] = "open"]
                          /\ idle' = Append(idle, c)
    <2> DEFINE unused == {k \in Links : link[k] = "none" /\ ~Referenced(k)}
    <2>1. unused # {}
      BY DEF Connected
    <2>2. PICK c \in unused : c = CHOOSE k \in unused : TRUE
      BY <2>1
    <2> QED
      BY <2>2 DEF Connected
  <1>2. /\ f \notin stuck /\ doing[f] = "connect" /\ doing' = [doing EXCEPT ![f] = to]
        /\ doing' \in [Fibers -> Labels] /\ running' \in Fibers \cup {NoLink}
    BY StepEffect DEF PoolIInv, Labels
  <1>3. c \notin Free /\ \A g \in Clients : hand[g] # c
    <2>1. /\ idle \in Seq(Links) /\ active \in Seq(Links)
          /\ checking.ask \in Seq(Links) /\ checking.healthy \in Seq(Links)
      BY DEF PoolIInv, RedisPoolTypeOK
    <2>2. PICK s : s = idle \o active
      OBVIOUS
    <2>3. s \in Seq(Links) /\ ToSet(idle) \subseteq ToSet(s)
      BY <2>1, <2>2, ConcatEntries
    <2>4. PICK u : u = s \o checking.ask
      OBVIOUS
    <2>5. /\ u \in Seq(Links)
          /\ ToSet(s) \subseteq ToSet(u) /\ ToSet(checking.ask) \subseteq ToSet(u)
      BY <2>1, <2>3, <2>4, ConcatEntries
    <2>6. ToSet(u \o checking.healthy) = ToSet(u) \cup ToSet(checking.healthy)
      BY <2>1, <2>5, ConcatEntries
    <2>7. Free \subseteq ToSet(idle \o active \o checking.ask \o checking.healthy)
      BY <2>2, <2>3, <2>4, <2>5, <2>6 DEF Free
    <2> QED
      BY <1>1, <2>7 DEF Referenced, Fibers
  <1>4. /\ idle' \in Seq(Links) /\ ToSet(idle') = ToSet(idle) \cup {c}
        /\ IsInjective(idle')
    BY <1>1, <1>3, AppendEntries DEF PoolIInv, RedisPoolTypeOK, Once, Free
  <1>5. RedisPoolTypeOK'
    BY <1>1, <1>2, <1>4 DEF PoolIInv, RedisPoolTypeOK
  <1>6. Control'
    BY <1>2 DEF PoolIInv, RedisPoolTypeOK, Control, Fibers, InHand
  <1>7. Once' /\ Free' = Free \cup {c}
    BY <1>3, <1>4 DEF PoolIInv, Once, Free
  <1>8. Apart' /\ Sole'
    BY <1>3, <1>7 DEF PoolIInv, Apart, Sole
  <1> QED
    BY <1>5, <1>6, <1>7, <1>8 DEF PoolIInv

\* A user that gives its connection up: to the idle ones, to be dropped, or, when
\* it is not among the active ones, at once.
LEMMA GiveUpIInv ==
  ASSUME PoolIInv, NEW f \in Clients, NEW from \in InHand, Step(f, from, "out"),
         hand' = [hand EXCEPT ![f] = NoLink],
         idle' = Append(idle, hand[f]) \/ UNCHANGED idle,
         link' \in [Links -> {"none", "open", "broken"}],
         UNCHANGED <<setup, active, place, tries, checking, stuck>>
  PROVE  PoolIInv' /\ L!Release(f)
  <1>1. PICK c : c = hand[f]
    OBVIOUS
  <1>2. /\ f \notin stuck /\ doing[f] = from /\ doing' = [doing EXCEPT ![f] = "out"]
        /\ doing' \in [Fibers -> Labels] /\ running' \in Fibers \cup {NoLink}
    <2>1. from \in Labels /\ "out" \in Labels /\ f \in Fibers
      BY DEF Labels, Fibers, InHand
    <2> QED
      BY <2>1, StepEffect DEF PoolIInv
  <1>3. /\ c \in Links /\ c # NoLink /\ c \notin Free
        /\ \A g \in Clients \ {f} : hand[g] # c
    BY <1>1, <1>2 DEF PoolIInv, RedisPoolTypeOK, Control, Apart, Sole, Fibers
  <1>4. \A g \in Clients : hand'[g] = IF g = f THEN NoLink ELSE hand[g]
    BY DEF PoolIInv, RedisPoolTypeOK, Fibers
  <1>5. /\ idle' \in Seq(Links) /\ IsInjective(idle')
        /\ ToSet(idle') \subseteq ToSet(idle) \cup {c}
    <2>1. CASE idle' = Append(idle, c)
      BY <1>3, <2>1, AppendEntries DEF PoolIInv, RedisPoolTypeOK, Once, Free
    <2> QED
      BY <1>1, <2>1 DEF PoolIInv, RedisPoolTypeOK, Once
  <1>6. RedisPoolTypeOK'
    BY <1>2, <1>5 DEF PoolIInv, RedisPoolTypeOK
  <1>7. Control'
    BY <1>2, <1>4 DEF PoolIInv, RedisPoolTypeOK, Control, Fibers, InHand
  <1>8. Once' /\ Free' \subseteq Free \cup {c}
    BY <1>3, <1>5 DEF PoolIInv, Once, Free
  <1>9. NoLink \notin Free
    BY ListedEntries, RedisPoolAssumption DEF PoolIInv, RedisPoolTypeOK, Free
  <1>10. Apart' /\ Sole'
    BY <1>3, <1>4, <1>8, <1>9 DEF PoolIInv, Apart, Sole
  <1>11. L!Release(f)
    BY <1>1, <1>3, <1>4 DEF L!Release
  <1> QED
    BY <1>6, <1>7, <1>8, <1>10, <1>11 DEF PoolIInv

\* A user whose connection is not among the active ones, and works: it waits for
\* itself, with the connection in its hands (redis_connector.cc:810).
LEMMA StuckIInv ==
  ASSUME PoolIInv, NEW f \in Clients, Step(f, "using", "out"),
         stuck' = stuck \cup {f},
         UNCHANGED <<setup, link, idle, active, hand, place, tries, checking>>
  PROVE  PoolIInv'
  <1>1. /\ f \notin stuck /\ doing[f] = "using" /\ doing' = [doing EXCEPT ![f] = "out"]
        /\ doing' \in [Fibers -> Labels] /\ running' \in Fibers \cup {NoLink}
    BY StepEffect DEF PoolIInv, Labels, Fibers
  <1>2. RedisPoolTypeOK'
    BY <1>1 DEF PoolIInv, RedisPoolTypeOK
  <1>3. Control'
    BY <1>1 DEF PoolIInv, RedisPoolTypeOK, Control, Fibers, InHand
  <1>4. Once' /\ Apart' /\ Sole'
    BY DEF PoolIInv, Once, Apart, Sole, Free
  <1> QED
    BY <1>2, <1>3, <1>4 DEF PoolIInv

\* Steps of the cleanup that move connections among the pool's own lists.
LEMMA CleanupIInv ==
  ASSUME PoolIInv, NEW from \in Labels, NEW to \in Labels, Step(Cleaner, from, to),
         UNCHANGED <<setup, active, hand, place, tries, stuck>>,
         link' \in [Links -> {"none", "open", "broken"}],
         idle' \in Seq(Links), checking' \in [ask : Seq(Links), healthy : Seq(Links)],
         Once', Free' \subseteq Free
  PROVE  PoolIInv'
  <1>1. Cleaner \in Fibers /\ Cleaner \notin Clients
    BY RedisPoolAssumption DEF Fibers
  <1>2. /\ doing' = [doing EXCEPT ![Cleaner] = to]
        /\ doing' \in [Fibers -> Labels] /\ running' \in Fibers \cup {NoLink}
    BY <1>1, StepEffect DEF PoolIInv
  <1>3. RedisPoolTypeOK'
    BY <1>2 DEF PoolIInv, RedisPoolTypeOK
  <1>4. Control'
    BY <1>1, <1>2 DEF PoolIInv, RedisPoolTypeOK, Control, Fibers
  <1>5. Apart' /\ Sole'
    BY DEF PoolIInv, Apart, Sole
  <1> QED
    BY <1>3, <1>4, <1>5 DEF PoolIInv

\* The connections its users lease from the pool.
Leased == [f \in Clients |-> hand[f]]

LEMMA GetIInv ==
  ASSUME PoolIInv, NEW f \in Clients, Get(f) \/ GetSteps(f)
  PROVE  PoolIInv' /\ (UNCHANGED Leased \/ L!Acquire(f))
  <1> USE DEF Keep, Labels, InHand, Leased
  <1>1. f \in Fibers
    BY DEF Fibers
  <1>2. /\ link \in [Links -> {"none", "open", "broken"}] /\ active \in Seq(Links)
        /\ place \in [Fibers -> Seq(Links)] /\ tries \in [Fibers -> Nat]
    BY DEF PoolIInv, RedisPoolTypeOK
  <1>3. CASE Get(f)
    BY <1>1, <1>2, <1>3, QuietIInv DEF Get
  <1>4. CASE Pop(f)
    <2>1. CASE idle # <<>> /\ Step(f, "pop", "using") /\ TakeFirst(f)
      BY <1>2, <1>4, <2>1, TakeFirstIInv DEF Pop
    <2>2. CASE Step(f, "pop", "count") /\ UNCHANGED <<idle, active, hand>>
      BY <1>1, <1>2, <1>4, <2>2, QuietIInv DEF Pop
    <2> QED
      BY <1>4, <2>1, <2>2 DEF Pop
  <1>5. CASE Count(f)
    <2>1. PICK to \in {"connect", "wait"} : Step(f, "count", to)
      BY <1>5 DEF Count
    <2> QED
      BY <1>1, <1>2, <1>5, <2>1, QuietIInv DEF Count
  <1>6. CASE Connect(f)
    <2>1. CASE Step(f, "connect", "second") /\ Connected
      BY <1>1, <1>6, <2>1, ConnectedIInv DEF Connect
    <2>2. CASE Step(f, "connect", "wait") /\ UNCHANGED <<link, idle>>
      BY <1>1, <1>2, <1>6, <2>2, QuietIInv DEF Connect
    <2> QED
      BY <1>6, <2>1, <2>2 DEF Connect
  <1>7. CASE Second(f)
    <2>1. CASE idle # <<>> /\ Step(f, "second", "using") /\ TakeFirst(f)
      BY <1>2, <1>7, <2>1, TakeFirstIInv DEF Second
    <2>2. CASE Step(f, "second", "wait") /\ UNCHANGED <<idle, active, hand>>
      BY <1>1, <1>2, <1>7, <2>2, QuietIInv DEF Second
    <2> QED
      BY <1>7, <2>1, <2>2 DEF Second
  <1>8. CASE Wait(f)
    <2>1. PICK to \in {"last", "sleep", "out"} : Step(f, "wait", to)
      BY <1>8 DEF Wait
    <2>2. tries' \in [Fibers -> Nat]
      BY <1>2, <1>8 DEF Wait
    <2> QED
      BY <1>1, <1>2, <1>8, <2>1, <2>2, QuietIInv DEF Wait
  <1>9. CASE Wake(f)
    <2>1. tries' \in [Fibers -> Nat]
      <3>1. tries[f] + 1 \in Nat
        BY <1>1, <1>2
      <3> QED
        BY <1>2, <1>9, <3>1 DEF Wake
    <2> QED
      BY <1>1, <1>2, <1>9, <2>1, QuietIInv DEF Wake
  <1>10. CASE LastPop(f)
    <2>1. CASE idle # <<>> /\ Step(f, "last", "using") /\ TakeFirst(f)
      BY <1>2, <1>10, <2>1, TakeFirstIInv DEF LastPop
    <2>2. CASE Step(f, "last", "out") /\ UNCHANGED <<idle, active, hand>>
      BY <1>1, <1>2, <1>10, <2>2, QuietIInv DEF LastPop
    <2> QED
      BY <1>10, <2>1, <2>2 DEF LastPop
  <1> QED
    BY <1>3, <1>4, <1>5, <1>6, <1>7, <1>8, <1>9, <1>10 DEF GetSteps

LEMMA ReturnIInv ==
  ASSUME PoolIInv, NEW f \in Clients, Break(f) \/ ReturnSteps(f)
  PROVE  PoolIInv' /\ (UNCHANGED Leased \/ L!Release(f))
  <1> USE DEF Keep, Labels, InHand, Leased
  <1>1. f \in Fibers
    BY DEF Fibers
  <1>2. /\ link \in [Links -> {"none", "open", "broken"}] /\ active \in Seq(Links)
        /\ place \in [Fibers -> Seq(Links)] /\ tries \in [Fibers -> Nat]
    BY DEF PoolIInv, RedisPoolTypeOK
  <1>3. CASE Break(f)
    <2>1. link' \in [Links -> {"none", "open", "broken"}]
      BY <1>2, <1>3 DEF Break
    <2> QED
      BY <1>3, <2>1 DEF Break, PoolIInv, RedisPoolTypeOK, Control, Once, Apart, Sole, Free
  <1>4. CASE Find(f)
    <2>1. CASE hand[f] \in ToSet(active)
      <3>1. place' \in [Fibers -> Seq(Links)]
        BY <1>2, <1>4, <2>1 DEF Find
      <3> QED
        BY <1>1, <1>2, <1>4, <2>1, <3>1, QuietIInv DEF Find
    <2>2. CASE hand[f] \notin ToSet(active) /\ link[hand[f]] = "open"
      BY <1>4, <2>2, StuckIInv DEF Find
    <2>3. CASE hand[f] \notin ToSet(active) /\ link[hand[f]] # "open"
      BY <1>2, <1>4, <2>3, GiveUpIInv DEF Find
    <2> QED
      BY <2>1, <2>2, <2>3
  <1>5. CASE Erase(f)
    <2>1. active' \in Seq(Links)
      BY <1>2, <1>5, RemoveAtProperties DEF Erase
    <2>2. place' \in [Fibers -> Seq(Links)]
      <3>1. <<>> \in Seq(Links)
        OBVIOUS
      <3> QED
        BY <1>2, <1>5, <3>1 DEF Erase
    <2> QED
      BY <1>1, <1>2, <1>5, <2>1, <2>2, QuietIInv DEF Erase
  <1>6. CASE Put(f)
    <2>1. link' \in [Links -> {"none", "open", "broken"}]
      BY <1>2, <1>6 DEF Put
    <2> QED
      BY <1>6, <2>1, GiveUpIInv DEF Put
  <1> QED
    BY <1>3, <1>4, <1>5, <1>6 DEF ReturnSteps

\* What the cleanup puts back are the first of the healthy ones.
LEMMA PutBackIInv ==
  ASSUME PoolIInv, PutBack
  PROVE  PoolIInv'
  <1> DEFINE n == Len(checking.healthy)
             room == IF setup.max <= Total THEN 0 ELSE Min({setup.max - Total, n})
  <1>1. /\ idle \in Seq(Links) /\ active \in Seq(Links) /\ checking.healthy \in Seq(Links)
        /\ setup.max \in Nat /\ n \in Nat /\ Total \in Nat
    BY LenProperties DEF PoolIInv, RedisPoolTypeOK, Total
  <1>2. room \in 0..n
    <2>1. ASSUME NEW a \in Nat, NEW b \in Nat PROVE Min({a, b}) \in 0..b
      <3>1. \E x \in {a, b} : \A y \in {a, b} : x =< y
        OBVIOUS
      <3>2. Min({a, b}) \in {a, b} /\ \A y \in {a, b} : Min({a, b}) =< y
        BY <3>1 DEF Min
      <3> QED
        BY <3>2
    <2>2. CASE setup.max <= Total
      BY <1>1, <2>2
    <2>3. CASE ~(setup.max <= Total)
      <3>1. setup.max - Total \in Nat
        BY <1>1, <2>3
      <3> QED
        BY <1>1, <2>1, <2>3, <3>1
    <2> QED
      BY <2>2, <2>3
  <1>3. PICK s : s = SubSeq(checking.healthy, 1, room)
    OBVIOUS
  <1>4. /\ idle' = idle \o s
        /\ checking'.ask = <<>> /\ checking'.healthy = <<>>
        /\ checking' \in [ask : Seq(Links), healthy : Seq(Links)]
        /\ Step(Cleaner, "putback", "fill")
        /\ UNCHANGED <<setup, active, hand, place, tries, stuck>>
        /\ link' \in [Links -> {"none", "open", "broken"}]
    <2>1. <<>> \in Seq(Links)
      OBVIOUS
    <2> QED
      BY <1>3, <2>1 DEF PutBack, Keep, PoolIInv, RedisPoolTypeOK
  <1> HIDE DEF room
  <1>5. /\ s \in Seq(Links) /\ ToSet(s) \subseteq ToSet(checking.healthy) /\ IsInjective(s)
    BY <1>1, <1>2, <1>3, PrefixEntries DEF PoolIInv, Once
  <1>6. /\ idle' \in Seq(Links) /\ ToSet(idle') = ToSet(idle) \cup ToSet(s)
        /\ IsInjective(idle')
    BY <1>1, <1>4, <1>5, ConcatEntries DEF PoolIInv, Once
  <1>7. ToSet(<<>>) = {} /\ IsInjective(<<>>)
    BY DEF ToSet, IsInjective
  <1>8. Once' /\ Free' \subseteq Free
    BY <1>4, <1>5, <1>6, <1>7 DEF Once, Free
  <1> QED
    BY <1>4, <1>6, <1>8, CleanupIInv DEF Labels

\* PING: the connection is healthy, or closed.
LEMMA PingIInv ==
  ASSUME PoolIInv, Ping
  PROVE  PoolIInv'
  <1>1. PICK ask, healthy, c, rest :
          /\ ask = checking.ask /\ healthy = checking.healthy
          /\ c = Head(ask) /\ rest = Tail(ask)
    OBVIOUS
  <1>2. /\ ask \in Seq(Links) /\ healthy \in Seq(Links) /\ idle \in Seq(Links)
        /\ ask # <<>> /\ IsInjective(ask)
    BY <1>1 DEF Ping, PoolIInv, RedisPoolTypeOK, Once
  <1>3. /\ c \in Links /\ rest \in Seq(Links) /\ ToSet(ask) = ToSet(rest) \cup {c}
        /\ IsInjective(rest) /\ c \notin ToSet(rest)
    BY <1>1, <1>2, HeadTailEntries
  <1>4. /\ UNCHANGED <<setup, active, idle, hand, place, tries, stuck>>
        /\ \E to \in {"putback", "ping"} : Step(Cleaner, "ping", to)
        /\ \/ /\ checking' = [ask |-> rest, healthy |-> Append(healthy, c)]
              /\ UNCHANGED link
           \/ /\ checking' = [ask |-> rest, healthy |-> healthy]
              /\ link' = [link EXCEPT ![c] = "none"]
    BY <1>1 DEF Ping, Keep, PoolIInv, RedisPoolTypeOK
  <1>5. link' \in [Links -> {"none", "open", "broken"}]
    BY <1>4 DEF PoolIInv, RedisPoolTypeOK
  <1>6. /\ checking'.ask = rest
        /\ checking'.healthy \in Seq(Links) /\ IsInjective(checking'.healthy)
        /\ ToSet(checking'.healthy) \subseteq ToSet(healthy) \cup {c}
        /\ checking' \in [ask : Seq(Links), healthy : Seq(Links)]
    <2>1. /\ Append(healthy, c) \in Seq(Links)
          /\ ToSet(Append(healthy, c)) = ToSet(healthy) \cup {c}
          /\ IsInjective(healthy) /\ IsInjective(Append(healthy, c))
      BY <1>1, <1>2, <1>3, AppendEntries DEF PoolIInv, Once
    <2>2. CASE checking' = [ask |-> rest, healthy |-> Append(healthy, c)]
      BY <1>3, <2>1, <2>2
    <2>3. CASE checking' = [ask |-> rest, healthy |-> healthy]
      BY <1>2, <1>3, <2>1, <2>3
    <2> QED
      BY <1>4, <2>2, <2>3
  <1>7. Once' /\ Free' \subseteq Free
    BY <1>1, <1>3, <1>4, <1>6 DEF PoolIInv, Once, Free
  <1> QED
    BY <1>4, <1>5, <1>6, <1>7, <1>2, CleanupIInv DEF Labels

LEMMA CleanerIInv ==
  ASSUME PoolIInv, TakeAll \/ CleanupSteps
  PROVE  PoolIInv' /\ UNCHANGED hand
  <1> USE DEF Keep, Labels, InHand
  <1>1. Cleaner \in Fibers /\ Cleaner \notin Clients
    BY RedisPoolAssumption DEF Fibers
  <1>2. /\ link \in [Links -> {"none", "open", "broken"}]
        /\ idle \in Seq(Links) /\ active \in Seq(Links) /\ <<>> \in Seq(Links)
        /\ place \in [Fibers -> Seq(Links)] /\ tries \in [Fibers -> Nat]
    BY DEF PoolIInv, RedisPoolTypeOK
  <1>3. CASE TakeAll
    <2>1. checking' = [ask |-> idle, healthy |-> <<>>] /\ idle' = <<>>
      BY <1>3 DEF TakeAll
    <2>2. ToSet(<<>>) = {} /\ IsInjective(<<>>)
      BY DEF ToSet, IsInjective
    <2>3. Once' /\ Free' \subseteq Free
      BY <2>1, <2>2 DEF PoolIInv, Once, Free
    <2>4. checking' \in [ask : Seq(Links), healthy : Seq(Links)] /\ idle' \in Seq(Links)
      BY <1>2, <2>1
    <2> QED
      BY <1>2, <1>3, <2>3, <2>4, CleanupIInv DEF TakeAll
  <1>4. CASE Fill
    <2>1. PICK to \in {"connect", "out"} : Step(Cleaner, "fill", to)
      BY <1>4 DEF Fill
    <2> QED
      BY <1>1, <1>2, <1>4, <2>1, QuietIInv DEF Fill
  <1>5. CASE FillConnect
    <2>1. CASE Step(Cleaner, "connect", "fill") /\ Connected
      BY <1>1, <1>5, <2>1, ConnectedIInv DEF FillConnect
    <2>2. CASE Step(Cleaner, "connect", "out") /\ UNCHANGED <<link, idle>>
      BY <1>1, <1>2, <1>5, <2>2, QuietIInv DEF FillConnect
    <2> QED
      BY <1>5, <2>1, <2>2 DEF FillConnect
  <1> QED
    BY <1>3, <1>4, <1>5, PingIInv, PutBackIInv DEF CleanupSteps, Ping, PutBack, TakeAll,
       Fill, FillConnect

LEMMA PoolStep == PoolIInv /\ [RedisPoolNext]_poolVars => PoolIInv' /\ [L!Next]_Leased
  <1> SUFFICES ASSUME PoolIInv, [RedisPoolNext]_poolVars PROVE PoolIInv' /\ [L!Next]_Leased
    OBVIOUS
  <1>1. ASSUME NEW f \in Clients, Get(f) \/ GetSteps(f) PROVE PoolIInv' /\ [L!Next]_Leased
    BY <1>1, GetIInv DEF Leased, L!Next
  <1>2. ASSUME NEW f \in Clients, Break(f) \/ ReturnSteps(f)
        PROVE  PoolIInv' /\ [L!Next]_Leased
    BY <1>2, ReturnIInv DEF Leased, L!Next
  <1>3. CASE TakeAll \/ CleanupSteps
    BY <1>3, CleanerIInv DEF Leased
  <1>4. CASE UNCHANGED poolVars
    BY <1>4 DEF poolVars, PoolIInv, RedisPoolTypeOK, Control, Once, Apart, Sole, Free, Leased
  <1> QED
    BY <1>1, <1>2, <1>3, <1>4 DEF RedisPoolNext

-----------------------------------------------------------------------------
(* The theorems.                                                           *)

\* The pool's own lists and the hands of its users have no connection twice, as
\* getConnection(), returnConnection() and the cleanup go on side by side.
THEOREM RedisPoolInvariant == RedisPoolSpec => []PoolIInv
  BY PoolInitIInv, PoolStep, PTL DEF RedisPoolSpec

\* A connection has one user, and is not idle nor asked by the cleanup while it
\* has one, although returnConnection() may take the wrong entry out of the active
\* ones (redis_connector.cc:802): a connection comes back by the pointer its user
\* has, and not by way of that list.
THEOREM UsersAreAlone == RedisPoolSpec => []OneUser
  BY RedisPoolInvariant, FreeOneUser, PTL

\* To its users the pool behaves as the specification of leases: each of its steps
\* hands a connection over that nobody has, takes one back, or is not seen.
THEOREM RedisImplementsLeases == RedisPoolSpec => LeasesSpec
  <1>1. RedisPoolInit => L!Init
    BY DEF RedisPoolInit, L!Init, Fibers
  <1> QED
    BY <1>1, PoolStep, RedisPoolInvariant, PTL DEF RedisPoolSpec, LeasesSpec, L!Spec, Leased
-----------------------------------------------------------------------------
(* RedisConnection: the inductive invariant.                               *)

Sessions == [multi : BOOLEAN, spoilt : BOOLEAN, queue : Seq(Commands), db : Databases]

\* What the server has queued is what was called since multi(), unless it has
\* refused a part of it; a connection that is not open has no session.
QueuedAsIssued ==
  /\ session \in Sessions /\ issued \in Seq(Commands)
  /\ inTransaction \in BOOLEAN
  /\ ~session.multi => session.queue = <<>> /\ ~session.spoilt
  /\ session.multi /\ ~session.spoilt => session.queue = issued
  /\ context # "open" => session = NewSession

SessionIInv == QueuedAsIssued /\ TransactionWhole

-----------------------------------------------------------------------------
(* The server's side of a call.                                            *)

LEMMA CommandNames ==
  ASSUME NEW c \in Commands
  PROVE  /\ c.name \in {"get", "exists", "ttl", "keys", "del", "pop", "incr",
                        "set", "getset", "setnx", "setnxex", "hset"}
         /\ c.key \in Keys
  BY DEF Commands, Named

LEMMA EffectParts ==
  \A reply, next, done :
    /\ Effect(reply, next, done).reply = reply /\ Effect(reply, next, done).session = next
    /\ Effect(reply, next, done).done = done
  BY DEF Effect

LEMMA ServedOther ==
  ASSUME NEW c
  PROVE  /\ c.name = "MULTI" => Served(c) = OnMulti
         /\ c.name = "DISCARD" => Served(c) = OnDiscard
         /\ c.name = "EXEC" => Served(c) = OnExec
         /\ c.name = "PING" => Served(c) = OnPing
  BY CommandNames DEF Served

LEMMA ServedCommand ==
  ASSUME NEW c \in Commands
  PROVE  Served(c) = OnCommand(c)
  BY CommandNames DEF Served

LEMMA SessionParts ==
  ASSUME QueuedAsIssued
  PROVE  /\ session = [multi |-> session.multi, spoilt |-> session.spoilt,
                       queue |-> session.queue, db |-> session.db]
         /\ session.multi \in BOOLEAN /\ session.spoilt \in BOOLEAN
         /\ session.queue \in Seq(Commands) /\ session.db \in Databases
  BY DEF QueuedAsIssued, Sessions

LEMMA NewSessions ==
  ASSUME QueuedAsIssued
  PROVE  /\ NewSession \in Sessions /\ Closed \in Sessions
         /\ ~NewSession.multi /\ ~NewSession.spoilt /\ NewSession.queue = <<>>
         /\ ~Closed.multi /\ ~Closed.spoilt /\ Closed.queue = <<>>
  <1>1. session.db \in Databases /\ 0 \in Databases /\ <<>> \in Seq(Commands)
    BY SessionParts DEF Databases
  <1>2. /\ NewSession \in Sessions
        /\ ~NewSession.multi /\ ~NewSession.spoilt /\ NewSession.queue = <<>>
    BY <1>1 DEF NewSession, Sessions
  <1>3. \A r \in Sessions, d \in Databases :
          /\ [r EXCEPT !.db = d] \in Sessions
          /\ [r EXCEPT !.db = d].multi = r.multi /\ [r EXCEPT !.db = d].spoilt = r.spoilt
          /\ [r EXCEPT !.db = d].queue = r.queue
    BY DEF Sessions
  <1> QED
    BY <1>1, <1>2, <1>3 DEF Closed

\* What the caller gets of a call: the server's answer, or none and no connection.
Answers(c, s) ==
  /\ context = "open" /\ context' = "open" /\ session' = s.session
  /\ last' = [call |-> c, answer |-> Answer(c, s.reply), done |-> s.done,
              queued |-> session.multi, before |-> store[Database], open |-> TRUE]
  /\ issued' = Issued(c, s.reply)
  /\ inTransaction' = InTransaction(c, Answer(c, s.reply))
Loses(c) ==
  /\ context' # "open" /\ session' = NewSession
  /\ last'.call = c /\ last'.answer = Answer(c, None) /\ ~last'.open
  /\ last'.queued = session.multi
  /\ issued' \in {issued, <<>>} \/ (c \in Commands /\ issued' = Append(issued, c))
  /\ inTransaction' = InTransaction(c, Answer(c, None))

LEMMA ExecuteEnds ==
  ASSUME NEW c, Execute(c), context # "open" => session = NewSession
  PROVE  Loses(c) \/ \E s \in Served(c) : Answers(c, s)
  <1>1. ASSUME NEW s \in Served(c), NEW lost \in BOOLEAN, context = "open",
               LET r == IF lost THEN None ELSE s.reply
               IN /\ context' = IF lost THEN "broken" ELSE "open"
                  /\ session' = IF lost THEN NewSession ELSE s.session
                  /\ last' = [call |-> c, answer |-> Answer(c, r), done |-> s.done,
                              queued |-> session.multi, before |-> store[Database],
                              open |-> ~lost]
                  /\ issued' = Issued(c, r)
                  /\ inTransaction' = InTransaction(c, Answer(c, r))
        PROVE  Loses(c) \/ Answers(c, s)
    <2>1. CASE lost
      <3>1. issued' = Issued(c, None)
        BY <1>1, <2>1
      <3>2. issued' \in {issued, <<>>} \/ (c \in Commands /\ issued' = Append(issued, c))
        BY <3>1 DEF Issued
      <3> QED
        BY <1>1, <2>1, <3>2 DEF Loses
    <2>2. CASE ~lost
      BY <1>1, <2>2 DEF Answers
    <2> QED
      BY <2>1, <2>2
  <1> QED
    BY <1>1 DEF Execute, Loses

LEMMA LosesIInv ==
  ASSUME SessionIInv, NEW c, c \in Commands \/ c.name \in {"MULTI", "DISCARD", "EXEC", "PING"},
         Loses(c)
  PROVE  SessionIInv'
  <1>1. inTransaction' \in BOOLEAN
    BY DEF SessionIInv, QueuedAsIssued, Loses, InTransaction
  <1>2. issued' \in Seq(Commands)
    <2>1. issued \in Seq(Commands) /\ <<>> \in Seq(Commands)
      BY DEF SessionIInv, QueuedAsIssued
    <2>2. c \in Commands => Append(issued, c) \in Seq(Commands)
      BY <2>1
    <2> QED
      BY <2>1, <2>2 DEF Loses
  <1>3. QueuedAsIssued'
    BY <1>1, <1>2, NewSessions DEF SessionIInv, QueuedAsIssued, Loses
  <1>4. c.name = "EXEC" => Answer(c, None) = 0
    BY DEF Answer, KeysAnswer, Failed, None, Reply
  <1> QED
    BY <1>3, <1>4 DEF SessionIInv, TransactionWhole, Loses

\* The server's answer to a command of the caller's, in a transaction or not.
LEMMA CommandIInv ==
  ASSUME SessionIInv, NEW c \in Commands, NEW s \in Served(c), Answers(c, s)
  PROVE  SessionIInv'
  <1>1. s \in OnCommand(c) /\ c.name \notin {"MULTI", "DISCARD", "EXEC", "PING"}
    BY ServedCommand, CommandNames
  <1>2. inTransaction' = inTransaction /\ context = "open" /\ context' = "open"
    BY <1>1 DEF Answers, InTransaction, Issued
  <1>3. last'.call.name # "EXEC"
    BY <1>1 DEF Answers
  <1>4. CASE session.multi
    <2>1. issued' = Append(issued, c)
      BY <1>1, <1>4 DEF Answers, Issued
    <2>2. \/ session' = [session EXCEPT !.queue = Append(@, c)]
          \/ session' = [session EXCEPT !.spoilt = TRUE]
      <3>1. \/ s = Effect(Status(QUEUED), [session EXCEPT !.queue = Append(@, c)], <<>>)
            \/ s = Effect(Error, [session EXCEPT !.spoilt = TRUE], <<>>)
        BY <1>1, <1>4 DEF OnCommand
      <3>2. \/ s.session = [session EXCEPT !.queue = Append(@, c)]
            \/ s.session = [session EXCEPT !.spoilt = TRUE]
        BY <3>1, EffectParts
      <3> QED
        BY <3>2 DEF Answers
    <2>3. Append(session.queue, c) \in Seq(Commands) /\ issued' \in Seq(Commands)
      BY <2>1, SessionParts DEF SessionIInv, QueuedAsIssued
    <2>4. session' \in Sessions /\ session'.multi
      BY <1>4, <2>2, <2>3 DEF SessionIInv, QueuedAsIssued, Sessions
    <2>5. ~session'.spoilt => session'.queue = issued'
      BY <1>4, <2>1, <2>2 DEF SessionIInv, QueuedAsIssued, Sessions
    <2>6. QueuedAsIssued'
      BY <1>2, <2>3, <2>4, <2>5 DEF SessionIInv, QueuedAsIssued
    <2> QED
      BY <1>2, <1>3, <1>4, <2>4, <2>6 DEF SessionIInv, TransactionWhole
  <1>5. CASE ~session.multi
    <2>1. issued' = <<>> /\ session' = session
      BY <1>1, <1>5 DEF Answers, OnCommand, Effect, Issued
    <2>2. QueuedAsIssued'
      BY <1>2, <1>5, <2>1 DEF SessionIInv, QueuedAsIssued
    <2> QED
      BY <1>2, <1>3, <1>5, <2>1, <2>2 DEF SessionIInv, TransactionWhole
  <1> QED
    BY <1>4, <1>5

\* ping(), multi(), exec() and discard().
LEMMA PingAnswered ==
  ASSUME SessionIInv, NEW c, c.name = "PING", NEW s \in Served(c), Answers(c, s)
  PROVE  SessionIInv'
  <1>1. s \in OnPing /\ c \notin Commands
    BY ServedOther, CommandNames
  <1>2. /\ inTransaction' = inTransaction /\ context = "open" /\ context' = "open"
        /\ session' = session /\ last'.call.name # "EXEC"
        /\ issued' = IF session.multi THEN issued ELSE <<>>
    <2>1. s.session = session
      BY <1>1, EffectParts DEF OnPing
    <2>2. Issued(c, s.reply) = IF session.multi THEN issued ELSE <<>>
      BY <1>1 DEF Issued
    <2>3. InTransaction(c, Answer(c, s.reply)) = inTransaction
      BY DEF InTransaction
    <2> QED
      BY <2>1, <2>2, <2>3 DEF Answers
  <1> QED
    BY <1>2 DEF SessionIInv, QueuedAsIssued, TransactionWhole

LEMMA MultiIInv ==
  ASSUME SessionIInv, NEW c, c.name = "MULTI", NEW s \in Served(c), Answers(c, s)
  PROVE  SessionIInv'
  <1>1. s \in OnMulti /\ c \notin Commands
    BY ServedOther, CommandNames
  <1>2. context = "open" /\ context' = "open" /\ last'.call.name # "EXEC"
    BY <1>1 DEF Answers
  <1>3. session' = [session EXCEPT !.multi = TRUE]
    BY <1>1 DEF Answers, OnMulti, Effect
  <1>4. session' \in Sessions /\ session'.multi
        /\ session'.queue = session.queue /\ session'.spoilt = session.spoilt
    BY <1>3 DEF SessionIInv, QueuedAsIssued, Sessions
  <1>5. CASE session.multi
    <2>1. s.reply = Error
      BY <1>1, <1>5 DEF OnMulti, Effect
    <2>2. issued' = issued /\ inTransaction' = inTransaction
      <3>1. Answer(c, s.reply) = 0 /\ s.reply.type = "ERROR"
        BY <2>1 DEF Answer, Error, Reply, Failed, Truth
      <3> QED
        BY <1>1, <3>1 DEF Answers, InTransaction, Issued, SessionIInv, QueuedAsIssued
    <2> QED
      BY <1>2, <1>4, <1>5, <2>2 DEF SessionIInv, QueuedAsIssued, TransactionWhole
  <1>6. CASE ~session.multi
    <2>1. s.reply = Status(OK)
      BY <1>1, <1>6 DEF OnMulti, Effect
    <2>2. issued' = <<>> /\ inTransaction' = TRUE
      <3>1. Answer(c, s.reply) = 1 /\ s.reply.type = "STATUS"
        BY <2>1 DEF Answer, Status, Reply, Failed, Truth
      <3> QED
        BY <1>1, <3>1 DEF Answers, InTransaction, Issued, SessionIInv, QueuedAsIssued
    <2>3. QueuedAsIssued'
      BY <1>2, <1>4, <1>6, <2>2 DEF SessionIInv, QueuedAsIssued
    <2> QED
      BY <1>2, <1>4, <2>2, <2>3 DEF SessionIInv, TransactionWhole
  <1> QED
    BY <1>5, <1>6 DEF SessionIInv, QueuedAsIssued, Sessions

LEMMA DiscardIInv ==
  ASSUME SessionIInv, NEW c, c.name = "DISCARD", NEW s \in Served(c), Answers(c, s)
  PROVE  SessionIInv'
  <1>1. s \in OnDiscard /\ c \notin Commands
    BY ServedOther, CommandNames
  <1>2. /\ context = "open" /\ context' = "open" /\ last'.call.name # "EXEC"
        /\ session' = Closed
        /\ issued' = IF session.multi THEN issued ELSE <<>>
    BY <1>1 DEF Answers, Issued, OnDiscard, Effect
  <1>3. ~session.multi => ~inTransaction
    BY <1>2 DEF SessionIInv, TransactionWhole
  <1>4. inTransaction' = FALSE
    <2>1. session.multi => s.reply = Status(OK)
      BY <1>1 DEF OnDiscard, Effect
    <2>2. session.multi => Answer(c, s.reply) = 1
      BY <2>1 DEF Answer, Status, Reply, Failed, Truth
    <2> QED
      <3>1. inTransaction' = (inTransaction /\ Answer(c, s.reply) = 0)
        BY DEF Answers, InTransaction
      <3>2. ~(inTransaction /\ Answer(c, s.reply) = 0)
        BY <1>3, <2>2 DEF SessionIInv, QueuedAsIssued
      <3> QED
        BY <3>1, <3>2
  <1>5. QueuedAsIssued'
    <2>1. issued' \in Seq(Commands)
      BY <1>2 DEF SessionIInv, QueuedAsIssued
    <2>2. session' \in Sessions /\ ~session'.multi /\ ~session'.spoilt /\ session'.queue = <<>>
      BY <1>2, NewSessions DEF SessionIInv
    <2> QED
      BY <1>2, <1>4, <2>1, <2>2 DEF QueuedAsIssued
  <1> QED
    BY <1>2, <1>4, <1>5, NewSessions DEF SessionIInv, TransactionWhole

\* What exec() returns is what the server has executed, and that is all that was
\* called since multi().
LEMMA ExecIInv ==
  ASSUME SessionIInv, NEW c, c.name = "EXEC", NEW s \in Served(c), Answers(c, s)
  PROVE  SessionIInv'
  <1>1. s \in OnExec /\ c \notin Commands
    BY ServedOther, CommandNames
  <1>2. /\ context = "open" /\ context' = "open" /\ last'.call = c
        /\ issued' = issued /\ inTransaction' = FALSE
        /\ last'.answer = Answer(c, s.reply) /\ last'.done = s.done
    BY <1>1 DEF Answers, InTransaction, Issued
  <1>3. session' = Closed
    BY <1>1 DEF Answers, OnExec, Effect
  <1>4. QueuedAsIssued'
    BY <1>2, <1>3, NewSessions DEF SessionIInv, QueuedAsIssued
  <1>5. /\ last'.answer # 0 => last'.done = issued' /\ last'.answer = Len(issued')
        /\ last'.answer = 0 => last'.done = <<>>
    <2>1. CASE ~session.multi \/ session.spoilt
      <3>1. s.reply = Error /\ s.done = <<>>
        BY <1>1, <2>1 DEF OnExec, Effect
      <3>2. Answer(c, s.reply) = 0
        BY <3>1 DEF Answer, KeysAnswer, Failed, Error, Reply
      <3> QED
        BY <1>2, <3>1, <3>2
    <2>2. CASE session.multi /\ ~session.spoilt
      <3>1. s.reply = Reply("ARRAY", Len(session.queue)) /\ s.done = session.queue
        BY <1>1, <2>2 DEF OnExec, Effect
      <3>2. Answer(c, s.reply) = Len(session.queue)
        BY <3>1 DEF Answer, KeysAnswer, Failed, GetArraySize, Reply
      <3>3. session.queue = issued /\ issued \in Seq(Commands)
        BY <2>2 DEF SessionIInv, QueuedAsIssued
      <3>4. Len(issued) = 0 => issued = <<>>
        BY <3>3
      <3> QED
        BY <1>2, <3>1, <3>2, <3>3, <3>4
    <2> QED
      BY <2>1, <2>2 DEF SessionIInv, QueuedAsIssued, Sessions
  <1> QED
    BY <1>2, <1>3, <1>4, <1>5, NewSessions DEF SessionIInv, TransactionWhole

-----------------------------------------------------------------------------
LEMMA SessionStep == SessionIInv /\ [SessionNext]_sessionVars => SessionIInv'
  <1> SUFFICES ASSUME SessionIInv, [SessionNext]_sessionVars PROVE SessionIInv'
    OBVIOUS
  <1>1. ASSUME NEW c, Execute(c),
               c \in Commands \/ c.name \in {"MULTI", "DISCARD", "EXEC", "PING"}
        PROVE  SessionIInv'
    <2>1. CASE Loses(c)
      BY <1>1, <2>1, LosesIInv
    <2>2. ASSUME NEW s \in Served(c), Answers(c, s) PROVE SessionIInv'
      <3>1. CASE c \in Commands
        BY <2>2, <3>1, CommandIInv
      <3>2. CASE c.name = "MULTI"
        BY <2>2, <3>2, MultiIInv
      <3>3. CASE c.name = "DISCARD"
        BY <2>2, <3>3, DiscardIInv
      <3>4. CASE c.name = "EXEC"
        BY <2>2, <3>4, ExecIInv
      <3>5. CASE c.name = "PING"
        BY <2>2, <3>5, PingAnswered
      <3> QED
        BY <1>1, <3>1, <3>2, <3>3, <3>4, <3>5
    <2> QED
      BY <1>1, <2>1, <2>2, ExecuteEnds DEF SessionIInv, QueuedAsIssued
  <1>2. CASE Command
    BY <1>1, <1>2 DEF Command
  <1>3. CASE PingServer \/ Multi \/ Exec \/ Discard
    <2>1. \A n : Call(n).name = n
      BY DEF Call
    <2> QED
      BY <1>1, <1>3, <2>1 DEF PingServer, Multi, Exec, Discard
  <1>4. CASE Reconnect \/ Close
    <2>1. /\ inTransaction' = FALSE /\ session' = NewSession /\ issued' = <<>>
          /\ last'.call.name = "PING"
      BY <1>4 DEF Reconnect, Close, NoCall, Call
    <2>2. QueuedAsIssued'
      <3>1. issued' \in Seq(Commands)
        BY <2>1
      <3>2. NewSession \in Sessions /\ ~NewSession.multi /\ ~NewSession.spoilt
            /\ NewSession.queue = <<>>
        BY NewSessions DEF SessionIInv
      <3> QED
        BY <2>1, <3>1, <3>2 DEF QueuedAsIssued
    <2> QED
      BY <2>1, <2>2, NewSessions DEF SessionIInv, TransactionWhole
  <1>5. CASE OtherClient
    <2>1. last'.call.name = "PING" /\ UNCHANGED <<context, inTransaction, session, issued>>
      BY <1>5 DEF OtherClient, NoCall, Call
    <2> QED
      BY <2>1 DEF SessionIInv, QueuedAsIssued, TransactionWhole
  <1>6. CASE UNCHANGED sessionVars
    BY <1>6 DEF SessionIInv, QueuedAsIssued, TransactionWhole, sessionVars
  <1> QED
    BY <1>2, <1>3, <1>4, <1>5, <1>6 DEF SessionNext

LEMMA SessionInitIInv == SessionInit => SessionIInv
  <1> SUFFICES ASSUME SessionInit PROVE SessionIInv
    OBVIOUS
  <1>1. /\ session \in Sessions /\ ~session.multi /\ ~session.spoilt /\ session.queue = <<>>
    <2>1. Database \in Databases /\ <<>> \in Seq(Commands)
      BY DEF Databases
    <2>2. session = [NewSession EXCEPT !.db = Database]
      BY DEF SessionInit
    <2> QED
      BY <2>1, <2>2 DEF NewSession, Sessions
  <1>2. /\ context = "open" /\ inTransaction = FALSE /\ issued = <<>>
        /\ last.call.name = "PING"
    BY DEF SessionInit, NoCall, Call
  <1>3. <<>> \in Seq(Commands)
    OBVIOUS
  <1> QED
    BY <1>1, <1>2, <1>3 DEF SessionIInv, QueuedAsIssued, TransactionWhole

\* What each command's function makes of the server's reply.
LEMMA AnswerIsMeant ==
  ASSUME NEW c \in Commands, NEW s
  PROVE  Answer(c, ReplyTo(c, s)) = Meant(c, s)
  <1> USE DEF Answer, ReplyTo, Meant, Failed, Truth, Reply, Absent
  <1>1. CASE c.name = "set"
    BY <1>1 DEF SetAnswer, Status, OK
  <1>2. CASE c.name = "hset"
    BY <1>2 DEF HsetAnswer, Number
  <1>3. CASE c.name \in {"get", "getset", "pop"}
    BY <1>3 DEF GetAnswer, GetString, Text
  <1>4. CASE c.name = "del"
    BY <1>4 DEF CountAnswer, GetInteger, Number
  <1>5. CASE c.name = "exists"
    BY <1>5 DEF ExistsAnswer, GetInteger, Number
  <1>6. CASE c.name = "setnx"
    BY <1>6 DEF SetnxAnswer, GetInteger, Number
  <1>7. CASE c.name = "setnxex"
    BY <1>7 DEF SetnxexAnswer, Status
  <1>8. CASE c.name = "incr"
    BY <1>8 DEF CountAnswer, GetInteger, Number, Error
  <1>9. CASE c.name = "ttl"
    BY <1>9 DEF TtlAnswer, GetInteger, Number
  <1>10. CASE c.name = "keys"
    BY <1>10 DEF KeysAnswer, GetArraySize
  <1> QED
    BY <1>1, <1>2, <1>3, <1>4, <1>5, <1>6, <1>7, <1>8, <1>9, <1>10, CommandNames

\* What a call of a command leaves, when the database it goes to is the one selected.
LEMMA CommandAnswered ==
  ASSUME NEW c \in Commands, NEW s \in Served(c), Answers(c, s), session.db = Database
  PROVE  AnswersAsMeant'
  <1>1. /\ last'.call = c /\ last'.answer = Answer(c, s.reply) /\ last'.done = s.done
        /\ last'.queued = session.multi /\ last'.before = store[Database]
    BY DEF Answers
  <1>2. ASSUME ~session.multi
        PROVE  s.done = <<c>> /\ Answer(c, s.reply) = Meant(c, store[Database])
    <2>1. s = Effect(ReplyTo(c, store[session.db]), session, <<c>>)
      BY <1>2, ServedCommand DEF OnCommand
    <2>2. s.reply = ReplyTo(c, store[Database]) /\ s.done = <<c>>
      BY <2>1, EffectParts
    <2> QED
      BY <2>2, AnswerIsMeant
  <1> QED
    BY <1>1, <1>2 DEF AnswersAsMeant

LEMMA OtherAnswered ==
  ASSUME last'.call.name \in {"MULTI", "DISCARD", "EXEC", "PING"}
  PROVE  AnswersAsMeant'
  <1>1. last'.call \notin Commands
    BY CommandNames
  <1> QED
    BY <1>1 DEF AnswersAsMeant

LEMMA AnswersStep ==
  ASSUME Database = 0, SessionIInv, AnswersAsMeant, [SessionNext]_sessionVars
  PROVE  AnswersAsMeant'
  <1>1. session.db = Database
    BY SessionParts DEF SessionIInv, Databases
  <1>2. ASSUME NEW c, Loses(c) PROVE AnswersAsMeant'
    BY <1>2 DEF Loses, AnswersAsMeant
  <1>3. context # "open" => session = NewSession
    BY DEF SessionIInv, QueuedAsIssued
  <1>4. CASE Command
    BY <1>1, <1>2, <1>3, <1>4, ExecuteEnds, CommandAnswered DEF Command
  <1>5. CASE PingServer \/ Multi \/ Exec \/ Discard
    <2>1. \A n : Call(n).name = n
      BY DEF Call
    <2>2. ASSUME NEW n \in {"MULTI", "DISCARD", "EXEC", "PING"}, Execute(Call(n))
          PROVE  AnswersAsMeant'
      <3>1. Loses(Call(n)) \/ \E s \in Served(Call(n)) : Answers(Call(n), s)
        BY <1>3, <2>2, ExecuteEnds
      <3>2. last'.call = Call(n)
        BY <3>1 DEF Loses, Answers
      <3> QED
        BY <2>1, <3>2, OtherAnswered
    <2> QED
      BY <1>5, <2>2 DEF PingServer, Multi, Exec, Discard
  <1>6. CASE Reconnect \/ Close \/ OtherClient
    <2>1. last'.call.name = "PING"
      BY <1>6 DEF Reconnect, Close, OtherClient, NoCall, Call
    <2> QED
      BY <2>1, OtherAnswered
  <1>7. CASE UNCHANGED sessionVars
    BY <1>7 DEF AnswersAsMeant, sessionVars
  <1> QED
    BY <1>4, <1>5, <1>6, <1>7 DEF SessionNext

\* However commands, transactions, losses and other clients interleave, exec()
\* returns results only of all that was called since multi(), and the server holds a
\* connection to be in a transaction when the caller does (redis_connector.cc:646).
THEOREM TransactionsAreWhole == SessionSpec => []TransactionWhole
  <1>1. SessionIInv => TransactionWhole
    BY DEF SessionIInv
  <1> QED
    BY <1>1, SessionInitIInv, SessionStep, PTL DEF SessionSpec

\* A command's answer says what the server found and did, for any keys and numbers
\* (redis_connector.cc:376).  The database is the one a connection begins with,
\* because a reconnect() does not select another again (redis_connector.cc:200).
THEOREM AnswersAreMeant ==
  ASSUME Database = 0
  PROVE  SessionSpec => []AnswersAsMeant
  <1>1. SessionInit => AnswersAsMeant
    <2>1. NoCall.call.name = "PING"
      BY DEF NoCall, Call
    <2>2. NoCall.call \notin Commands
      BY <2>1, CommandNames
    <2> QED
      BY <2>2 DEF SessionInit, AnswersAsMeant
  <1>2. SessionIInv /\ AnswersAsMeant /\ [SessionNext]_sessionVars => AnswersAsMeant'
    BY AnswersStep
  <1> QED
    BY <1>1, <1>2, SessionInitIInv, SessionStep, PTL DEF SessionSpec
=============================================================================
