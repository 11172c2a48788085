--------------------------- MODULE MySQLPoolProofs ---------------------------
(***************************************************************************)
(* What holds of the MySQL connection pool for any number of callers, any  *)
(* set of connections and any limits.                                      *)
(***************************************************************************)
EXTENDS MySQLPool, SequenceLemmas, FiniteSetTheorems, TLAPS

-----------------------------------------------------------------------------
(* The inductive invariant.  A call has a connection at hand from the step *)
(* that takes or opens one to the one that returns it; OnePlace is in      *)
(* terms of positions, so that no step needs the sets Idle and Held.       *)

Control ==
  \A k \in Callers : conn[k] # NoConn <=> pc[k] \in {"validate", "push", "using"}

Distinct(s) == \A i, j \in DOMAIN s : s[i] = s[j] => i = j

Sole == \A k, l \in Callers : conn[k] = conn[l] /\ conn[k] # NoConn => k = l

Apart ==
  \A i \in DOMAIN m_idleConnections : \A k \in Callers :
    m_idleConnections[i] # conn[k]

Places == Distinct(m_idleConnections) /\ Sole /\ Apart

IInv == TypeOK /\ Control /\ Places

LEMMA PlacesOnePlace == TypeOK /\ Places => OnePlace
  BY PoolAssumption DEF TypeOK, Places, Distinct, Sole, Apart, OnePlace, Idle, Held, ToSet

\* The sequences the constructor may build.
LEMMA InitialList ==
  ASSUME NEW s \in UNION {[1..n -> Conns] : n \in 0..MinConnections}
  PROVE  s \in Seq(Conns) /\ Len(s) \in 0..MinConnections
  <1>1. PICK n \in 0..MinConnections : s \in [1..n -> Conns]
    OBVIOUS
  <1>2. n \in Nat
    BY PoolAssumption
  <1> QED
    BY <1>1, <1>2

LEMMA InitIInv == Init => IInv
  <1> SUFFICES ASSUME Init PROVE IInv
    OBVIOUS
  <1>1. m_idleConnections \in Seq(Conns) /\ Distinct(m_idleConnections)
        /\ open \subseteq Conns
    BY InitialList DEF Init, Distinct, ToSet
  <1>2. TypeOK
    <2>1. <<>> \in Seq(Conns)
      OBVIOUS
    <2> QED
      BY <1>1, <2>1 DEF Init, TypeOK, Labels
  <1>3. Control /\ Sole
    BY DEF Init, Control, Sole
  <1>4. Apart
    <2>1. \A i \in DOMAIN m_idleConnections : m_idleConnections[i] \in Conns
      BY <1>1
    <2> QED
      BY <2>1, PoolAssumption DEF Init, Apart
  <1> QED
    BY <1>1, <1>2, <1>3, <1>4 DEF IInv, Places

\* Appending an entry that is not in a list keeps its entries distinct.
LEMMA AppendDistinct ==
  ASSUME NEW S, NEW s \in Seq(S), NEW x \in S, Distinct(s),
         \A i \in DOMAIN s : s[i] # x
  PROVE  /\ Append(s, x) \in Seq(S) /\ Distinct(Append(s, x))
         /\ DOMAIN Append(s, x) = DOMAIN s \cup {Len(s) + 1}
         /\ \A i \in DOMAIN s : Append(s, x)[i] = s[i]
         /\ Append(s, x)[Len(s) + 1] = x
  <1>1. /\ Append(s, x) \in Seq(S) /\ Len(Append(s, x)) = Len(s) + 1
        /\ DOMAIN Append(s, x) = 1..(Len(s) + 1) /\ DOMAIN s = 1..Len(s)
        /\ Len(s) \in Nat
    OBVIOUS
  <1>2. DOMAIN Append(s, x) = DOMAIN s \cup {Len(s) + 1}
    BY <1>1
  <1>3. \A i \in DOMAIN s : Append(s, x)[i] = s[i]
    BY <1>1, AppendProperties
  <1>4. Append(s, x)[Len(s) + 1] = x
    BY <1>1, AppendProperties
  <1>5. Len(s) + 1 \notin DOMAIN s
    BY <1>1
  <1> QED
    BY <1>1, <1>2, <1>3, <1>4, <1>5 DEF Distinct


-----------------------------------------------------------------------------
(* Every step preserves it, one action after the other.                    *)

\* The step by which a call takes the newest idle connection.
LEMMA PopIInv ==
  ASSUME IInv, NEW k \in Callers, Pop(k)
  PROVE  IInv'
  <1> USE DEF IInv, TypeOK, Labels, Goto
  <1>1. CASE m_idleConnections # <<>>
    <2> DEFINE rest == Front(m_idleConnections)
               last == Last(m_idleConnections)
               n    == Len(m_idleConnections)
    <2>1. /\ m_idleConnections' = rest
          /\ conn' = [conn EXCEPT ![k] = last]
          /\ pc' = [pc EXCEPT ![k] = "validate"] /\ pc[k] = "pop"
          /\ UNCHANGED <<m_activeConnections, m_running, open, sweeping>>
      BY <1>1 DEF Pop
    <2>2. /\ rest \in Seq(Conns) /\ n \in Nat \ {0} /\ last \in Conns
          /\ last = m_idleConnections[n]
          /\ DOMAIN m_idleConnections = 1..n
          /\ DOMAIN rest = 1..(n - 1)
          /\ \A i \in 1..(n - 1) : rest[i] = m_idleConnections[i]
      BY <1>1, FrontProperties, LenProperties
    <2> HIDE DEF rest, last, n
    <2>3. TypeOK'
      BY <2>1, <2>2
    <2>4. Control'
      BY <2>1, <2>2, PoolAssumption DEF Control
    <2>5. Distinct(m_idleConnections)'
      <3>1. \A i, j \in 1..n : m_idleConnections[i] = m_idleConnections[j] => i = j
        BY <2>2 DEF Places, Distinct
      <3>2. 1..(n - 1) \subseteq 1..n
        BY <2>2
      <3> QED
        BY <2>1, <2>2, <3>1, <3>2 DEF Distinct
    <2>6. \A l \in Callers : conn[l] # last
      BY <2>2 DEF Places, Apart
    <2>7. Sole'
      BY <2>1, <2>6 DEF Places, Sole
    <2>8. Apart'
      <3>1. \A i \in 1..(n - 1) : rest[i] # last
        BY <2>2 DEF Places, Distinct
      <3>2. \A i \in 1..(n - 1) : \A l \in Callers : rest[i] # conn[l]
        <4>1. \A i \in 1..(n - 1) : i \in DOMAIN m_idleConnections
          BY <2>2
        <4> QED
          BY <2>2, <4>1 DEF Places, Apart
      <3> QED
        BY <2>1, <2>2, <3>1, <3>2 DEF Apart
    <2> QED
      BY <2>3, <2>4, <2>5, <2>7, <2>8 DEF Places
  <1>2. CASE m_idleConnections = <<>>
    BY <1>2 DEF Pop, Control, Places, Distinct, Sole, Apart
  <1> QED
    BY <1>1, <1>2

\* A call opens a connection, or fails to.
LEMMA ConnectIInv ==
  ASSUME IInv, NEW k \in Callers, Connect(k)
  PROVE  IInv'
  <1> USE DEF IInv, TypeOK, Labels, Goto
  <1>1. CASE Goto(k, "connect", "out") /\ UNCHANGED <<conn, open>>
    BY <1>1 DEF Connect, Control, Places, Distinct, Sole, Apart, poolVars
  <1>2. ASSUME NEW x \in Conns \ (Idle \cup Active \cup Held),
               Goto(k, "connect", "push"),
               conn' = [conn EXCEPT ![k] = x], open' = open \cup {x}
        PROVE  IInv'
    <2>1. UNCHANGED <<m_idleConnections, m_activeConnections, m_running, sweeping>>
      BY DEF Connect, poolVars
    <2>2. TypeOK'
      BY <1>2, <2>1
    <2>3. Control'
      BY <1>2, PoolAssumption DEF Control
    <2>4. \A l \in Callers : conn[l] # x
      BY <1>2, PoolAssumption DEF Held
    <2>5. Sole'
      BY <1>2, <2>4 DEF Places, Sole
    <2>6. Apart' /\ Distinct(m_idleConnections)'
      <3>1. \A i \in DOMAIN m_idleConnections : m_idleConnections[i] # x
        BY <1>2 DEF Idle, ToSet
      <3> QED
        BY <1>2, <2>1, <3>1 DEF Places, Apart
    <2> QED
      BY <2>2, <2>3, <2>5, <2>6 DEF Places
  <1> QED
    BY <1>1, <1>2 DEF Connect


\* A caller returns its connection: to the idle list, or to be closed.
LEMMA ReturnIInv ==
  ASSUME IInv, NEW k \in Callers, Return(k)
  PROVE  IInv'
  <1> USE DEF IInv, TypeOK, Labels, Goto
  <1> DEFINE c == conn[k]
             n == Len(m_idleConnections)
  <1>1. /\ pc[k] = "using" /\ pc' = [pc EXCEPT ![k] = "out"]
        /\ conn' = [conn EXCEPT ![k] = NoConn]
        /\ UNCHANGED <<m_running, sweeping>>
    BY DEF Return
  <1>2. c \in Conns /\ c # NoConn
    BY <1>1, PoolAssumption DEF Control
  <1>3. m_activeConnections' \in Seq(Conns)
    BY RemoveAtProperties DEF Return
  <1>4. Control'
    BY <1>1 DEF Control
  <1>5. Sole'
    BY <1>1 DEF Places, Sole
  <1>6. \A l \in Callers : conn[l] = c => l = k
    BY <1>2 DEF Places, Sole
  <1>7. CASE c \in open /\ Len(m_idleConnections) < MaxConnections
    <2>1. m_idleConnections' = Append(m_idleConnections, c) /\ open' = open
      BY <1>7 DEF Return
    <2>2. /\ m_idleConnections' \in Seq(Conns) /\ Distinct(m_idleConnections)'
          /\ DOMAIN m_idleConnections' = DOMAIN m_idleConnections \cup {n + 1}
          /\ \A i \in DOMAIN m_idleConnections :
               m_idleConnections'[i] = m_idleConnections[i]
          /\ m_idleConnections'[n + 1] = c
      <3>1. \A i \in DOMAIN m_idleConnections : m_idleConnections[i] # c
        BY DEF Places, Apart
      <3> HIDE DEF c
      <3>2. \A i, j \in DOMAIN m_idleConnections' :
              m_idleConnections'[i] = m_idleConnections'[j] => i = j
        BY <1>2, <2>1, <3>1, AppendDistinct DEF Places, Distinct
      <3> QED
        BY <1>2, <2>1, <3>1, <3>2, AppendDistinct DEF Places, Distinct
    <2>3. TypeOK'
      BY <1>1, <1>3, <2>1, <2>2
    <2>4. Apart'
      BY <1>1, <1>2, <1>6, <2>2, PoolAssumption DEF Places, Apart
    <2> QED
      BY <1>4, <1>5, <2>2, <2>3, <2>4 DEF Places
  <1>8. CASE ~(c \in open /\ Len(m_idleConnections) < MaxConnections)
    <2>1. m_idleConnections' = m_idleConnections /\ open' \subseteq open
      BY <1>8 DEF Return
    <2>2. TypeOK'
      BY <1>1, <1>3, <2>1
    <2>3. Apart'
      <3>1. \A i \in DOMAIN m_idleConnections : m_idleConnections[i] # NoConn
        BY PoolAssumption
      <3> QED
        BY <1>1, <2>1, <3>1 DEF Places, Apart
    <2> QED
      BY <1>4, <1>5, <2>1, <2>2, <2>3 DEF Places, Distinct
  <1> QED
    BY <1>7, <1>8

\* The cleanup closes the oldest idle connections.
LEMMA SweepIInv ==
  ASSUME IInv, Sweep
  PROVE  IInv'
  <1> USE DEF IInv, TypeOK
  <1> DEFINE n == Len(m_idleConnections)
             surplus == IF n > MinConnections THEN n - MinConnections ELSE 0
  <1>1. surplus \in 0..n
    <2>1. n \in Nat /\ MinConnections \in Nat
      BY PoolAssumption
    <2> QED
      BY <2>1
  <1>2. /\ m_idleConnections' = SubSeq(m_idleConnections, surplus + 1, n)
        /\ open' \subseteq open /\ sweeping' = FALSE
        /\ UNCHANGED <<m_activeConnections, m_running, pc, conn>>
    BY DEF Sweep, callVars
  <1> HIDE DEF surplus
  <1>3. /\ m_idleConnections' \in Seq(Conns)
        /\ \A i \in DOMAIN m_idleConnections' :
             /\ surplus + i \in DOMAIN m_idleConnections
             /\ m_idleConnections'[i] = m_idleConnections[surplus + i]
    BY <1>1, <1>2, RestProperties
  <1>4. TypeOK' /\ Control' /\ Sole'
    BY <1>2, <1>3 DEF Control, Places, Sole
  <1>5. Apart'
    BY <1>2, <1>3 DEF Places, Apart
  <1>6. Distinct(m_idleConnections)'
    <2>1. ASSUME NEW i \in DOMAIN m_idleConnections', NEW j \in DOMAIN m_idleConnections',
                 m_idleConnections'[i] = m_idleConnections'[j]
          PROVE  i = j
      <3>1. surplus + i = surplus + j
        BY <1>3, <2>1 DEF Places, Distinct
      <3>2. i \in Nat /\ j \in Nat /\ surplus \in Nat
        BY <1>1, <1>3
      <3> QED
        BY <3>1, <3>2
    <2> QED
      BY <2>1 DEF Distinct
  <1> QED
    BY <1>4, <1>5, <1>6 DEF Places


LEMMA StepIInv == IInv /\ [Next]_vars => IInv'
  <1> SUFFICES ASSUME IInv, [Next]_vars
               PROVE  IInv'
    OBVIOUS
  <1> USE DEF IInv, TypeOK, Labels, Goto, Places
  <1>1. ASSUME NEW k \in Callers, CheckIdle(k) \/ Count(k) \/ Recheck(k)
        PROVE  IInv'
    BY <1>1 DEF CheckIdle, Count, Recheck, poolVars, Control, Distinct, Sole, Apart
  <1>2. ASSUME NEW k \in Callers, Validate(k)
        PROVE  IInv'
    <2>1. TypeOK' /\ Control'
      BY <1>2 DEF Validate, poolVars, Control
    <2>2. Distinct(m_idleConnections)'
      BY <1>2 DEF Validate, poolVars, Distinct
    <2>3. Sole'
      BY <1>2 DEF Validate, Sole
    <2>4. Apart'
      <3>1. \A i \in DOMAIN m_idleConnections : m_idleConnections[i] # NoConn
        BY PoolAssumption
      <3> QED
        BY <1>2, <3>1 DEF Validate, poolVars, Apart
    <2> QED
      BY <2>1, <2>2, <2>3, <2>4
  <1>3. ASSUME NEW k \in Callers, Push(k)
        PROVE  IInv'
    <2>1. conn[k] \in Conns
      BY <1>3 DEF Push, Control
    <2> QED
      BY <1>3, <2>1 DEF Push, Control, Distinct, Sole, Apart
  <1>4. CASE CheckRunning
    BY <1>4 DEF CheckRunning, poolVars, callVars, Control, Distinct, Sole, Apart
  <1>5. CASE CloseAll
    <2>1. <<>> \in Seq(Conns) /\ DOMAIN <<>> = {}
      OBVIOUS
    <2> QED
      BY <1>5, <2>1 DEF CloseAll, callVars, Control, Distinct, Sole, Apart
  <1>6. ASSUME NEW x \in Conns, Drop(x)
        PROVE  IInv'
    BY <1>6 DEF Drop, poolVars, callVars, Control, Distinct, Sole, Apart
  <1>7. CASE UNCHANGED vars
    BY <1>7 DEF vars, poolVars, callVars, Control, Distinct, Sole, Apart
  <1> QED
    BY <1>1, <1>2, <1>3, <1>4, <1>5, <1>6, <1>7, PopIInv, ConnectIInv, ReturnIInv,
       SweepIInv DEF Next, Call

\* The state of the pool and of the calls keeps its types.
THEOREM TypeCorrect == Spec => []TypeOK
  <1>1. IInv => TypeOK
    BY DEF IInv
  <1> QED
    BY <1>1, InitIInv, StepIInv, PTL DEF Spec

\* getConnection() never hands out a connection that is idle or in other
\* hands, although it takes and gives up m_mutex four times on its way.
THEOREM OnePlaceAlways == Spec => []OnePlace
  <1>1. IInv => OnePlace
    BY PlacesOnePlace DEF IInv
  <1> QED
    BY <1>1, InitIInv, StepIInv, PTL DEF Spec

-----------------------------------------------------------------------------
(* The pool leases its connections.                                        *)

LEMMA InitLeases == Init => L!Init
  BY DEF Init, L!Init, leases

LEMMA StepLeases == IInv /\ [Next]_vars => [L!Next]_leases
  <1> SUFFICES ASSUME IInv, [Next]_vars
               PROVE  [L!Next]_leases
    OBVIOUS
  <1> USE DEF IInv, TypeOK, Goto
  <1>1. ASSUME NEW k \in Callers, Push(k)
        PROVE  L!Acquire(k)
    <2>1. /\ pc[k] = "push" /\ pc' = [pc EXCEPT ![k] = "using"] /\ conn' = conn
          /\ conn[k] \in Conns /\ conn[k] # NoConn
      BY <1>1 DEF Push, Control
    <2>2. \A other \in Callers : leases[other] # conn[k]
      BY <2>1 DEF leases, Places, Sole
    <2>3. leases[k] = NoConn /\ leases' = [leases EXCEPT ![k] = conn[k]]
      BY <2>1 DEF leases
    <2> QED
      BY <2>1, <2>2, <2>3 DEF L!Acquire
  <1>2. ASSUME NEW k \in Callers, Return(k)
        PROVE  L!Release(k)
    <2>1. /\ pc[k] = "using" /\ pc' = [pc EXCEPT ![k] = "out"]
          /\ conn' = [conn EXCEPT ![k] = NoConn] /\ conn[k] # NoConn
      BY <1>2 DEF Return, Control
    <2>2. leases[k] # NoConn /\ leases' = [leases EXCEPT ![k] = NoConn]
      BY <2>1 DEF leases
    <2> QED
      BY <2>2 DEF L!Release
  <1>3. ASSUME NEW k \in Callers,
               \/ CheckIdle(k) \/ Count(k) \/ Recheck(k) \/ Validate(k)
               \/ Pop(k) \/ Connect(k)
        PROVE  UNCHANGED leases
    <2>1. \A l \in Callers : (pc'[l] = "using" <=> pc[l] = "using")
                             /\ (pc[l] = "using" => conn'[l] = conn[l])
      BY <1>3 DEF CheckIdle, Count, Recheck, Validate, Pop, Connect
    <2> QED
      BY <2>1 DEF leases
  <1>4. CASE \/ CheckRunning \/ Sweep \/ CloseAll \/ UNCHANGED vars
             \/ \E x \in Conns : Drop(x)
    BY <1>4 DEF CheckRunning, Sweep, CloseAll, Drop, vars, callVars, leases
  <1> QED
    BY <1>1, <1>2, <1>3, <1>4 DEF Next, Call, L!Next

\* To a caller the pool behaves as the plain specification of leases: each
\* step of the pool hands over a free connection, takes one back, or is not
\* visible at all.
THEOREM ImplementsLeases == Spec => LeasesSpec
  BY InitLeases, StepLeases, InitIInv, StepIInv, PTL DEF Spec, LeasesSpec, L!Spec


-----------------------------------------------------------------------------
(* Connections are opened on demand only.                                  *)

LEMMA EngagedFinite ==
  ASSUME NEW S \in SUBSET Callers
  PROVE  /\ IsFiniteSet(S) /\ Cardinality(S) \in Nat
         /\ Cardinality(S) <= Cardinality(Callers)
         /\ Cardinality(Callers) \in Nat
  BY PoolAssumption, FS_Subset, FS_CardinalityType

LEMMA InitOnDemand == Init => OpenedOnDemand
  <1> SUFFICES ASSUME Init PROVE OpenedOnDemand
    OBVIOUS
  <1>1. Len(m_idleConnections) \in 0..MinConnections
    BY InitialList DEF Init
  <1>2. Engaged = {}
    BY DEF Init, Engaged
  <1>3. Len(m_idleConnections) + Cardinality(Engaged) <= MinConnections
    BY <1>1, <1>2, FS_EmptySet, PoolAssumption
  <1> QED
    BY <1>3 DEF OpenedOnDemand

\* A call becomes engaged when it takes an idle connection, or when there is
\* none; it stops being engaged when it gives its connection back.
LEMMA StepOnDemand == IInv /\ OpenedOnDemand /\ [Next]_vars => OpenedOnDemand'
  <1> SUFFICES ASSUME IInv, OpenedOnDemand, [Next]_vars
               PROVE  OpenedOnDemand'
    OBVIOUS
  <1> DEFINE n == Len(m_idleConnections)
             e == Cardinality(Engaged)
  <1>1. n \in Nat /\ n' \in Nat
    BY StepIInv DEF IInv, TypeOK
  <1>2. /\ Engaged \in SUBSET Callers /\ Engaged' \in SUBSET Callers
        /\ e \in Nat /\ e' \in Nat /\ e' <= Cardinality(Callers)
    <2>1. Engaged \in SUBSET Callers /\ Engaged' \in SUBSET Callers
      BY DEF Engaged
    <2> QED
      BY <2>1, EngagedFinite
  <1>3. n' = 0 => OpenedOnDemand'
    BY <1>1, <1>2 DEF OpenedOnDemand
  <1>4. n' + e' <= n + e => OpenedOnDemand'
    <2>1. PICK bound \in {MinConnections, Cardinality(Callers)} : n + e <= bound
      BY DEF OpenedOnDemand
    <2>2. bound \in Nat
      BY PoolAssumption, EngagedFinite
    <2>3. n' + e' <= n + e => n' + e' <= bound
      BY <1>1, <1>2, <2>1, <2>2
    <2> QED
      BY <2>3 DEF OpenedOnDemand
  <1>5. Engaged' \subseteq Engaged /\ n' <= n => OpenedOnDemand'
    <2>1. Engaged' \subseteq Engaged => e' <= e
      BY <1>2, EngagedFinite, FS_Subset
    <2> QED
      BY <1>1, <1>2, <1>4, <2>1
  <1> USE DEF IInv, TypeOK, Labels, Goto
  <1>6. ASSUME NEW k \in Callers, CheckIdle(k)
        PROVE  OpenedOnDemand'
    <2>1. CASE m_idleConnections = <<>>
      BY <1>3, <1>6, <2>1 DEF CheckIdle, poolVars
    <2>2. CASE m_idleConnections # <<>>
      BY <1>1, <1>5, <1>6, <2>2 DEF CheckIdle, poolVars, Engaged
    <2> QED
      BY <2>1, <2>2
  <1>7. ASSUME NEW k \in Callers, Pop(k)
        PROVE  OpenedOnDemand'
    <2>1. CASE m_idleConnections = <<>>
      BY <1>3, <1>7, <2>1 DEF Pop
    <2>2. CASE m_idleConnections # <<>>
      <3>1. n' = n - 1
        BY <1>7, <2>2, FrontProperties DEF Pop
      <3>2. k \notin Engaged /\ Engaged' = Engaged \cup {k}
        BY <1>7, <2>2 DEF Pop, Engaged
      <3>3. e' = e + 1
        BY <1>2, <3>2, EngagedFinite, FS_AddElement
      <3> QED
        BY <1>1, <1>2, <1>4, <3>1, <3>3
    <2> QED
      BY <2>1, <2>2
  <1>8. ASSUME NEW k \in Callers, Return(k)
        PROVE  OpenedOnDemand'
    <2>1. n' = n \/ n' = n + 1
      <3>1. conn[k] \in Conns
        BY <1>8 DEF Return, Control
      <3>2. CASE m_idleConnections' = Append(m_idleConnections, conn[k])
        BY <3>1, <3>2
      <3> QED
        BY <1>8, <3>2 DEF Return
    <2>2. k \in Engaged /\ Engaged' = Engaged \ {k}
      BY <1>8 DEF Return, Engaged
    <2>3. e' = e - 1
      BY <1>2, <2>2, EngagedFinite, FS_RemoveElement
    <2> QED
      BY <1>1, <1>2, <1>4, <2>1, <2>3
  <1>9. CASE Sweep
    <2>1. n' <= n
      <3> DEFINE surplus == IF n > MinConnections THEN n - MinConnections ELSE 0
      <3>1. surplus \in 0..n
        BY <1>1, PoolAssumption
      <3>2. m_idleConnections' = SubSeq(m_idleConnections, surplus + 1, n)
        BY <1>9 DEF Sweep
      <3> HIDE DEF surplus
      <3>3. n' = n - surplus
        BY <3>1, <3>2, RestProperties
      <3> QED
        BY <1>1, <3>1, <3>3
    <2> QED
      BY <1>5, <1>9, <2>1 DEF Sweep, callVars, Engaged
  <1>10. CASE CloseAll
    BY <1>3, <1>10 DEF CloseAll
  <1>11. ASSUME NEW k \in Callers,
                \/ Validate(k) \/ Count(k) \/ Recheck(k) \/ Connect(k) \/ Push(k)
         PROVE  OpenedOnDemand'
    <2>1. Engaged' \subseteq Engaged
      BY <1>11 DEF Validate, Count, Recheck, Connect, Push, Engaged
    <2>2. n' = n
      BY <1>11 DEF Validate, Count, Recheck, Connect, Push, poolVars
    <2> QED
      BY <1>1, <1>5, <2>1, <2>2
  <1>12. CASE CheckRunning \/ UNCHANGED vars \/ \E x \in Conns : Drop(x)
    <2>1. n' = n /\ Engaged' \subseteq Engaged
      BY <1>12 DEF CheckRunning, Drop, vars, poolVars, callVars, Engaged
    <2> QED
      BY <1>1, <1>5, <2>1
  <1> QED
    BY <1>6, <1>7, <1>8, <1>9, <1>10, <1>11, <1>12 DEF Next, Call

\* There are never more connections, counting those being opened, than calls
\* at once or than the constructor opened.
THEOREM OnDemandAlways == Spec => []OpenedOnDemand
  BY InitIInv, StepIInv, InitOnDemand, StepOnDemand, PTL DEF Spec


-----------------------------------------------------------------------------
(* The active list and the callers.                                        *)

InUse == {conn[k] : k \in {l \in Callers : pc[l] = "using"}}

LEMMA InitActive == Init => ActiveInUse
  BY DEF Init, ActiveInUse, Active, ToSet

\* The connection is not in the list yet: nobody else uses it.
LEMMA PushActive ==
  ASSUME IInv, ActiveInUse, m_running, NEW k \in Callers, Push(k)
  PROVE  Active' = InUse' /\ Distinct(m_activeConnections)'
  <1> USE DEF IInv, TypeOK, Goto
  <1>1. /\ pc[k] = "push" /\ pc' = [pc EXCEPT ![k] = "using"] /\ conn' = conn
        /\ conn[k] \in Conns /\ conn[k] # NoConn
        /\ m_activeConnections' = Append(m_activeConnections, conn[k])
    BY DEF Push, Control
  <1>2. \A l \in Callers : pc[l] = "using" => conn[l] # conn[k]
    BY <1>1 DEF Places, Sole
  <1>3. \A i \in DOMAIN m_activeConnections : m_activeConnections[i] # conn[k]
    <2>1. \A i \in DOMAIN m_activeConnections :
            \E l \in Callers : pc[l] = "using" /\ m_activeConnections[i] = conn[l]
      <3>1. Active = {conn[l] : l \in {q \in Callers : pc[q] = "using"}}
        BY DEF ActiveInUse
      <3>2. \A i \in DOMAIN m_activeConnections : m_activeConnections[i] \in Active
        BY DEF Active, ToSet
      <3> QED
        BY <3>1, <3>2
    <2> QED
      BY <1>2, <2>1
  <1>4. Distinct(m_activeConnections)
    BY DEF ActiveInUse, Distinct
  <1> DEFINE n == Len(m_activeConnections)
             s == m_activeConnections
             t == m_activeConnections'
  <1>5. /\ Distinct(t) /\ DOMAIN t = DOMAIN s \cup {n + 1}
        /\ \A i \in DOMAIN s : t[i] = s[i]
        /\ t[n + 1] = conn[k]
    BY <1>1, <1>3, <1>4, AppendDistinct
  <1>6. Active' = Active \cup {conn[k]}
    BY <1>5 DEF Active, ToSet
  <1>7. InUse' = InUse \cup {conn[k]}
    BY <1>1 DEF InUse
  <1> QED
    BY <1>5, <1>6, <1>7 DEF ActiveInUse, InUse, Distinct

\* The list has the connection once, so that it is gone afterwards.
LEMMA ReturnActive ==
  ASSUME IInv, ActiveInUse, m_running, NEW k \in Callers, Return(k)
  PROVE  Active' = InUse' /\ Distinct(m_activeConnections)'
  <1> USE DEF IInv, TypeOK, Goto
  <1>1. /\ pc[k] = "using" /\ pc' = [pc EXCEPT ![k] = "out"]
        /\ conn' = [conn EXCEPT ![k] = NoConn]
        /\ conn[k] \in Conns /\ conn[k] # NoConn
    BY DEF Return, Control
  <1>2. Active = InUse /\ Distinct(m_activeConnections)
    BY DEF ActiveInUse, Distinct, InUse
  <1>3. conn[k] \in Active
    BY <1>1, <1>2 DEF InUse
  <1> DEFINE s == m_activeConnections
             t == m_activeConnections'
             n == Len(s)
  <1>4. PICK i \in DOMAIN s : s[i] = conn[k] /\ t = RemoveAt(s, i)
    BY <1>3 DEF Return
  <1>5. /\ n \in Nat /\ i \in 1..n /\ DOMAIN s = 1..n
        /\ DOMAIN t = 1..(n - 1)
        /\ \A j \in 1..(n - 1) : t[j] = IF j < i THEN s[j] ELSE s[j + 1]
    <2>1. s \in Seq(Conns) /\ n \in Nat /\ DOMAIN s = 1..n
      OBVIOUS
    <2> HIDE DEF s, n
    <2>2. /\ t = RemoveAt(s, i) /\ i \in DOMAIN s
      BY <1>4
    <2> HIDE DEF t
    <2>3. /\ DOMAIN RemoveAt(s, i) = 1..(Len(s) - 1)
          /\ \A j \in 1..(Len(s) - 1) :
               RemoveAt(s, i)[j] = IF j < i THEN s[j] ELSE s[j + 1]
      BY <2>1, <2>2, RemoveAtProperties
    <2> QED
      BY <2>1, <2>2, <2>3 DEF n
  <1> HIDE DEF s, t, n
  <1>6. \A j \in DOMAIN t : \E m \in DOMAIN s : m # i /\ t[j] = s[m]
                                               /\ m = IF j < i THEN j ELSE j + 1
    BY <1>5
  <1>7. \A m \in DOMAIN s : m # i => \E j \in DOMAIN t : t[j] = s[m]
    <2>1. ASSUME NEW m \in DOMAIN s, m < i
          PROVE  m \in DOMAIN t /\ t[m] = s[m]
      BY <1>5, <2>1
    <2>2. ASSUME NEW m \in DOMAIN s, m > i
          PROVE  m - 1 \in DOMAIN t /\ t[m - 1] = s[m]
      <3>1. m - 1 \in 1..(n - 1) /\ ~(m - 1 < i) /\ (m - 1) + 1 = m
        BY <1>5, <2>2
      <3> QED
        BY <1>5, <3>1
    <2>3. \A m \in DOMAIN s : m # i => m < i \/ m > i
      BY <1>5
    <2> QED
      BY <2>1, <2>2, <2>3
  <1>8. \A m \in DOMAIN s : m # i => s[m] # conn[k]
    BY <1>2, <1>4 DEF Distinct, s
  <1>9. Active' = Active \ {conn[k]}
    BY <1>4, <1>6, <1>7, <1>8 DEF Active, ToSet, s, t
  <1>10. InUse' = InUse \ {conn[k]}
    <2>1. \A l \in Callers : conn[l] = conn[k] => l = k
      BY <1>1 DEF Places, Sole
    <2> QED
      BY <1>1, <2>1 DEF InUse
  <1>11. Distinct(t)
    <2>1. ASSUME NEW j \in DOMAIN t, NEW l \in DOMAIN t, t[j] = t[l]
          PROVE  j = l
      <3>1. (IF j < i THEN j ELSE j + 1) = (IF l < i THEN l ELSE l + 1)
        BY <1>2, <1>6, <2>1 DEF Distinct, s
      <3>2. j \in Nat /\ l \in Nat /\ i \in Nat
        BY <1>5
      <3> QED
        BY <3>1, <3>2
    <2> QED
      BY <2>1 DEF Distinct
  <1> QED
    BY <1>2, <1>9, <1>10, <1>11 DEF Distinct, t

LEMMA StepActive == IInv /\ ActiveInUse /\ [Next]_vars => ActiveInUse'
  <1> SUFFICES ASSUME IInv, ActiveInUse, [Next]_vars, m_running'
               PROVE  Active' = InUse' /\ Distinct(m_activeConnections)'
    BY DEF ActiveInUse, InUse, Distinct
  <1> USE DEF IInv, TypeOK, Goto
  <1>1. m_running
    BY DEF Next, Call, CheckIdle, Pop, Validate, Count, Recheck, Connect, Push,
           Return, CheckRunning, Sweep, CloseAll, Drop, vars, poolVars
  <1>2. Active = InUse /\ Distinct(m_activeConnections)
    BY <1>1 DEF ActiveInUse, Distinct, InUse
  <1>3. ASSUME UNCHANGED m_activeConnections,
               \A k \in Callers : /\ pc'[k] = "using" <=> pc[k] = "using"
                                  /\ pc[k] = "using" => conn'[k] = conn[k]
        PROVE  Active' = InUse' /\ Distinct(m_activeConnections)'
    BY <1>2, <1>3 DEF Active, InUse
  <1>4. ASSUME NEW k \in Callers,
               \/ CheckIdle(k) \/ Pop(k) \/ Validate(k) \/ Count(k) \/ Recheck(k)
               \/ Connect(k)
        PROVE  Active' = InUse' /\ Distinct(m_activeConnections)'
    BY <1>3, <1>4
       DEF CheckIdle, Pop, Validate, Count, Recheck, Connect, poolVars
  <1>5. CASE CheckRunning \/ Sweep \/ UNCHANGED vars \/ \E x \in Conns : Drop(x)
    BY <1>3, <1>5 DEF CheckRunning, Sweep, Drop, vars, poolVars, callVars
  <1>6. ~CloseAll
    BY DEF CloseAll
  <1> QED
    BY <1>1, <1>4, <1>5, <1>6, PushActive, ReturnActive DEF Next, Call

\* The active list is exactly the connections in use, each once, until the
\* pool is closed.
THEOREM ActiveAlways == Spec => []ActiveInUse
  BY InitIInv, StepIInv, InitActive, StepActive, PTL DEF Spec

=============================================================================
