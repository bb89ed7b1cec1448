----------------------- MODULE SharedNamespaceProofs -----------------------
(***************************************************************************)
(* Proofs about SharedNamespace, for every set of CRs of the two kinds.    *)
(***************************************************************************)
EXTENDS SharedNamespace, TLAPS

\* An exporter adds one object or none.
LEMMA IfExporterType ==
    ASSUME NEW c \in CRs, NEW S, NEW o \in S
    PROVE  IfExporter(c, o) \in Seq(S)
  BY DEF IfExporter

\* Ensure goes through three sequences.
LEMMA EnsureParts ==
    ASSUME NEW c \in CRs
    PROVE  /\ DOMAIN Ensure(c) = 1 .. 3 /\ Len(Ensure(c)) = 3
           /\ \A a \in 1 .. 3 : /\ Len(Ensure(c)[a]) \in Nat
                                /\ DOMAIN Ensure(c)[a] = 1 .. Len(Ensure(c)[a])
<1> DEFINE n == NameOf(c)
           S == {RedisService(n), SentinelService(n), HeadLessSvcForCR(n),
                 RedisMonitorService(n), SentinelConfigMap(n),
                 SentinelReadinessProbeConfigMap(n), StandaloneMonitorService(n),
                 StandaloneStatefulSet(n)}
<1>1. CASE KindOf(c) = "RedisSentinel"
  <2>1. IfExporter(c, RedisMonitorService(n)) \in Seq(S)
    BY IfExporterType
  <2>2. <<RedisService(n), SentinelService(n), HeadLessSvcForCR(n)>> \in Seq(S)
        /\ <<SentinelConfigMap(n), SentinelReadinessProbeConfigMap(n)>> \in Seq(S)
    OBVIOUS
  <2> DEFINE first == <<RedisService(n), SentinelService(n), HeadLessSvcForCR(n)>>
                          \o IfExporter(c, RedisMonitorService(n))
                          \o <<SentinelConfigMap(n), SentinelReadinessProbeConfigMap(n)>>
  <2> HIDE DEF S
  <2>3. first \in Seq(S)
    BY <2>1, <2>2
  <2>4. Len(first) \in Nat /\ DOMAIN first = 1 .. Len(first)
    BY <2>3
  <2> HIDE DEF first
  <2>5. Ensure(c) = << first, <<RedisShutdownConfigMap(n)>>,
                       <<PodDisruptionBudget("-cluster", n), RedisStatefulSet(n),
                         PodDisruptionBudget("-sentinel", n), SentinelStatefulSet(n)>> >>
    BY <1>1 DEF Ensure, EnsureSentinel, first
  <2> QED BY <2>4, <2>5
<1>2. CASE KindOf(c) # "RedisSentinel"
  <2>1. IfExporter(c, StandaloneMonitorService(n)) \in Seq(S)
    BY IfExporterType
  <2>2. <<StandaloneStatefulSet(n)>> \in Seq(S)
    OBVIOUS
  <2> DEFINE third == IfExporter(c, StandaloneMonitorService(n)) \o <<StandaloneStatefulSet(n)>>
  <2> HIDE DEF S
  <2>3. third \in Seq(S)
    BY <2>1, <2>2
  <2>4. Len(third) \in Nat /\ DOMAIN third = 1 .. Len(third)
    BY <2>3
  <2> HIDE DEF third
  <2>5. Ensure(c) = << <<StandaloneService(n), StandaloneHeadlessService(n), StandaloneConfigMap(n)>>,
                       <<StandaloneShutdownConfigMap(n)>>, third >>
    BY <1>2 DEF Ensure, EnsureStandalone, third
  <2> QED BY <2>4, <2>5
<1> QED BY <1>1, <1>2

\* What Ensure looks for in a part is among what the CR needs.
LEMMA UpToNeeded ==
    ASSUME TypeOK, NEW c \in CRs, NEW k \in 0 .. Last(c)
    PROVE  UpTo(c, k) \subseteq Needs(c) /\ Needs(c) \subseteq Objects
<1>1. at[c] \in 1 .. 3
  BY DEF TypeOK
<1>2. DOMAIN Ensure(c) = 1 .. 3 /\ Last(c) \in Nat /\ DOMAIN Ensure(c)[at[c]] = 1 .. Last(c)
  BY <1>1, EnsureParts DEF Last
<1>3. Ensure(c)[at[c]] \in Elements(Ensure(c))
  BY <1>1, <1>2 DEF Elements
<1>4. \A i \in 1 .. k : Ensure(c)[at[c]][i] \in Elements(Ensure(c)[at[c]])
  BY <1>2 DEF Elements
<1> QED BY <1>3, <1>4 DEF UpTo, Needs, Objects

(***************************************************************************)
(* An object belongs to the one CR that created it, and that CR needs it.  *)
(* With the types this is the inductive invariant: an object only one CR   *)
(* has a name for then belongs to that CR, so the garbage collector does   *)
(* not take it while the CR lives.                                         *)
(***************************************************************************)
Owned == \A x \in objs : \E c \in CRs : x.refs = {c} /\ x.obj \in Needs(c)

IInv == TypeOK /\ Owned

\* Creating objects keeps the types, and the creator is their owner.
LEMMA CreateStep ==
    ASSUME IInv, NEW c \in CRs, NEW k \in 0 .. Last(c), Create(c, UpTo(c, k))
    PROVE  objs' \subseteq [obj : Objects, refs : SUBSET CRs] /\ Owned' /\ objs \subseteq objs'
<1>1. Missing(UpTo(c, k)) \subseteq Needs(c) /\ Needs(c) \subseteq Objects
  BY UpToNeeded DEF IInv, Missing
<1>2. objs' = objs \cup {[obj |-> o, refs |-> {c}] : o \in Missing(UpTo(c, k))}
  BY DEF Create, CreateOwnerReferences
<1>3. objs \subseteq [obj : Objects, refs : SUBSET CRs]
  BY DEF IInv, TypeOK
<1>4. ASSUME NEW x \in objs'
      PROVE  /\ x \in [obj : Objects, refs : SUBSET CRs]
             /\ \E d \in CRs : x.refs = {d} /\ x.obj \in Needs(d)
  <2>1. CASE x \in objs
    BY <1>3, <2>1 DEF IInv, Owned
  <2>2. CASE x \notin objs
    <3>1. PICK o \in Missing(UpTo(c, k)) : x = [obj |-> o, refs |-> {c}]
      BY <1>2, <2>2
    <3> QED BY <1>1, <3>1
  <2> QED BY <2>1, <2>2
<1> QED BY <1>2, <1>4 DEF Owned

\* The end of a round keeps the types of what it touches.
LEMMA EndRoundType ==
    ASSUME TypeOK, NEW c \in CRs, EndRound(c)
    PROVE  /\ pc' \in [CRs -> {"idle", "ensure", "check", "failed", "ready", "ok", "error"}]
           /\ at' \in [CRs -> 1 .. 3] /\ queue' \subseteq CRs
  BY DEF EndRound, Goto, TypeOK

\* A fault leaves a number of faults.
LEMMA FaultType ==
    ASSUME TypeOK, Fault \/ UNCHANGED faults
    PROVE  faults' \in 0 .. Faults
  BY BudgetAssumption DEF TypeOK, Fault

\* Setting a gauge keeps its type.
LEMMA SetType ==
    ASSUME TypeOK, NEW c \in CRs, NEW v \in {"none", "ok", "error"}, Set(c, v)
    PROVE  gauge' \in [Names -> {"none", "ok", "error"}]
  BY DEF Set, TypeOK, Names

\* Ensure goes to its next part, or on.
LEMMA AdvanceType ==
    ASSUME TypeOK, NEW c \in CRs, pc[c] = "ensure", Advance(c)
    PROVE  /\ pc' \in [CRs -> {"idle", "ensure", "check", "failed", "ready", "ok", "error"}]
           /\ at' \in [CRs -> 1 .. 3]
<1>1. at[c] \in 1 .. 3 /\ Len(Ensure(c)) = 3
  BY EnsureParts DEF TypeOK
<1>2. CASE at[c] = 3
  BY <1>1, <1>2 DEF Advance, Goto, TypeOK
<1>3. CASE at[c] # 3
  <2>1. at[c] + 1 \in 1 .. 3
    BY <1>1, <1>3
  <2> QED BY <1>1, <1>3, <2>1 DEF Advance, TypeOK
<1> QED BY <1>2, <1>3

\* A round keeps the invariant: one case per step of it.
LEMMA RoundStep ==
    ASSUME IInv, NEW c \in CRs, Round(c)
    PROVE  IInv'
<1>0. TypeOK /\ Owned
  BY DEF IInv
<1>1. CASE ReconcileNotFound(c)
  BY <1>0, <1>1 DEF ReconcileNotFound, IInv, TypeOK, Owned, crVars, objVars
<1>2. CASE ReconcileDo(c)
  BY <1>0, <1>2 DEF ReconcileDo, Goto, IInv, TypeOK, Owned, crVars, objVars
<1>3. CASE UpdateStatusFailed(c)
  <2>1. faults' \in 0 .. Faults
    BY <1>0, <1>3, FaultType DEF UpdateStatusFailed
  <2> QED BY <1>0, <1>3, <2>1, EndRoundType
          DEF UpdateStatusFailed, IInv, TypeOK, Owned, crVars, objVars
<1>4. CASE CreateIfNotExists(c)
  <2>1. Last(c) \in 0 .. Last(c)
    BY <1>0, EnsureParts DEF Last, TypeOK
  <2>2. Advance(c) /\ pc[c] = "ensure" /\ Create(c, UpTo(c, Last(c)))
    BY <1>4 DEF CreateIfNotExists
  <2>3. objs' \subseteq [obj : Objects, refs : SUBSET CRs] /\ Owned'
    BY <2>1, <2>2, CreateStep
  <2> QED BY <1>0, <1>4, <2>2, <2>3, AdvanceType DEF CreateIfNotExists, IInv, TypeOK, crVars
<1>5. CASE EnsureFailed(c)
  <2>1. faults' \in 0 .. Faults
    BY <1>0, <1>5, FaultType DEF EnsureFailed
  <2>2. objs' \subseteq [obj : Objects, refs : SUBSET CRs] /\ Owned'
    <3>1. CASE UNCHANGED objs
      BY <1>0, <3>1 DEF TypeOK, Owned
    <3>2. CASE \E k \in 0 .. Last(c) - 1 : Create(c, UpTo(c, k))
      <4>1. PICK k \in 0 .. Last(c) - 1 : Create(c, UpTo(c, k))
        BY <3>2
      <4>2. k \in 0 .. Last(c)
        BY <1>0, EnsureParts DEF Last, TypeOK
      <4> QED BY <4>1, <4>2, CreateStep
    <3> QED BY <1>5, <3>1, <3>2 DEF EnsureFailed
  <2> QED BY <1>0, <1>5, <2>1, <2>2 DEF EnsureFailed, Goto, IInv, TypeOK, crVars
<1>6. CASE CheckAndHealOk(c)
  BY <1>0, <1>6 DEF CheckAndHealOk, Goto, IInv, TypeOK, Owned, crVars, objVars
<1>7. CASE CheckAndHealError(c)
  <2>1. faults' \in 0 .. Faults
    BY <1>0, <1>7, FaultType DEF CheckAndHealError
  <2>2. gauge' \in [Names -> {"none", "ok", "error"}]
    BY <1>0, <1>7, SetType DEF CheckAndHealError
  <2> QED BY <1>0, <1>7, <2>1, <2>2, EndRoundType
          DEF CheckAndHealError, IInv, TypeOK, Owned, crVars, objVars
<1>8. CASE Publish(c)
  BY <1>0, <1>8 DEF Publish, Goto, IInv, TypeOK, Owned, crVars, objVars
<1>9. CASE PublishFailed(c)
  <2>1. faults' \in 0 .. Faults
    BY <1>0, <1>9, FaultType DEF PublishFailed
  <2> QED BY <1>0, <1>9, <2>1, EndRoundType
          DEF PublishFailed, IInv, TypeOK, Owned, crVars, objVars
<1>10. CASE Report(c)
  <2>1. gauge' \in [Names -> {"none", "ok", "error"}]
    BY <1>0, <1>10, SetType DEF Report
  <2> QED BY <1>0, <1>10, <2>1, EndRoundType DEF Report, IInv, TypeOK, Owned, crVars, objVars
<1> QED BY <1>1, <1>2, <1>3, <1>4, <1>5, <1>6, <1>7, <1>8, <1>9, <1>10 DEF Round

\* The garbage collector keeps the invariant.
LEMMA CollectStep ==
    ASSUME IInv, NEW some, Collect(some)
    PROVE  IInv'
<1>1. objs' \subseteq objs /\ ready' \subseteq ready
  BY DEF Collect
<1> QED BY <1>1 DEF Collect, IInv, TypeOK, Owned, crVars

\* Every step keeps the invariant.
LEMMA IInvInductive == (Init => IInv) /\ (IInv /\ [Next]_vars => IInv')
<1>1. Init => IInv
  BY BudgetAssumption DEF Init, IInv, TypeOK, Owned
<1> SUFFICES ASSUME IInv, [Next]_vars PROVE IInv'
  BY <1>1
<1>0. TypeOK /\ Owned
  BY DEF IInv
<1>2. ASSUME NEW c \in CRs, CreateEvent(c) PROVE IInv'
  BY <1>0, <1>2 DEF CreateEvent, IInv, TypeOK, Owned, objVars
<1>3. ASSUME NEW c \in CRs, DeleteEvent(c) PROVE IInv'
  <2>1. faults' \in 0 .. Faults
    BY <1>0, <1>3, FaultType DEF DeleteEvent
  <2>2. gauge' \in [Names -> {"none", "ok", "error"}]
    BY <1>0, <1>3 DEF DeleteEvent, TypeOK, Names
  <2> QED BY <1>0, <1>3, <2>1, <2>2 DEF DeleteEvent, IInv, TypeOK, Owned, objVars
<1>4. ASSUME NEW c \in CRs, UserCreate(c) \/ UserDelete(c) PROVE IInv'
  BY <1>0, <1>4 DEF UserCreate, UserDelete, IInv, TypeOK, Owned, objVars
<1>5. ASSUME NEW c \in CRs, PodsReady(c) PROVE IInv'
  BY <1>0, <1>5 DEF PodsReady, IInv, TypeOK, Owned, crVars
<1>6. ASSUME NEW c \in CRs, PodsEnd(c) PROVE IInv'
  <2>1. faults' \in 0 .. Faults
    BY <1>0, <1>6, FaultType DEF PodsEnd
  <2> QED BY <1>0, <1>6, <2>1 DEF PodsEnd, IInv, TypeOK, Owned, crVars
<1>7. CASE SyncObjects
  BY <1>0, <1>7 DEF SyncObjects, IInv, TypeOK, Owned, crVars
<1>8. CASE Restart
  <2>1. faults' \in 0 .. Faults
    BY <1>0, <1>8, FaultType DEF Restart
  <2>2. Live \subseteq CRs
    BY DEF Live
  <2> QED BY <1>0, <1>8, <2>1, <2>2 DEF Restart, IInv, TypeOK, Owned
<1>9. CASE UNCHANGED vars
  BY <1>0, <1>9 DEF vars, IInv, TypeOK, Owned
<1> QED
  BY <1>2, <1>3, <1>4, <1>5, <1>6, <1>7, <1>8, <1>9, RoundStep, CollectStep DEF Next

\* The inductive invariant holds throughout.
LEMMA AlwaysIInv == Spec => []IInv
  BY IInvInductive, PTL DEF Spec

\* Every reachable state has the shape the code gives it, for every set of CRs
\* of the two kinds: what Ensure creates is what the CR needs, and its index
\* stays within its parts.
THEOREM TypeCorrect == Spec => []TypeOK
<1>1. IInv => TypeOK
  BY DEF IInv
<1> QED BY <1>1, AlwaysIInv, PTL

\* The garbage collector leaves what only a live CR has a name for.
LEMMA CollectLeaves ==
    ASSUME IInv, NEW some, Collect(some), NEW c \in Live
    PROVE  (Needs(c) \ SharedObjects) \cap Present \subseteq Present'
<1> DEFINE garbage == {x \in objs : x.obj \in some /\ x.refs # {} /\ x.refs \cap Live = {}}
<1> SUFFICES ASSUME NEW o \in Needs(c) \ SharedObjects, o \in Present
             PROVE  o \in Present'
  OBVIOUS
<1>1. PICK x \in objs : x.obj = o
  BY DEF Present
<1>2. PICK d \in CRs : x.refs = {d} /\ x.obj \in Needs(d)
  BY DEF IInv, Owned
<1>3. c \in CRs /\ o \in Objects
  BY DEF Live, Objects
<1>4. d = c
  BY <1>1, <1>2, <1>3 DEF SharedObjects
<1>5. x \notin garbage
  BY <1>2, <1>4
<1>6. x \in objs'
  BY <1>5 DEF Collect
<1> QED BY <1>1, <1>6 DEF Present

\* No step takes an object that only a live CR has a name for, whoever else of
\* the name is deleted, for every set of CRs and every number of deletions.
THEOREM LiveObjectsAlwaysStay == Spec => LiveObjectsStay
<1>1. ASSUME IInv, Next
      PROVE  \A c \in Live : (Needs(c) \ SharedObjects) \cap Present \subseteq Present'
  <2>1. CASE objs \subseteq objs'
    BY <2>1 DEF Present
  <2>2. ASSUME NEW c \in CRs, CreateIfNotExists(c) \/ EnsureFailed(c) PROVE objs \subseteq objs'
    BY <2>2 DEF CreateIfNotExists, EnsureFailed, Create
  <2>3. ASSUME NEW c \in CRs, Round(c) PROVE objs \subseteq objs'
    BY <2>2, <2>3 DEF Round, ReconcileNotFound, ReconcileDo, UpdateStatusFailed, CheckAndHealOk,
                      CheckAndHealError, Publish, PublishFailed, Report, objVars
  <2>4. CASE Collect(SharedObjects) \/ Collect(Objects \ SharedObjects)
    BY <1>1, <2>4, CollectLeaves
  <2>5. CASE ~(Collect(SharedObjects) \/ Collect(Objects \ SharedObjects))
    <3>1. objs \subseteq objs'
      BY <1>1, <2>3, <2>5 DEF Next, CreateEvent, DeleteEvent, UserCreate, UserDelete, PodsReady,
                              PodsEnd, SyncObjects, Restart, objVars
    <3> QED BY <2>1, <3>1
  <2> QED BY <2>4, <2>5
<1>2. IInv /\ [Next]_vars =>
        [\A c \in Live : (Needs(c) \ SharedObjects) \cap Present \subseteq Present']_vars
  BY <1>1
<1> QED BY <1>2, AlwaysIInv, PTL DEF Spec, LiveObjectsStay
============================================================================
