---------------------- MODULE SentinelReconcileProofs ----------------------
(***************************************************************************)
(* Proofs about SentinelReconcile.                                         *)
(*                                                                         *)
(* The order of the copies is not inductive alone: that a refreshed cache  *)
(* is never ahead of the informer rests on resourceVersions (a write is    *)
(* applied only to a fresh object), on the aliasing of meta.Obj and rc,    *)
(* and on what Cache keeps or replaces.  Versions states these together;   *)
(* with the types and the deployed minima it is the inductive invariant.   *)
(***************************************************************************)
EXTENDS SentinelReconcile, TLAPS

\* CHOOSE finds a spec, since there is one.
LEMMA AnySpecType == AnySpec \in Specs /\ AnySpec \in SpecType
  BY SpecsAssumption DEF AnySpec

\* The empty objects have their types.
LEMMA ConstantTypes ==
    /\ NoObj \in ObjType
    /\ NoMeta \in MetaType
    /\ NoRedis \in RedisType
    /\ NoSentinel \in SentinelType
  BY AnySpecType, ImagesAssumption
     DEF NoObj, NoMeta, NoRedis, NoSentinel, ObjType, MetaType, RedisType,
         SentinelType, SpecType, Heads, NoCondition, MetaStates, MetaStatuses

\* The server's answer is an object.
LEMMA ServerCopyType ==
    ASSUME NEW a \in ApiType
    PROVE  ServerCopy(a) \in ObjType
  BY DEF ServerCopy, ApiType, ObjType

\* Validate's defaults keep the type of a spec.
LEMMA DefaultedType ==
    ASSUME NEW s \in SpecType
    PROVE  Defaulted(s) \in SpecType
  BY ImagesAssumption, MinAssumption DEF Defaulted, SpecType

\* MetaMap.Cache returns an entry.
LEMMA CacheType ==
    ASSUME NEW m \in MetaType, NEW obj \in ObjType
    PROVE  Cache(m, obj) \in MetaType
<1>1. NewCluster(obj) \in MetaType
  BY DEF NewCluster, MetaType, ObjType, SpecType, MetaStates, MetaStatuses
<1>2. UpdateStatusOf(m.obj.spec, obj.spec) \in MetaStatuses
  BY DEF UpdateStatusOf, MetaStatuses
<1>3. MetaUpdate(m, obj) \in MetaType
  <2>1. CASE m.obj.gen = obj.gen
    BY <2>1 DEF MetaUpdate, MetaType, MetaStates
  <2>2. CASE m.obj.gen # obj.gen
    <3>1. [obj EXCEPT !.spec.password = m.obj.spec.password] \in ObjType
      BY DEF MetaType, ObjType, SpecType
    <3>2. m.obj.spec.password \in Passwords
      BY DEF MetaType, ObjType, SpecType
    <3> QED BY <2>2, <3>1, <3>2, <1>2 DEF MetaUpdate, MetaType, MetaStates
  <2> QED BY <2>1, <2>2
<1> QED BY <1>1, <1>3 DEF Cache

\* updateStatus sets one of the conditions.
LEMMA ConditionOfType ==
    ASSUME NEW s \in MetaStatuses
    PROVE  ConditionOf(s) \in Heads
  BY DEF ConditionOf, MetaStatuses, Heads, Conditions

\* Fields of an object, and of one marked as behind.
LEMMA ObjFields ==
    ASSUME NEW o \in ObjType
    PROVE  /\ o.spec \in SpecType /\ o.spec.password \in Passwords
           /\ o.uid \in Nat /\ o.gen \in Nat /\ o.head \in Heads
           /\ Stale(o) \in ObjType
           /\ [o EXCEPT !.spec = Defaulted(@)] \in ObjType
  BY DefaultedType DEF Stale, ObjType, SpecType

\* Replacing the password keeps the type of an object.
LEMMA ObjPassword ==
    ASSUME NEW o \in ObjType, NEW p \in Passwords
    PROVE  [o EXCEPT !.spec.password = p] \in ObjType
  BY DEF ObjType, SpecType

\* Fields of an entry of the MetaMap.
LEMMA MetaFields ==
    ASSUME NEW m \in MetaType
    PROVE  m.obj \in ObjType /\ m.status \in MetaStatuses /\ m.auth \in Passwords
  BY DEF MetaType

\* Replacing the object keeps the type of an entry.
LEMMA MetaObj ==
    ASSUME NEW m \in MetaType, NEW o \in ObjType
    PROVE  [m EXCEPT !.obj = o] \in MetaType
  BY DEF MetaType

\* Setting a condition on the cached object keeps the type of an entry.
LEMMA MetaHead ==
    ASSUME NEW m \in MetaType, NEW h \in Heads
    PROVE  /\ [m EXCEPT !.obj.head = h] \in MetaType
           /\ [m EXCEPT !.obj.head = h, !.obj.fresh = FALSE] \in MetaType
<1>1. m.obj \in ObjType
  BY DEF MetaType
<1>2. [m.obj EXCEPT !.head = h] \in ObjType
  BY <1>1 DEF ObjType
<1>3. [m.obj EXCEPT !.head = h, !.fresh = FALSE] \in ObjType
  BY <1>1 DEF ObjType
<1>4. [m EXCEPT !.obj.head = h] = [m EXCEPT !.obj = [m.obj EXCEPT !.head = h]]
  BY <1>1 DEF MetaType, ObjType
<1>5. [m EXCEPT !.obj.head = h, !.obj.fresh = FALSE]
        = [m EXCEPT !.obj = [m.obj EXCEPT !.head = h, !.fresh = FALSE]]
  BY <1>1 DEF MetaType, ObjType
<1> QED BY <1>2, <1>3, <1>4, <1>5, MetaObj

\* Fields of the CR at the server.
LEMMA ApiFields ==
    ASSUME NEW a \in ApiType
    PROVE  a.spec \in SpecType /\ a.uid \in Nat /\ a.gen \in Nat
  BY DEF ApiType

\* A status write keeps the type of the CR.
LEMMA ApiHead ==
    ASSUME NEW a \in ApiType, NEW h \in Heads
    PROVE  [a EXCEPT !.head = h] \in ApiType
  BY DEF ApiType

\* A spec write keeps the type of the CR.
LEMMA ApiSpec ==
    ASSUME NEW a \in ApiType, NEW s \in SpecType
    PROVE  [a EXCEPT !.gen = @ + 1, !.spec = s] \in ApiType
<1>1. a.gen + 1 \in Nat
  BY ApiFields
<1> QED BY <1>1, Zenon DEF ApiType

\* The end of a round resets its variables to values of their types.
LEMMA EndRoundType ==
    EndRound => pc' \in Steps /\ rc' \in ObjType /\ aliased' \in BOOLEAN
  BY ConstantTypes DEF EndRound, Steps

\* A fault leaves a budget.
LEMMA FaultType ==
    ASSUME TypeOK
    PROVE  /\ Fault => budget' \in BudgetType
           /\ \A o \in ObjType : Refused(o) => budget' \in BudgetType
<1>1. Fault => budget' \in BudgetType
  BY DEF Fault, TypeOK, BudgetType
<1> QED BY <1>1 DEF Refused, TypeOK

\* An informer copy that falls behind keeps its type.
LEMMA InfBehindType == TypeOK /\ InfBehind => inf' \in InfType
  BY ObjFields, ObjPassword DEF TypeOK, InfBehind, InfType

\* Copies that fall behind keep their types.
LEMMA CopiesBehindType ==
    TypeOK /\ CopiesBehind => inf' \in InfType /\ meta' \in MetaType /\ rc' \in ObjType
<1> SUFFICES ASSUME TypeOK, CopiesBehind
             PROVE  inf' \in InfType /\ meta' \in MetaType /\ rc' \in ObjType
  OBVIOUS
<1>1. inf' \in InfType
  BY InfBehindType DEF CopiesBehind
<1>2. meta.obj \in ObjType /\ Stale(meta.obj) \in ObjType /\ Stale(rc) \in ObjType
  BY ObjFields, ObjPassword, MetaFields, MetaObj, MetaHead DEF TypeOK, MetaType
<1> QED BY <1>1, <1>2, MetaFields, MetaObj, MetaHead DEF CopiesBehind, TypeOK

\* Each outcome of the last status write keeps the types.
LEMMA PublishType ==
    ASSUME TypeOK, NEW h \in Heads, Publish(h)
    PROVE  TypeOK'
<1>1. pc' \in Steps /\ rc' \in ObjType /\ aliased' \in BOOLEAN
  BY EndRoundType DEF Publish, PublishOk, PublishRefused, PublishLost
<1>2. meta.obj \in ObjType /\ Stale(meta.obj) \in ObjType /\ meta.obj.head \in Heads
  BY ObjFields, ObjPassword, MetaFields, MetaObj, MetaHead DEF TypeOK, MetaType
<1>3. CASE PublishOk(h)
  <2>1. api' \in ApiType
    BY <1>3, ApiFields, ApiHead, ApiSpec DEF PublishOk, TypeOK
  <2>2. meta' \in MetaType
    BY <1>2, <1>3, <2>1, ServerCopyType, MetaFields, MetaObj, MetaHead DEF PublishOk, TypeOK
  <2> QED BY <1>1, <1>3, <2>1, <2>2, InfBehindType DEF PublishOk, TypeOK, stsVars
<1>4. CASE PublishRefused(h)
  <2>1. meta' \in MetaType
    BY <1>2, <1>4, MetaFields, MetaObj, MetaHead DEF PublishRefused, TypeOK
  <2> QED BY <1>1, <1>4, <2>1, FaultType DEF PublishRefused, TypeOK, stsVars
<1>5. CASE PublishLost(h)
  <2>1. api' \in ApiType
    BY <1>5, ApiFields, ApiHead, ApiSpec DEF PublishLost, TypeOK
  <2>2. meta' \in MetaType
    BY <1>2, <1>5, MetaFields, MetaObj, MetaHead DEF PublishLost, TypeOK
  <2> QED BY <1>1, <1>5, <2>1, <2>2, InfBehindType, FaultType DEF PublishLost, TypeOK, stsVars
<1> QED BY <1>3, <1>4, <1>5 DEF Publish

\* The initial state is well typed.
LEMMA TypeInit == Init => TypeOK
<1> SUFFICES ASSUME Init PROVE TypeOK
  OBVIOUS
<1> USE ConstantTypes, AnySpecType DEF Init
<1>1. api \in ApiType
  BY DEF ApiType, Heads, NoCondition
<1>2. inf \in InfType
  BY DEF InfType
<1>3. pc \in Steps /\ budget \in BudgetType
  BY BudgetAssumption DEF Steps
<1> QED BY <1>1, <1>2, <1>3 DEF TypeOK

\* Every step keeps the types: one case per action.
LEMMA TypeStep == TypeOK /\ [Next]_vars => TypeOK'
<1> SUFFICES ASSUME TypeOK, [Next]_vars PROVE TypeOK'
  OBVIOUS
<1>a. /\ inf.obj \in ObjType /\ meta.obj \in ObjType /\ meta.obj.spec \in SpecType
      /\ rc.uid \in Nat /\ rc.spec \in SpecType /\ ConditionOf(meta.status) \in Heads
      /\ api.uid \in Nat /\ api.gen \in Nat /\ api.spec \in SpecType
      /\ Stale(meta.obj) \in ObjType /\ Stale(rc) \in ObjType
  BY ObjFields, ObjPassword, MetaFields, MetaObj, MetaHead, ApiFields, ApiHead, ApiSpec, ConditionOfType DEF TypeOK, InfType, MetaType
<1>b. {"Creating", "Failed", "Healthy"} \subseteq Heads
  BY DEF Heads, Conditions
<1>c. /\ redis.ready \in Nat /\ redis.replicas \in Nat
      /\ sentinel.replicas \in Nat
  BY DEF TypeOK, RedisType, SentinelType
<1>1. CASE ReconcileNotFound
  BY <1>1, ConstantTypes DEF ReconcileNotFound, TypeOK, stsVars
<1>2. CASE ReconcileInvalid
  BY <1>2, EndRoundType DEF ReconcileInvalid, TypeOK, stsVars
<1>3. CASE ReconcileModified
  BY <1>3, <1>a, ObjFields, ObjPassword DEF ReconcileModified, TypeOK, stsVars, Steps
<1>4. CASE ReconcileDo
  <2>1. meta' \in MetaType
    BY <1>a, <1>4, CacheType DEF ReconcileDo, TypeOK
  <2>2. rc' \in ObjType
    BY <1>a, <1>4, <2>1, ObjFields, ObjPassword, MetaFields, MetaObj, MetaHead DEF ReconcileDo
  <2>3. aliased' \in BOOLEAN
    BY <1>4 DEF ReconcileDo, Adopted
  <2>4. pc' \in Steps
    BY <1>4 DEF ReconcileDo, Steps
  <2> QED BY <1>4, <2>1, <2>2, <2>3, <2>4 DEF ReconcileDo, TypeOK, stsVars
<1>5. CASE UpdateSpecOk
  <2>1. api' \in ApiType
    BY <1>a, <1>5, ApiFields, ApiHead, ApiSpec DEF UpdateSpecOk, TypeOK
  <2>2. meta' \in MetaType
    BY <1>a, <1>5, MetaFields, MetaObj, MetaHead DEF UpdateSpecOk, TypeOK
  <2> QED BY <1>5, <2>1, <2>2, InfBehindType, EndRoundType DEF UpdateSpecOk, TypeOK, stsVars
<1>6. CASE UpdateSpecRefused
  BY <1>6, EndRoundType, FaultType DEF UpdateSpecRefused, TypeOK, stsVars
<1>7. CASE UpdateStatusOk
  <2>1. api' \in ApiType
    BY <1>a, <1>7, ApiFields, ApiHead, ApiSpec DEF UpdateStatusOk, TypeOK
  <2>2. meta' \in MetaType /\ meta'.obj \in ObjType
    BY <1>7, <2>1, ServerCopyType, MetaFields, MetaObj, MetaHead DEF UpdateStatusOk, TypeOK
  <2>3. rc' \in ObjType /\ pc' \in Steps
    BY <1>a, <1>7, <2>2 DEF UpdateStatusOk, Steps
  <2> QED BY <1>7, <2>1, <2>2, <2>3, InfBehindType DEF UpdateStatusOk, TypeOK, stsVars
<1>8. CASE UpdateStatusRefused
  <2>1. meta' \in MetaType
    BY <1>a, <1>8, MetaFields, MetaObj, MetaHead DEF UpdateStatusRefused, TypeOK
  <2> QED BY <1>a, <1>8, <2>1, FaultType, EndRoundType DEF UpdateStatusRefused, TypeOK, stsVars
<1>9. CASE UpdateStatusLost
  <2>1. api' \in ApiType
    BY <1>a, <1>9, ApiFields, ApiHead, ApiSpec DEF UpdateStatusLost, TypeOK
  <2>2. meta' \in MetaType
    BY <1>a, <1>9, MetaFields, MetaObj, MetaHead DEF UpdateStatusLost, TypeOK
  <2> QED BY <1>9, <2>1, <2>2, InfBehindType, FaultType, EndRoundType
          DEF UpdateStatusLost, TypeOK, stsVars
<1>10. CASE EnsureRedisStatefulset
  <2>1. RedisFrom(meta.obj.spec, rc.uid, 0) \in RedisType
    BY <1>a DEF RedisFrom, RedisType, SpecType
  <2>2. RedisFrom(meta.obj.spec, rc.uid, redis.ready) \in RedisType
    BY <1>a, <1>c DEF RedisFrom, RedisType, SpecType
  <2>3. redis' \in RedisType /\ pc' \in Steps
    BY <1>10, <2>1, <2>2 DEF EnsureRedisStatefulset, TypeOK, Steps
  <2> QED BY <1>10, <2>3 DEF EnsureRedisStatefulset, TypeOK
<1>11. CASE EnsureRedisFailed
  <2>1. budget' \in BudgetType /\ pc' \in Steps
    BY <1>11, FaultType DEF EnsureRedisFailed, TypeOK, Steps
  <2> QED BY <1>11, <2>1 DEF EnsureRedisFailed, TypeOK, stsVars
<1>12. CASE EnsureSentinelStatefulset
  <2>1. \A old \in SentinelType : SentinelFrom(meta.obj.spec, rc.uid, old) \in SentinelType
    BY <1>a DEF SentinelFrom, SentinelType, SpecType
  <2>2. sentinel' \in SentinelType /\ pc' \in Steps
    BY <1>12, <2>1, ConstantTypes DEF EnsureSentinelStatefulset, TypeOK, Steps
  <2> QED BY <1>12, <2>2 DEF EnsureSentinelStatefulset, TypeOK
<1>13. CASE EnsureSentinelFailed
  <2>1. budget' \in BudgetType /\ pc' \in Steps
    BY <1>13, FaultType DEF EnsureSentinelFailed, TypeOK, Steps
  <2> QED BY <1>13, <2>1 DEF EnsureSentinelFailed, TypeOK, stsVars
<1>14. CASE CheckNumbers
  BY <1>14 DEF CheckNumbers, TypeOK, stsVars, Steps
<1>15. CASE Heal
  <2>1. meta.obj.gen \in Nat
    BY <1>a, ObjFields, ObjPassword
  <2>2. sentinel' \in SentinelType /\ pc' \in Steps
    BY <1>15, <2>1 DEF Heal, TypeOK, Steps, SentinelType
  <2> QED BY <1>15, <2>2 DEF Heal, TypeOK
<1>16. CASE HealFailed
  <2>1. budget' \in BudgetType /\ pc' \in Steps
    BY <1>16, FaultType DEF HealFailed, TypeOK, Steps
  <2> QED BY <1>16, <2>1 DEF HealFailed, TypeOK, stsVars
<1>17. CASE EnsureSentinelReady
  BY <1>17 DEF EnsureSentinelReady, TypeOK, stsVars, Steps
<1>18. CASE Requeue
  <2>1. CASE Publish("Creating")
    BY <1>b, <2>1, PublishType
  <2>2. CASE EndRound /\ UNCHANGED <<api, inf, queued, meta, budget, stsVars>>
    BY <2>2, EndRoundType DEF TypeOK, stsVars
  <2> QED BY <1>18, <2>1, <2>2 DEF Requeue
<1>19. CASE SetFailed
  BY <1>b, <1>19, PublishType DEF SetFailed
<1>20. CASE SetReady
  BY <1>b, <1>20, PublishType DEF SetReady
<1>21. CASE Restart
  <2>1. inf' \in InfType
    BY <1>21, ServerCopyType, ConstantTypes DEF Restart, TypeOK, InfType, ApiType
  <2>2. budget' \in BudgetType
    BY <1>21 DEF Restart, TypeOK, BudgetType
  <2>3. queued' \in BOOLEAN
    BY <1>21 DEF Restart, TypeOK, ApiType
  <2> QED BY <1>21, <2>1, <2>2, <2>3, EndRoundType, ConstantTypes DEF Restart, TypeOK
<1>22. CASE SyncCR
  <2>1. inf' \in InfType
    BY <1>22, ServerCopyType, ConstantTypes DEF SyncCR, TypeOK, InfType, ApiType
  <2>2. queued' \in BOOLEAN
    BY <1>22 DEF SyncCR
  <2> QED BY <1>22, <2>1, <2>2 DEF SyncCR, TypeOK, stsVars
<1>23. CASE SyncRedis
  BY <1>23 DEF SyncRedis, TypeOK
<1>24. CASE SyncSentinel
  BY <1>24 DEF SyncSentinel, TypeOK
<1>25. CASE RedisPodsReady
  <2>1. redis' \in RedisType
    BY <1>25, <1>c DEF RedisPodsReady, TypeOK, RedisType
  <2> QED BY <1>25, <2>1 DEF RedisPodsReady, TypeOK
<1>26. CASE SentinelPodsReady
  <2>1. sentinel' \in SentinelType
    BY <1>26, <1>c DEF SentinelPodsReady, TypeOK, SentinelType
  <2> QED BY <1>26, <2>1 DEF SentinelPodsReady, TypeOK
<1>27. CASE CollectRedis
  BY <1>27, ConstantTypes DEF CollectRedis, TypeOK
<1>28. CASE CollectSentinel
  BY <1>28, ConstantTypes DEF CollectSentinel, TypeOK
<1>29. CASE UserCreate
  <2>1. api' \in ApiType
    BY <1>a, <1>29, SpecsAssumption DEF UserCreate, ApiType, Heads
  <2> QED BY <1>29, <2>1 DEF UserCreate, TypeOK, stsVars
<1>30. CASE UserEdit
  <2>1. api' \in ApiType
    BY <1>30, SpecsAssumption, ApiFields, ApiHead, ApiSpec DEF UserEdit, TypeOK, Heads
  <2>2. budget' \in BudgetType
    BY <1>30 DEF UserEdit, TypeOK, BudgetType
  <2> QED BY <1>30, <2>1, <2>2, CopiesBehindType DEF UserEdit, TypeOK, stsVars
<1>31. CASE UserDelete
  <2>1. api' \in ApiType
    BY <1>31 DEF UserDelete, TypeOK, ApiType
  <2>2. budget' \in BudgetType
    BY <1>31 DEF UserDelete, TypeOK, BudgetType
  <2> QED BY <1>31, <2>1, <2>2, CopiesBehindType DEF UserDelete, TypeOK, stsVars
<1>32. CASE Disruption
  <2>1. redis' \in RedisType /\ sentinel' \in SentinelType
    BY <1>32, ConstantTypes DEF Disruption, TypeOK, RedisType, SentinelType
  <2> QED BY <1>32, <2>1, FaultType DEF Disruption, TypeOK
<1>33. CASE UNCHANGED vars
  BY <1>33 DEF vars, TypeOK
<1> QED
  BY <1>1, <1>2, <1>3, <1>4, <1>5, <1>6, <1>7, <1>8, <1>9, <1>10, <1>11, <1>12, <1>13, <1>14, <1>15, <1>16, <1>17, <1>18, <1>19, <1>20, <1>21, <1>22, <1>23, <1>24, <1>25, <1>26, <1>27, <1>28, <1>29, <1>30, <1>31, <1>32, <1>33
     DEF Next, Operator, Informers, Kubernetes, Users

\* Every reachable state has the shape the code gives it.
THEOREM TypeCorrect == Spec => []TypeOK
  BY TypeInit, TypeStep, PTL DEF Spec

(***************************************************************************)
(* The safety properties rest on one inductive invariant.  A copy marked   *)
(* fresh is a copy of the server's version; copies never overtake the      *)
(* server, and the cache never overtakes the informer; so two copies of    *)
(* the same generation agree, and what Cache keeps or installs is what the *)
(* round fetched.                                                          *)
(***************************************************************************)
FreshCopies ==
    /\ inf.obj.fresh => /\ api.alive
                        /\ inf.obj.uid = api.uid /\ inf.obj.gen = api.gen
                        /\ inf.obj.spec = api.spec
    /\ meta.obj.fresh => /\ api.alive
                         /\ meta.obj.uid = api.uid /\ meta.obj.gen = api.gen
    /\ rc.fresh => /\ api.alive
                   /\ rc.uid = api.uid /\ rc.gen = api.gen
                   /\ pc = "updateSpec" => rc.spec = Defaulted(api.spec)

AliasedCopies ==
    aliased => pc \in Rolling /\ rc.uid = meta.obj.uid /\ rc.gen = meta.obj.gen

\* The object that stands for none has no spec of its own.
Blank(x) == x.gen = 0 => SameButPassword(x.spec, AnySpec)

OrderedCopies == CopiesInOrder /\ Blank(api) /\ Blank(inf.obj) /\ Blank(meta.obj)

Versions ==
    /\ OrderedCopies /\ FreshCopies /\ AliasedCopies
    /\ CacheComplete /\ RoundActsOnFetchedSpec

IInv == TypeOK /\ Versions /\ MinimumDeployed

\* Whether Validate is done with a spec does not depend on the password.
LEMMA SamePasswordComplete ==
    ASSUME NEW s \in SpecType, NEW t \in SpecType, SameButPassword(s, t), Complete(s)
    PROVE  Complete(t)
  BY DEF SameButPassword, Complete, Invalid, Defaulted, SpecType

\* What MetaMap.Cache returns, case by case.
LEMMA CacheFacts ==
    ASSUME NEW m \in MetaType, NEW obj \in ObjType,
           m.present => Complete(m.obj.spec), Complete(obj.spec)
    PROVE  /\ Cache(m, obj).present
           /\ Complete(Cache(m, obj).obj.spec)
           /\ Adopted(m, obj) => /\ Cache(m, obj).obj.uid = obj.uid
                                 /\ Cache(m, obj).obj.gen = obj.gen
                                 /\ Cache(m, obj).obj.fresh => obj.fresh
                                 /\ SameButPassword(Cache(m, obj).obj.spec, obj.spec)
           /\ ~Adopted(m, obj) => Cache(m, obj).obj = m.obj /\ m.obj.gen = obj.gen
<1>1. CASE ~m.present
  BY <1>1 DEF Cache, Adopted, NewCluster, SameButPassword
<1>2. CASE m.present /\ m.obj.gen = obj.gen
  <2>1. Cache(m, obj) = [m EXCEPT !.state = IF m.obj.head = NoCondition THEN "create" ELSE "check"]
    BY <1>2 DEF Cache, MetaUpdate
  <2> QED BY <1>2, <2>1 DEF Adopted, MetaType
<1>3. CASE m.present /\ m.obj.gen # obj.gen
  <2> DEFINE o == [obj EXCEPT !.spec.password = m.obj.spec.password]
  <2>1. Cache(m, obj).obj = o /\ Cache(m, obj).present
    BY <1>3 DEF Cache, MetaUpdate, MetaType
  <2>2. /\ o.uid = obj.uid /\ o.gen = obj.gen /\ o.fresh = obj.fresh
        /\ SameButPassword(obj.spec, o.spec) /\ SameButPassword(o.spec, obj.spec)
    BY DEF ObjType, SpecType, SameButPassword
  <2>3. obj.spec \in SpecType /\ o.spec \in SpecType
    BY ObjFields, ObjPassword, MetaFields
  <2>4. Complete(o.spec)
    BY <2>2, <2>3, SamePasswordComplete
  <2> HIDE DEF o
  <2> QED BY <1>3, <2>1, <2>2, <2>4 DEF Adopted
<1> QED BY <1>1, <1>2, <1>3

\* The empty object is older than any CR.
LEMMA NoObjFacts ==
    NoObj.uid = 0 /\ NoObj.gen = 0 /\ NoObj.fresh = FALSE /\ NoObj.spec = AnySpec
  BY DEF NoObj

\* Marking a copy as behind changes nothing else of it.
LEMMA StaleFacts ==
    ASSUME NEW o \in ObjType
    PROVE  /\ Stale(o).uid = o.uid /\ Stale(o).gen = o.gen
           /\ Stale(o).spec = o.spec /\ ~Stale(o).fresh
  BY DEF Stale, ObjType

\* Steps that touch none of the copies of the CR keep their order.
LEMMA FrameStep ==
    ASSUME Versions, UNCHANGED <<api, inf, rc, aliased, meta>>,
           pc' = pc \/ (pc \in Rolling /\ pc' \in Rolling)
    PROVE  Versions'
<1>1. pc' = "updateSpec" => pc = "updateSpec"
  BY DEF Rolling
<1> QED BY <1>1 DEF Versions, OrderedCopies, CopiesInOrder, Blank, FreshCopies, AliasedCopies, CacheComplete,
               RoundActsOnFetchedSpec, Behind, Agree, SameButPassword, Complete, Invalid, Defaulted

\* A write by somebody else marks every copy as behind and leaves it in place.
LEMMA BehindStep ==
    ASSUME TypeOK, Versions, CopiesBehind, UNCHANGED <<pc, aliased>>,
           api' \in ApiType, api'.uid = api.uid,
           api'.gen > api.gen \/ (api'.gen = api.gen /\ api'.spec = api.spec)
    PROVE  Versions'
<1>1. inf.obj \in ObjType /\ meta.obj \in ObjType /\ rc \in ObjType
  BY MetaFields DEF TypeOK, InfType
<1>2. /\ inf'.obj = Stale(inf.obj) /\ inf'.known = inf.known
      /\ meta'.obj = Stale(meta.obj) /\ rc' = Stale(rc)
  BY DEF CopiesBehind, InfBehind, TypeOK, InfType, MetaType
<1>3. meta'.present = meta.present
  BY DEF CopiesBehind, TypeOK, MetaType
<1>4. /\ inf'.obj.uid = inf.obj.uid /\ inf'.obj.gen = inf.obj.gen
      /\ inf'.obj.spec = inf.obj.spec /\ ~inf'.obj.fresh
      /\ meta'.obj.uid = meta.obj.uid /\ meta'.obj.gen = meta.obj.gen
      /\ meta'.obj.spec = meta.obj.spec /\ ~meta'.obj.fresh
      /\ rc'.uid = rc.uid /\ rc'.gen = rc.gen /\ rc'.spec = rc.spec /\ ~rc'.fresh
  BY <1>1, <1>2, StaleFacts
<1>5. /\ inf.obj.gen \in Nat /\ meta.obj.gen \in Nat /\ api.gen \in Nat /\ api'.gen \in Nat
      /\ inf.obj.uid \in Nat /\ meta.obj.uid \in Nat /\ api.uid \in Nat
  BY <1>1, ObjFields, ApiFields DEF TypeOK
<1>6. OrderedCopies'
  BY <1>2, <1>3, <1>4, <1>5 DEF Versions, OrderedCopies, CopiesInOrder, Blank, Behind, Agree, SameButPassword
<1>7. FreshCopies' /\ AliasedCopies' /\ CacheComplete' /\ RoundActsOnFetchedSpec'
  BY <1>3, <1>4 DEF Versions, FreshCopies, AliasedCopies, CacheComplete,
                    RoundActsOnFetchedSpec, SameButPassword, Complete, Invalid, Defaulted
<1> QED BY <1>6, <1>7 DEF Versions

\* A status write by the operator: the server keeps uid, generation and spec;
\* the copy o of the cache is either in place but behind, or the answer.
LEMMA StatusStep ==
    ASSUME TypeOK, Versions, InfBehind, meta' \in MetaType, meta'.present = meta.present,
           api' \in ApiType, api'.alive = api.alive,
           api'.uid = api.uid, api'.gen = api.gen, api'.spec = api.spec,
           \/ /\ meta'.obj.uid = meta.obj.uid /\ meta'.obj.gen = meta.obj.gen
              /\ meta'.obj.spec = meta.obj.spec /\ ~meta'.obj.fresh
           \/ /\ meta'.obj = ServerCopy(api') /\ api.alive
              /\ meta.obj.uid = api.uid /\ meta.obj.gen = api.gen
    PROVE  /\ OrderedCopies'
           /\ meta'.present => Complete(meta'.obj.spec)
           /\ ~inf'.obj.fresh
           /\ meta'.obj.fresh => api'.alive /\ meta'.obj.uid = api'.uid /\ meta'.obj.gen = api'.gen
<1>1. inf.obj \in ObjType /\ meta.obj \in ObjType /\ meta'.obj \in ObjType
  BY MetaFields DEF TypeOK, InfType
<1>2. inf'.obj = Stale(inf.obj) /\ inf'.known = inf.known
  BY DEF InfBehind, TypeOK, InfType
<1>3. /\ inf'.obj.uid = inf.obj.uid /\ inf'.obj.gen = inf.obj.gen
      /\ inf'.obj.spec = inf.obj.spec /\ ~inf'.obj.fresh
  BY <1>1, <1>2, StaleFacts
<1>4. /\ inf.obj.gen \in Nat /\ meta.obj.gen \in Nat /\ api.gen \in Nat
      /\ inf.obj.uid \in Nat /\ meta.obj.uid \in Nat /\ api.uid \in Nat
      /\ meta.obj.spec \in SpecType /\ api.spec \in SpecType
  BY <1>1, ObjFields, ApiFields DEF TypeOK
<1>5. CASE /\ meta'.obj.uid = meta.obj.uid /\ meta'.obj.gen = meta.obj.gen
           /\ meta'.obj.spec = meta.obj.spec /\ ~meta'.obj.fresh
  BY <1>2, <1>3, <1>4, <1>5 DEF Versions, OrderedCopies, CopiesInOrder, Blank, Behind, Agree, SameButPassword, CacheComplete
<1>6. CASE /\ meta'.obj = ServerCopy(api') /\ api.alive
           /\ meta.obj.uid = api.uid /\ meta.obj.gen = api.gen
  <2>1. meta'.obj.uid = api.uid /\ meta'.obj.gen = api.gen /\ meta'.obj.spec = api.spec
    BY <1>6 DEF ServerCopy
  <2>2. SameButPassword(meta.obj.spec, api.spec)
    BY <1>6 DEF Versions, OrderedCopies, CopiesInOrder, Blank, Agree
  <2>3. meta'.present => Complete(meta'.obj.spec)
    BY <1>4, <2>1, <2>2, SamePasswordComplete DEF Versions, CacheComplete
  <2>4. OrderedCopies'
    BY <1>2, <1>3, <1>4, <1>6, <2>1, <2>2 DEF Versions, OrderedCopies, CopiesInOrder, Blank, Behind, Agree, SameButPassword
  <2> QED BY <1>3, <1>6, <2>1, <2>3, <2>4
<1> QED BY <1>5, <1>6

\* After a round nothing of it is left to relate.
LEMMA RoundOver ==
    EndRound => /\ ~rc'.fresh /\ ~aliased' /\ pc' = "idle" /\ pc' \notin Rolling
                /\ AliasedCopies' /\ RoundActsOnFetchedSpec'
  BY NoObjFacts DEF EndRound, Rolling, AliasedCopies, RoundActsOnFetchedSpec

\* Each outcome of the last status write keeps the copies in order.
LEMMA PublishStep ==
    ASSUME TypeOK, Versions, pc \in Rolling, NEW h \in Heads, Publish(h)
    PROVE  Versions'
<1>0. meta.obj \in ObjType /\ rc \in ObjType /\ meta \in MetaType /\ TypeOK'
  BY MetaFields, PublishType DEF TypeOK
<1>1. /\ ~rc'.fresh /\ AliasedCopies' /\ RoundActsOnFetchedSpec' /\ pc' \notin Rolling
  BY RoundOver DEF Publish, PublishOk, PublishRefused, PublishLost
<1>2. CASE PublishOk(h)
  <2>1. /\ api'.alive = api.alive /\ api'.uid = api.uid
        /\ api'.gen = api.gen /\ api'.spec = api.spec
    BY <1>2 DEF PublishOk, TypeOK, ApiType
  <2>2. meta'.present = meta.present /\ meta'.obj = IF aliased THEN ServerCopy(api') ELSE Stale(meta.obj)
    BY <1>0, <1>2 DEF PublishOk, MetaType
  <2>3. api.alive /\ rc.uid = api.uid /\ rc.gen = api.gen
    BY <1>2 DEF PublishOk, Versions, FreshCopies
  <2>4. aliased => meta.obj.uid = api.uid /\ meta.obj.gen = api.gen
    BY <2>3 DEF Versions, AliasedCopies
  <2>5. \/ /\ meta'.obj.uid = meta.obj.uid /\ meta'.obj.gen = meta.obj.gen
           /\ meta'.obj.spec = meta.obj.spec /\ ~meta'.obj.fresh
        \/ /\ meta'.obj = ServerCopy(api') /\ api.alive
           /\ meta.obj.uid = api.uid /\ meta.obj.gen = api.gen
    BY <1>0, <2>2, <2>3, <2>4, StaleFacts
  <2>6. InfBehind /\ meta' \in MetaType /\ api' \in ApiType
    BY <1>0, <1>2 DEF PublishOk, TypeOK
  <2> QED BY <1>1, <2>1, <2>2, <2>5, <2>6, StatusStep DEF Versions, FreshCopies, CacheComplete
<1>3. CASE PublishRefused(h)
  <2>1. /\ meta'.obj.uid = meta.obj.uid /\ meta'.obj.gen = meta.obj.gen
        /\ meta'.obj.spec = meta.obj.spec /\ (meta'.obj.fresh => meta.obj.fresh)
        /\ meta'.present = meta.present
    BY <1>0, <1>3 DEF PublishRefused, MetaType, ObjType
  <2>2. UNCHANGED <<api, inf>>
    BY <1>3 DEF PublishRefused
  <2> QED BY <1>1, <2>1, <2>2 DEF Versions, OrderedCopies, CopiesInOrder, Blank, FreshCopies, CacheComplete,
                                  Behind, Agree, SameButPassword
<1>4. CASE PublishLost(h)
  <2>1. /\ api'.alive = api.alive /\ api'.uid = api.uid
        /\ api'.gen = api.gen /\ api'.spec = api.spec
    BY <1>4 DEF PublishLost, TypeOK, ApiType
  <2>2. /\ meta'.obj.uid = meta.obj.uid /\ meta'.obj.gen = meta.obj.gen
        /\ meta'.obj.spec = meta.obj.spec /\ ~meta'.obj.fresh
        /\ meta'.present = meta.present
    BY <1>0, <1>4 DEF PublishLost, MetaType, ObjType
  <2>3. InfBehind /\ meta' \in MetaType /\ api' \in ApiType
    BY <1>0, <1>4 DEF PublishLost, TypeOK
  <2> QED BY <1>1, <2>1, <2>2, <2>3, StatusStep DEF Versions, FreshCopies, CacheComplete
<1> QED BY <1>2, <1>3, <1>4 DEF Publish

\* The copies are in order at the start.
LEMMA VersionsInit == Init => Versions
<1> SUFFICES ASSUME Init PROVE Versions
  OBVIOUS
<1>1. pc = "idle" /\ pc \notin Rolling /\ ~aliased /\ ~meta.present
  BY DEF Init, Rolling, NoMeta
<1>2. inf.obj = NoObj /\ meta.obj = NoObj /\ rc = NoObj
  BY DEF Init, NoMeta
<1>3. api.uid = 0 /\ api.gen = 0 /\ api.spec = AnySpec
  BY DEF Init
<1> QED BY <1>1, <1>2, <1>3, NoObjFacts
        DEF Versions, OrderedCopies, CopiesInOrder, Blank, FreshCopies, AliasedCopies, CacheComplete,
            RoundActsOnFetchedSpec, Behind, Agree, SameButPassword

\* Every step keeps the copies in order: one case per action.
LEMMA VersionsStep == TypeOK /\ Versions /\ [Next]_vars => Versions'
<1> SUFFICES ASSUME TypeOK, Versions, [Next]_vars PROVE Versions'
  OBVIOUS
<1>t. TypeOK'
  BY TypeStep
<1>a. /\ inf.obj \in ObjType /\ meta \in MetaType /\ meta.obj \in ObjType /\ rc \in ObjType
      /\ inf.obj.gen \in Nat /\ meta.obj.gen \in Nat /\ api.gen \in Nat
      /\ inf.obj.uid \in Nat /\ meta.obj.uid \in Nat /\ api.uid \in Nat
      /\ inf.obj.spec \in SpecType /\ meta.obj.spec \in SpecType /\ api.spec \in SpecType
  BY ObjFields, MetaFields, ApiFields DEF TypeOK, InfType
<1>b. {"Creating", "Failed", "Healthy"} \subseteq Heads
  BY DEF Heads, Conditions
<1>1. CASE ReconcileNotFound
  <2>1. meta'.obj = NoObj /\ ~meta'.present
    BY <1>1 DEF ReconcileNotFound, NoMeta
  <2>2. pc' = "idle" /\ pc' \notin Rolling /\ ~aliased'
    BY <1>1 DEF ReconcileNotFound, Rolling, Versions, AliasedCopies
  <2>3. UNCHANGED <<api, inf, rc>>
    BY <1>1 DEF ReconcileNotFound
  <2>4. Behind(NoObj, api) /\ Agree(NoObj, api) /\ Agree(NoObj, inf.obj)
    BY <1>a, NoObjFacts DEF Behind, Agree, Versions, OrderedCopies, Blank, SameButPassword
  <2> QED
    BY <1>a, <2>1, <2>2, <2>3, <2>4, NoObjFacts
       DEF Versions, OrderedCopies, CopiesInOrder, Blank, FreshCopies, AliasedCopies, CacheComplete,
           RoundActsOnFetchedSpec, Behind, Agree, SameButPassword
<1>2. CASE ReconcileInvalid
  BY <1>2, RoundOver DEF ReconcileInvalid, Versions, OrderedCopies, CopiesInOrder, Blank, FreshCopies, CacheComplete,
                         Behind, Agree, SameButPassword
<1>3. CASE ReconcileModified
  <2>1. /\ rc'.uid = inf.obj.uid /\ rc'.gen = inf.obj.gen /\ rc'.fresh = inf.obj.fresh
        /\ rc'.spec = Defaulted(inf.obj.spec)
    BY <1>a, <1>3 DEF ReconcileModified, ObjType
  <2>2. pc' \notin Rolling /\ ~aliased'
    BY <1>3 DEF ReconcileModified, Rolling, Versions, AliasedCopies
  <2>3. UNCHANGED <<api, inf, meta>>
    BY <1>3 DEF ReconcileModified
  <2> QED BY <2>1, <2>2, <2>3
          DEF Versions, OrderedCopies, CopiesInOrder, Blank, FreshCopies, AliasedCopies, CacheComplete,
              RoundActsOnFetchedSpec, Behind, Agree, SameButPassword
<1>4. CASE ReconcileDo
  <2>1. UNCHANGED <<api, inf>> /\ pc' \in Rolling /\ pc' # "updateSpec"
    BY <1>4 DEF ReconcileDo, Rolling
  <2>2. Complete(inf.obj.spec)
    BY <1>4 DEF ReconcileDo, Complete
  <2>3. meta' = Cache(meta, inf.obj) /\ aliased' = Adopted(meta, inf.obj)
    BY <1>4 DEF ReconcileDo
  <2>4. /\ meta'.present /\ Complete(meta'.obj.spec)
        /\ aliased' => /\ meta'.obj.uid = inf.obj.uid /\ meta'.obj.gen = inf.obj.gen
                       /\ meta'.obj.fresh => inf.obj.fresh
                       /\ SameButPassword(meta'.obj.spec, inf.obj.spec)
        /\ ~aliased' => meta'.obj = meta.obj /\ meta.obj.gen = inf.obj.gen
    BY <1>a, <2>2, <2>3, CacheFacts DEF Versions, CacheComplete
  <2>5. /\ rc'.uid = inf.obj.uid /\ rc'.gen = inf.obj.gen /\ rc'.fresh = inf.obj.fresh
        /\ SameButPassword(inf.obj.spec, rc'.spec)
    BY <1>a, <1>4 DEF ReconcileDo, ObjType, SpecType, SameButPassword
  <2>6. OrderedCopies'
    BY <1>a, <2>1, <2>4 DEF Versions, OrderedCopies, CopiesInOrder, Blank, Behind, Agree, SameButPassword
  <2>7. FreshCopies' /\ AliasedCopies' /\ CacheComplete'
    BY <2>1, <2>4, <2>5 DEF Versions, FreshCopies, AliasedCopies, CacheComplete
  <2>8. RoundActsOnFetchedSpec'
    BY <2>1, <2>4, <2>5 DEF Versions, RoundActsOnFetchedSpec, OrderedCopies, CopiesInOrder, Blank, Agree, SameButPassword
  <2> QED BY <2>6, <2>7, <2>8 DEF Versions
<1>5. CASE UpdateSpecOk
  <2>1. api'.alive = api.alive /\ api'.uid = api.uid /\ api'.gen = api.gen + 1
    BY <1>a, <1>5 DEF UpdateSpecOk, TypeOK, ApiType
  <2>2. /\ inf'.obj = Stale(inf.obj) /\ inf'.known = inf.known
        /\ meta'.obj = Stale(meta.obj) /\ meta'.present = meta.present
    BY <1>5 DEF UpdateSpecOk, InfBehind, TypeOK, InfType, MetaType
  <2>3. /\ inf'.obj.uid = inf.obj.uid /\ inf'.obj.gen = inf.obj.gen
        /\ inf'.obj.spec = inf.obj.spec /\ ~inf'.obj.fresh
        /\ meta'.obj.uid = meta.obj.uid /\ meta'.obj.gen = meta.obj.gen
        /\ meta'.obj.spec = meta.obj.spec /\ ~meta'.obj.fresh
    BY <1>a, <2>2, StaleFacts
  <2>4. EndRound
    BY <1>5 DEF UpdateSpecOk
  <2> QED BY <1>a, <2>1, <2>2, <2>3, <2>4, RoundOver
          DEF Versions, OrderedCopies, CopiesInOrder, Blank, FreshCopies, CacheComplete, Behind, Agree, SameButPassword
<1>6. CASE UpdateSpecRefused
  BY <1>6, RoundOver DEF UpdateSpecRefused, Versions, OrderedCopies, CopiesInOrder, Blank, FreshCopies, CacheComplete,
                         Behind, Agree, SameButPassword
<1>7. CASE UpdateStatusOk
  <2>1. /\ api'.alive = api.alive /\ api'.uid = api.uid
        /\ api'.gen = api.gen /\ api'.spec = api.spec
    BY <1>7 DEF UpdateStatusOk, TypeOK, ApiType
  <2>2. meta'.obj = ServerCopy(api') /\ meta'.present = meta.present
    BY <1>a, <1>7 DEF UpdateStatusOk, MetaType
  <2>3. api.alive /\ meta.obj.uid = api.uid /\ meta.obj.gen = api.gen
    BY <1>7 DEF UpdateStatusOk, Versions, FreshCopies
  <2>4. InfBehind /\ meta' \in MetaType /\ api' \in ApiType
    BY <1>t, <1>7 DEF UpdateStatusOk, TypeOK
  <2>5. /\ OrderedCopies'
        /\ meta'.present => Complete(meta'.obj.spec)
        /\ ~inf'.obj.fresh
        /\ meta'.obj.fresh => api'.alive /\ meta'.obj.uid = api'.uid /\ meta'.obj.gen = api'.gen
    BY <2>1, <2>2, <2>3, <2>4, StatusStep
  <2>6. /\ pc \in Rolling /\ pc' \in Rolling /\ pc' # "updateSpec" /\ aliased' = aliased
        /\ rc' = IF aliased THEN meta'.obj ELSE Stale(rc)
    BY <1>7 DEF UpdateStatusOk, Rolling
  <2>7. meta'.obj.uid = api.uid /\ meta'.obj.gen = api.gen /\ meta'.obj.spec = api.spec
    BY <2>1, <2>2 DEF ServerCopy
  <2>8. FreshCopies' /\ AliasedCopies' /\ CacheComplete'
    <3>1. aliased => rc' = meta'.obj
      BY <2>6
    <3>2. ~aliased => ~rc'.fresh
      BY <1>a, <2>6, StaleFacts
    <3>3. meta'.present
      BY <2>2, <2>6 DEF Versions, CacheComplete
    <3> QED BY <2>5, <2>6, <3>1, <3>2, <3>3 DEF FreshCopies, AliasedCopies, CacheComplete
  <2>9. RoundActsOnFetchedSpec'
    <3>1. CASE aliased
      BY <3>1, <2>6 DEF RoundActsOnFetchedSpec, SameButPassword
    <3>2. CASE ~aliased
      <4>1. rc'.uid = rc.uid /\ rc'.gen = rc.gen /\ rc'.spec = rc.spec
        BY <1>a, <3>2, <2>6, StaleFacts
      <4>2. SameButPassword(meta.obj.spec, api.spec)
        BY <2>3 DEF Versions, OrderedCopies, CopiesInOrder, Blank, Agree
      <4> QED BY <2>3, <2>6, <2>7, <4>1, <4>2 DEF Versions, RoundActsOnFetchedSpec, SameButPassword
    <3> QED BY <3>1, <3>2
  <2> QED BY <2>5, <2>8, <2>9 DEF Versions
<1>8. CASE UpdateStatusRefused
  <2>1. /\ meta'.obj.uid = meta.obj.uid /\ meta'.obj.gen = meta.obj.gen
        /\ meta'.obj.spec = meta.obj.spec /\ (meta'.obj.fresh => meta.obj.fresh)
        /\ meta'.present = meta.present
    BY <1>a, <1>8 DEF UpdateStatusRefused, MetaType, ObjType
  <2>2. UNCHANGED <<api, inf>> /\ EndRound
    BY <1>8 DEF UpdateStatusRefused
  <2> QED BY <2>1, <2>2, RoundOver DEF Versions, OrderedCopies, CopiesInOrder, Blank, FreshCopies, CacheComplete,
                                       Behind, Agree, SameButPassword
<1>9. CASE UpdateStatusLost
  <2>1. /\ api'.alive = api.alive /\ api'.uid = api.uid
        /\ api'.gen = api.gen /\ api'.spec = api.spec
    BY <1>9 DEF UpdateStatusLost, TypeOK, ApiType
  <2>2. /\ meta'.obj.uid = meta.obj.uid /\ meta'.obj.gen = meta.obj.gen
        /\ meta'.obj.spec = meta.obj.spec /\ ~meta'.obj.fresh
        /\ meta'.present = meta.present
    BY <1>a, <1>9 DEF UpdateStatusLost, MetaType, ObjType
  <2>3. InfBehind /\ meta' \in MetaType /\ api' \in ApiType /\ EndRound
    BY <1>t, <1>9 DEF UpdateStatusLost, TypeOK
  <2> QED BY <2>1, <2>2, <2>3, StatusStep, RoundOver DEF Versions, FreshCopies, CacheComplete
<1>10. CASE Requeue
  <2>1. CASE Publish("Creating")
    BY <1>10, <1>b, <2>1, PublishStep DEF Requeue, Rolling
  <2>2. CASE EndRound /\ UNCHANGED <<api, inf, queued, meta, budget, stsVars>>
    BY <2>2, RoundOver DEF Versions, OrderedCopies, CopiesInOrder, Blank, FreshCopies, CacheComplete,
                           Behind, Agree, SameButPassword
  <2> QED BY <1>10, <2>1, <2>2 DEF Requeue
<1>11. CASE SetFailed \/ SetReady
  BY <1>11, <1>b, PublishStep DEF SetFailed, SetReady, Rolling
<1>12. CASE \/ EnsureRedisStatefulset \/ EnsureRedisFailed
            \/ EnsureSentinelStatefulset \/ EnsureSentinelFailed
            \/ CheckNumbers \/ Heal \/ HealFailed \/ EnsureSentinelReady
  <2>1. UNCHANGED <<api, inf, rc, aliased, meta>> /\ pc \in Rolling /\ pc' \in Rolling
    BY <1>12 DEF EnsureRedisStatefulset, EnsureRedisFailed, EnsureSentinelStatefulset,
                 EnsureSentinelFailed, CheckNumbers, Heal, HealFailed, EnsureSentinelReady, Rolling
  <2> QED BY <2>1, FrameStep
<1>13. CASE SyncRedis \/ SyncSentinel \/ Kubernetes \/ Disruption
  BY <1>13, FrameStep DEF SyncRedis, SyncSentinel, Kubernetes, RedisPodsReady, SentinelPodsReady,
                          CollectRedis, CollectSentinel, Disruption
<1>14. CASE Restart
  <2>1. meta'.obj = NoObj /\ ~meta'.present
    BY <1>14 DEF Restart, NoMeta
  <2>2. /\ inf'.obj = NoObj \/ (api.alive /\ inf'.obj = ServerCopy(api))
        /\ UNCHANGED api /\ EndRound
    BY <1>14 DEF Restart
  <2> QED BY <1>a, <2>1, <2>2, RoundOver, NoObjFacts
          DEF ServerCopy, Versions, OrderedCopies, CopiesInOrder, Blank, FreshCopies, CacheComplete,
              Behind, Agree, SameButPassword
<1>15. CASE SyncCR
  <2>1. (inf'.obj = NoObj /\ ~inf'.known) \/ (api.alive /\ inf'.obj = ServerCopy(api))
    BY <1>15 DEF SyncCR
  <2>2. UNCHANGED <<api, meta, rc, pc, aliased>>
    BY <1>15 DEF SyncCR
  <2>3. OrderedCopies'
    BY <1>a, <2>1, <2>2, NoObjFacts DEF ServerCopy, Versions, OrderedCopies, CopiesInOrder, Blank, Behind, Agree, SameButPassword
  <2> QED BY <2>1, <2>2, <2>3, NoObjFacts
          DEF ServerCopy, Versions, FreshCopies, AliasedCopies, CacheComplete,
              RoundActsOnFetchedSpec, SameButPassword
<1>16. CASE UserCreate
  <2>1. ~api.alive /\ api'.uid = api.uid + 1 /\ api'.gen = 1
    BY <1>16 DEF UserCreate
  <2>2. UNCHANGED <<inf, meta, rc, pc, aliased>>
    BY <1>16 DEF UserCreate
  <2> QED BY <1>a, <2>1, <2>2
          DEF Versions, OrderedCopies, CopiesInOrder, Blank, FreshCopies, AliasedCopies, CacheComplete,
              RoundActsOnFetchedSpec, Behind, Agree, SameButPassword
<1>17. CASE UserEdit
  <2>1. api'.uid = api.uid /\ api'.gen > api.gen /\ api' \in ApiType
    BY <1>a, <1>t, <1>17 DEF UserEdit, TypeOK, ApiType
  <2> QED BY <1>17, <2>1, BehindStep DEF UserEdit
<1>18. CASE UserDelete
  <2>1. api'.uid = api.uid /\ api'.gen = api.gen /\ api'.spec = api.spec /\ api' \in ApiType
    BY <1>t, <1>18 DEF UserDelete, TypeOK, ApiType
  <2> QED BY <1>18, <2>1, BehindStep DEF UserDelete
<1>19. CASE UNCHANGED vars
  BY <1>19, FrameStep DEF vars
<1> QED
  BY <1>1, <1>2, <1>3, <1>4, <1>5, <1>6, <1>7, <1>8, <1>9, <1>10, <1>11, <1>12, <1>13,
     <1>14, <1>15, <1>16, <1>17, <1>18, <1>19
     DEF Next, Operator, Informers, Users

\* A spec Validate is done with is at or above the minima.
LEMMA CompleteMinimum ==
    ASSUME NEW s \in SpecType, Complete(s)
    PROVE  s.size >= MinRedis /\ s.sentinel >= MinSentinels
<1>1. /\ Defaulted(s).size = IF s.size = 0 THEN MinRedis ELSE s.size
      /\ Defaulted(s).sentinel = IF s.sentinel = 0 THEN MinSentinels ELSE s.sentinel
  BY DEF Defaulted, SpecType
<1>2. s.size # 0 /\ s.sentinel # 0
  BY <1>1, MinAssumption DEF Complete
<1>3. s.size \in Nat /\ s.sentinel \in Nat
  BY DEF SpecType
<1> QED BY <1>2, <1>3, MinAssumption DEF Complete, Invalid

\* Every step keeps what is deployed at or above the minima.
LEMMA MinimumStep == TypeOK /\ Versions /\ MinimumDeployed /\ [Next]_vars => MinimumDeployed'
<1> SUFFICES ASSUME TypeOK, Versions, MinimumDeployed, [Next]_vars PROVE MinimumDeployed'
  OBVIOUS
<1> USE DEF MinimumDeployed
<1>a. redis \in RedisType /\ sentinel \in SentinelType
  BY DEF TypeOK
<1>1. CASE EnsureRedisStatefulset
  <2>1. meta.obj.spec \in SpecType /\ Complete(meta.obj.spec)
    BY <1>1, ObjFields, MetaFields
       DEF EnsureRedisStatefulset, Versions, CacheComplete, Rolling, TypeOK
  <2>2. redis' = redis \/ redis'.replicas = meta.obj.spec.size
    BY <1>1 DEF EnsureRedisStatefulset, RedisFrom
  <2> QED BY <1>1, <2>1, <2>2, CompleteMinimum DEF EnsureRedisStatefulset
<1>2. CASE EnsureSentinelStatefulset
  <2>1. meta.obj.spec \in SpecType /\ Complete(meta.obj.spec)
    BY <1>2, ObjFields, MetaFields
       DEF EnsureSentinelStatefulset, Versions, CacheComplete, Rolling, TypeOK
  <2>2. sentinel' = sentinel \/ sentinel'.replicas = meta.obj.spec.sentinel
    BY <1>2, <1>a, ConstantTypes DEF EnsureSentinelStatefulset, SentinelFrom, SentinelType
  <2> QED BY <1>2, <2>1, <2>2, CompleteMinimum DEF EnsureSentinelStatefulset
<1>3. CASE Heal
  BY <1>3, <1>a DEF Heal, SentinelType
<1>4. CASE RedisPodsReady \/ SentinelPodsReady
  BY <1>4, <1>a DEF RedisPodsReady, SentinelPodsReady, RedisType, SentinelType
<1>5. CASE CollectRedis \/ CollectSentinel
  BY <1>5 DEF CollectRedis, CollectSentinel, NoRedis, NoSentinel
<1>6. CASE Disruption
  BY <1>6, <1>a DEF Disruption, NoRedis, NoSentinel, RedisType, SentinelType
<1>7. CASE \/ ReconcileNotFound \/ ReconcileInvalid \/ ReconcileModified \/ ReconcileDo
           \/ UpdateSpecOk \/ UpdateSpecRefused
           \/ UpdateStatusOk \/ UpdateStatusRefused \/ UpdateStatusLost
           \/ EnsureRedisFailed \/ EnsureSentinelFailed
           \/ CheckNumbers \/ HealFailed \/ EnsureSentinelReady
  BY <1>7 DEF ReconcileNotFound, ReconcileInvalid, ReconcileModified, ReconcileDo,
              UpdateSpecOk, UpdateSpecRefused, UpdateStatusOk, UpdateStatusRefused,
              UpdateStatusLost, EnsureRedisFailed, EnsureSentinelFailed, CheckNumbers,
              HealFailed, EnsureSentinelReady, stsVars
<1>8. CASE Requeue \/ SetFailed \/ SetReady
  BY <1>8 DEF Requeue, SetFailed, SetReady, Publish, PublishOk, PublishRefused, PublishLost, stsVars
<1>9. CASE Restart \/ Informers
  BY <1>9 DEF Restart, Informers, SyncCR, SyncRedis, SyncSentinel, stsVars
<1>10. CASE UserCreate \/ UserEdit \/ UserDelete
  BY <1>10 DEF UserCreate, UserEdit, UserDelete, stsVars
<1>11. CASE UNCHANGED vars
  BY <1>11 DEF vars
<1> QED BY <1>1, <1>2, <1>3, <1>4, <1>5, <1>6, <1>7, <1>8, <1>9, <1>10, <1>11
        DEF Next, Operator, Kubernetes, Users

\* The inductive invariant holds in every reachable state.
LEMMA Invariance == Spec => []IInv
<1>1. Init => IInv
  <2>1. Init => MinimumDeployed
    BY DEF Init, MinimumDeployed, NoRedis, NoSentinel
  <2> QED BY <2>1, TypeInit, VersionsInit DEF IInv
<1>2. IInv /\ [Next]_vars => IInv'
  BY TypeStep, VersionsStep, MinimumStep DEF IInv
<1> QED BY <1>1, <1>2, PTL DEF Spec

\* However edits, deletions, faults, restarts and stale reads interleave, no
\* StatefulSet is ever given fewer replicas than Validate demands.
THEOREM MinimumAlwaysDeployed == Spec => []MinimumDeployed
  BY Invariance, PTL DEF IInv

\* No in-memory copy of the CR overtakes the server, and copies of one generation agree.
THEOREM CopiesStayInOrder == Spec => []CopiesInOrder
<1>1. IInv => CopiesInOrder
  BY DEF IInv, Versions, OrderedCopies
<1> QED BY <1>1, Invariance, PTL

\* A round works from the version it fetched.
THEOREM RoundsActOnFetchedSpec == Spec => []RoundActsOnFetchedSpec
<1>1. IInv => RoundActsOnFetchedSpec
  BY DEF IInv, Versions
<1> QED BY <1>1, Invariance, PTL

\* Whatever is cached has passed Validate.
THEOREM CacheStaysComplete == Spec => []CacheComplete
<1>1. IInv => CacheComplete
  BY DEF IInv, Versions
<1> QED BY <1>1, Invariance, PTL

\* Steps at one of the write points are the writes themselves, a restart, or
\* a step of somebody else that leaves pc alone.
LEMMA EndOfRound ==
    ASSUME [Next]_vars, pc' = "idle", pc \in {"updateSpec", "ready", "failed"}, api' # api
    PROVE  \/ pc = "updateSpec" /\ UpdateSpecOk
           \/ /\ pc \in {"ready", "failed"}
              /\ \E h \in {"Healthy", "Failed"} : PublishOk(h) \/ PublishLost(h)
<1>1. CASE Operator
  BY <1>1 DEF Operator, ReconcileNotFound, ReconcileInvalid, ReconcileModified, ReconcileDo,
              UpdateSpecRefused, UpdateSpecOk, UpdateStatusOk, UpdateStatusRefused, UpdateStatusLost,
              EnsureRedisStatefulset, EnsureRedisFailed, EnsureSentinelStatefulset,
              EnsureSentinelFailed, CheckNumbers, Heal, HealFailed, EnsureSentinelReady,
              Requeue, SetFailed, SetReady, Publish, PublishRefused
<1>2. CASE Restart \/ Informers \/ Kubernetes
  BY <1>2 DEF Restart, Informers, SyncCR, SyncRedis, SyncSentinel, Kubernetes,
              RedisPodsReady, SentinelPodsReady, CollectRedis, CollectSentinel
<1>3. CASE Users
  BY <1>3 DEF Users, UserCreate, UserEdit, UserDelete, Disruption
<1>4. CASE UNCHANGED vars
  BY <1>4 DEF vars
<1> QED BY <1>1, <1>2, <1>3, <1>4 DEF Next

\* The write-back of defaults never overwrites what a user wrote meanwhile.
THEOREM UserEditsSurvive == Spec => NoLostUserEdit
<1>1. IInv /\ [Next]_vars
        => [pc = "updateSpec" /\ api'.spec # api.spec /\ pc' = "idle"
              => api'.spec = Defaulted(api.spec)]_vars
  <2> SUFFICES ASSUME IInv, [Next]_vars, pc = "updateSpec", api'.spec # api.spec, pc' = "idle"
               PROVE  api'.spec = Defaulted(api.spec)
    OBVIOUS
  <2>1. UpdateSpecOk
    BY EndOfRound
  <2>2. rc.spec = Defaulted(api.spec)
    BY <2>1 DEF UpdateSpecOk, IInv, Versions, FreshCopies
  <2> QED BY <2>1, <2>2 DEF UpdateSpecOk, IInv, TypeOK, ApiType
<1> QED BY <1>1, Invariance, PTL DEF Spec, NoLostUserEdit

\* A verdict that reaches the server was decided on the spec it has.
THEOREM VerdictsAreCurrent == Spec => VerdictForCurrentSpec
<1>1. IInv /\ [Next]_vars
        => [pc' = "idle" /\ pc \in {"ready", "failed"} /\ api' # api /\ meta.obj.uid = api.uid
              => meta.obj.gen = api.gen /\ SameButPassword(meta.obj.spec, api.spec)]_vars
  <2> SUFFICES ASSUME IInv, [Next]_vars, pc' = "idle", pc \in {"ready", "failed"},
                      api' # api, meta.obj.uid = api.uid
               PROVE  meta.obj.gen = api.gen /\ SameButPassword(meta.obj.spec, api.spec)
    OBVIOUS
  <2>1. rc.fresh
    BY EndOfRound DEF PublishOk, PublishLost
  <2>2. rc.uid = api.uid /\ rc.gen = api.gen
    BY <2>1 DEF IInv, Versions, FreshCopies
  <2>3. meta.obj.gen = api.gen
    BY <2>2 DEF IInv, Versions, RoundActsOnFetchedSpec, Rolling
  <2> QED BY <2>3 DEF IInv, Versions, OrderedCopies, CopiesInOrder, Agree
<1> QED BY <1>1, Invariance, PTL DEF Spec, VerdictForCurrentSpec

\* The cache never falls back to an older generation of its CR.
THEOREM CacheNeverGoesBack == Spec => NoSpecRollback
<1>1. IInv /\ IInv' /\ [Next]_vars
        => [meta.present /\ meta'.present /\ meta'.obj.uid = meta.obj.uid
              => meta'.obj.gen >= meta.obj.gen]_vars
  <2> SUFFICES ASSUME IInv, IInv', [Next]_vars, meta.present, meta'.present,
                      meta'.obj.uid = meta.obj.uid
               PROVE  meta'.obj.gen >= meta.obj.gen
    OBVIOUS
  <2>a. /\ meta \in MetaType /\ meta.obj \in ObjType /\ rc \in ObjType /\ inf.obj \in ObjType
        /\ meta.obj.gen \in Nat /\ inf.obj.gen \in Nat /\ api.gen \in Nat
        /\ Behind(meta.obj, api)
    BY ObjFields, MetaFields, ApiFields DEF IInv, TypeOK, InfType, Versions, OrderedCopies, CopiesInOrder
  <2>1. CASE ReconcileDo
    <3>1. meta'.obj = meta.obj \/ (meta'.obj.uid = inf.obj.uid /\ meta'.obj.gen = inf.obj.gen)
      BY <2>a, <2>1, CacheFacts DEF ReconcileDo, IInv, Versions, CacheComplete, Complete
    <3>2. inf.known
      BY <2>1 DEF ReconcileDo
    <3> QED BY <2>a, <3>1, <3>2 DEF IInv, Versions, OrderedCopies, CopiesInOrder
  <2>2. CASE UpdateStatusOk \/ \E h \in Heads : PublishOk(h)
    <3>1. \/ meta'.obj.gen = meta.obj.gen
          \/ meta'.obj = ServerCopy(api') /\ api'.uid = api.uid /\ api'.gen = api.gen
      BY <2>a, <2>2, StaleFacts DEF UpdateStatusOk, PublishOk, MetaType, IInv, TypeOK, ApiType
    <3> QED BY <2>a, <3>1 DEF ServerCopy, Behind
  <2>3. CASE UpdateStatusRefused \/ UpdateStatusLost
             \/ \E h \in Heads : PublishRefused(h) \/ PublishLost(h)
    <3>1. ASSUME UpdateStatusRefused PROVE meta'.obj.gen = meta.obj.gen
      BY <2>a, <3>1 DEF UpdateStatusRefused, MetaType, ObjType
    <3>2. ASSUME UpdateStatusLost PROVE meta'.obj.gen = meta.obj.gen
      BY <2>a, <3>2 DEF UpdateStatusLost, MetaType, ObjType
    <3>3. ASSUME NEW h \in Heads, PublishRefused(h) PROVE meta'.obj.gen = meta.obj.gen
      BY <2>a, <3>3 DEF PublishRefused, MetaType, ObjType
    <3>4. ASSUME NEW h \in Heads, PublishLost(h) PROVE meta'.obj.gen = meta.obj.gen
      BY <2>a, <3>4 DEF PublishLost, MetaType, ObjType
    <3> QED BY <2>a, <2>3, <3>1, <3>2, <3>3, <3>4
  <2>4. CASE UpdateSpecOk \/ UserEdit \/ UserDelete
    <3>1. meta'.obj = Stale(meta.obj)
      BY <2>a, <2>4 DEF UpdateSpecOk, UserEdit, UserDelete, CopiesBehind, MetaType
    <3> QED BY <2>a, <3>1, StaleFacts
  <2>5. CASE meta' = meta
    BY <2>a, <2>5
  <2>6. CASE Operator
    <3>1. {"Creating", "Failed", "Healthy"} \subseteq Heads
      BY DEF Heads, Conditions
    <3>2. ~ReconcileNotFound
      BY DEF ReconcileNotFound, NoMeta
    <3>3. CASE Requeue \/ SetFailed \/ SetReady
      BY <2>2, <2>3, <2>5, <3>1, <3>3 DEF Requeue, SetFailed, SetReady, Publish
    <3>4. CASE \/ ReconcileInvalid \/ ReconcileModified \/ UpdateSpecRefused
               \/ EnsureRedisStatefulset \/ EnsureRedisFailed
               \/ EnsureSentinelStatefulset \/ EnsureSentinelFailed
               \/ CheckNumbers \/ Heal \/ HealFailed \/ EnsureSentinelReady
      BY <2>5, <3>4 DEF ReconcileInvalid, ReconcileModified, UpdateSpecRefused,
              EnsureRedisStatefulset, EnsureRedisFailed, EnsureSentinelStatefulset,
              EnsureSentinelFailed, CheckNumbers, Heal, HealFailed, EnsureSentinelReady
    <3> QED BY <2>1, <2>2, <2>3, <2>4, <2>6, <3>2, <3>3, <3>4 DEF Operator
  <2>7. CASE Restart
    BY <2>7 DEF Restart, NoMeta
  <2>8. CASE Informers \/ Kubernetes \/ UserCreate \/ Disruption \/ UNCHANGED vars
    BY <2>5, <2>8 DEF Informers, SyncCR, SyncRedis, SyncSentinel, Kubernetes, RedisPodsReady,
        SentinelPodsReady, CollectRedis, CollectSentinel, UserCreate, Disruption, vars
  <2> QED BY <2>4, <2>6, <2>7, <2>8 DEF Next, Users
<1> QED BY <1>1, Invariance, PTL DEF Spec, NoSpecRollback
============================================================================
