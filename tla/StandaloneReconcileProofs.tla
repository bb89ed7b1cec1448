--------------------- MODULE StandaloneReconcileProofs ---------------------
(***************************************************************************)
(* Proofs about StandaloneReconcile and RedisMemory, for every set of      *)
(* parameters, values, specs and images, every budget and every width of   *)
(* the integers.                                                           *)
(***************************************************************************)
EXTENDS StandaloneReconcile, TLAPS

(***************************************************************************)
(* Amounts of memory.                                                      *)
(***************************************************************************)
\* What is left of a product fits the width.
LEMMA WrapType == \A n \in Int : Wrap(n) \in Int64
<1> SUFFICES ASSUME NEW n \in Int PROVE Wrap(n) \in Int64
  OBVIOUS
<1>1. PICK h \in Nat \ {0} : Modulus = 2 * h
  BY MemoryAssumption
<1>2. Modulus \div 2 = h
  BY <1>1
<1>3. (n + h) % Modulus \in 0 .. Modulus - 1
  BY <1>1
<1> QED BY <1>1, <1>2, <1>3 DEF Wrap, Int64

\* Both multipliers of a unit are integers, and the same.
LEMMA MultiplierIsPower ==
    ASSUME NEW u \in Units
    PROVE  Multiplier(u) = Power(u) /\ Power(u) \in Int
<1>1. Kilo \in Int /\ Kibi \in Int /\ Kilo * Kilo \in Int /\ Kibi * Kibi \in Int
      /\ Kilo * Kilo * Kilo \in Int /\ Kibi * Kibi * Kibi \in Int
  BY MemoryAssumption
<1>2. CASE u \in {"", "b"}
  <2>1. Multiplier(u) = 1
    BY <1>2 DEF Multiplier
  <2>2. Power(u) = 1
    BY <1>2 DEF Power
  <2> QED BY <2>1, <2>2
<1>3. CASE u \in {"k", "kb"}
  BY <1>1, <1>3 DEF Multiplier, Power, Base
<1>4. CASE u \in {"m", "mb"}
  BY <1>1, <1>4 DEF Multiplier, Power, Base
<1>5. CASE u \in {"g", "gb"}
  BY <1>1, <1>5 DEF Multiplier, Power, Base
<1> QED BY <1>2, <1>3, <1>4, <1>5 DEF Units

\* The bytes ParseRedisMemConf expects are the bytes redis computes, for every
\* amount and at every width, also where val*mul overflows: the comparison with
\* CONFIG GET does not fail for an amount redis has taken.
THEOREM ParseIsMemtoll == \A v \in Amounts : ParseRedisMemConf(v) = <<Memtoll(v), "">>
  BY MultiplierIsPower DEF Amounts, ParseRedisMemConf, Memtoll

\* What redis answers is a value or an amount.
LEMMA ReportedType ==
    ASSUME NEW p \in Params, NEW v \in Values \cup Amounts, ~RedisRefuses(p, v)
    PROVE  Reported(p, v) \in Values \cup Amounts
<1>1. CASE p \in MemParams
  <2>1. v \in Amounts
    BY <1>1 DEF RedisRefuses, RedisRefusesAmount
  <2>2. v[1] \in Int /\ Power(v[2]) \in Int
    BY <2>1, MultiplierIsPower DEF Amounts, Int64
  <2>3. v[1] * Power(v[2]) \in Int
    BY <2>2
  <2>4. Memtoll(v) \in Int64
    BY <2>3, WrapType DEF Memtoll
  <2> QED BY <1>1, <2>4 DEF Reported, Amounts, Units
<1>2. CASE p \notin MemParams
  BY <1>2 DEF Reported
<1> QED BY <1>1, <1>2

(***************************************************************************)
(* Types.                                                                  *)
(***************************************************************************)
\* A configuration gives values to some of the parameters.
LEMMA ConfigFields ==
    ASSUME NEW c \in Config
    PROVE  DOMAIN c \subseteq Params /\ \A p \in DOMAIN c : c[p] \in Values
<1>1. PICK S \in SUBSET Params : c \in [S -> Values]
  BY DEF Config
<1> QED BY <1>1

\* Filling in what is not there makes a configuration of two.
LEMMA IfNotExistType ==
    ASSUME NEW c \in Config, NEW d \in Config
    PROVE  IfNotExist(c, d) \in Config
<1>1. DOMAIN c \cup DOMAIN d \in SUBSET Params
  BY ConfigFields
<1>2. IfNotExist(c, d) \in [DOMAIN c \cup DOMAIN d -> Values]
  BY ConfigFields DEF IfNotExist
<1> QED BY <1>1, <1>2 DEF Config

\* The fields of a spec, and what Validate makes of it.
LEMMA SpecFields ==
    ASSUME NEW s \in SpecType
    PROVE  /\ s.config \in Config /\ s.exporter \in BOOLEAN /\ s.persist \in BOOLEAN
           /\ DOMAIN s.config \subseteq Params
           /\ \A p \in DOMAIN s.config : s.config[p] \in Values
           /\ Defaulted(s) \in SpecType
<1>1. s.config \in Config /\ s.exporter \in BOOLEAN /\ s.persist \in BOOLEAN
  BY DEF SpecType
<1>2. PersistenceConf(s) \in Config
  BY <1>1, IfNotExistType, ParamsAssumption DEF PersistenceConf
<1>3. Defaulted(s) \in SpecType
  BY <1>2 DEF Defaulted, SpecType
<1> QED BY <1>1, <1>3, ConfigFields

\* Every edit of a spec is a spec.
LEMMA EditsType ==
    ASSUME NEW s \in SpecType
    PROVE  Edits(s) \subseteq SpecType
  BY SpecsAssumption DEF Edits, SpecType

\* What redis.conf says.
LEMMA GenerateType ==
    ASSUME NEW s \in SpecType
    PROVE  GenerateRedisConfigMap(s) \in ConfType
  BY SpecFields, ParamsAssumption DEF GenerateRedisConfigMap, ConfType

\* CHOOSE finds a spec, since there is one.
LEMMA AnySpecType == AnySpec \in SpecType
  BY SpecsAssumption DEF AnySpec

\* The empty objects have their types.
LEMMA ConstantTypes ==
    NoObj \in ObjType /\ NoMeta \in MetaType /\ NoSts \in StsType /\ NoPod \in PodType
<1>1. NoObj \in ObjType
  BY AnySpecType DEF NoObj, ObjType, Heads
<1> QED BY <1>1, ParamsAssumption DEF NoMeta, NoSts, NoPod, MetaType, StsType, PodType

\* The server's answer is an object.
LEMMA ServerCopyType ==
    ASSUME NEW a \in ApiType
    PROVE  ServerCopy(a) \in ObjType
  BY DEF ServerCopy, ApiType, ObjType

\* Fields of an object, and of one marked as behind.
LEMMA ObjFields ==
    ASSUME NEW o \in ObjType
    PROVE  /\ o.spec \in SpecType /\ o.gen \in Nat /\ o.head \in Heads
           /\ Stale(o) \in ObjType
           /\ [o EXCEPT !.spec = Defaulted(@)] \in ObjType
<1>1. o.spec \in SpecType /\ o.gen \in Nat /\ o.head \in Heads
  BY DEF ObjType
<1>2. Defaulted(o.spec) \in SpecType
  BY <1>1, SpecFields
<1> QED BY <1>1, <1>2 DEF Stale, ObjType

\* MetaMap.Cache returns an entry.
LEMMA CacheType ==
    ASSUME NEW m \in MetaType, NEW obj \in ObjType
    PROVE  Cache(m, obj) \in MetaType
<1>1. NewStandalone(obj) \in MetaType
  BY DEF NewStandalone, MetaType
<1>2. UpdateStatusOf(m.obj.spec, obj.spec) \in {"Creating", "Upgrading", "Updating"}
  BY DEF UpdateStatusOf
<1>3. MetaUpdate(m, obj) \in MetaType
  BY <1>2 DEF MetaUpdate, MetaType
<1> QED BY <1>1, <1>3 DEF Cache

\* Fields of an entry of the MetaMap.
LEMMA MetaFields ==
    ASSUME NEW m \in MetaType
    PROVE  m.obj \in ObjType /\ m.status \in Heads
  BY DEF MetaType, Heads, Conditions

\* Replacing the object keeps the type of an entry.
LEMMA MetaObj ==
    ASSUME NEW m \in MetaType, NEW o \in ObjType
    PROVE  [m EXCEPT !.obj = o] \in MetaType
  BY DEF MetaType

\* Setting a condition on the cached object keeps its type, and the rest of it.
LEMMA MetaHead ==
    ASSUME NEW m \in MetaType, NEW h \in Heads
    PROVE  /\ [m EXCEPT !.obj.head = h] \in MetaType
           /\ [m EXCEPT !.obj.head = h] = [m EXCEPT !.obj = [m.obj EXCEPT !.head = h]]
           /\ [m EXCEPT !.obj.head = h, !.obj.fresh = FALSE] \in MetaType
           /\ [m EXCEPT !.obj.head = h, !.obj.fresh = FALSE]
                = [m EXCEPT !.obj = [m.obj EXCEPT !.head = h, !.fresh = FALSE]]
<1>1. m.obj \in ObjType
  BY DEF MetaType
<1>2. [m.obj EXCEPT !.head = h] \in ObjType
  BY <1>1 DEF ObjType
<1>3. [m.obj EXCEPT !.head = h, !.fresh = FALSE] \in ObjType
  BY <1>1 DEF ObjType
<1>4. [m EXCEPT !.obj.head = h] = [m EXCEPT !.obj = [m.obj EXCEPT !.head = h]]
  BY <1>1 DEF MetaType, ObjType
<1>5. [m EXCEPT !.obj.head = h, !.obj.fresh = FALSE]
        = [m EXCEPT !.obj = [m.obj EXCEPT !.head = h, !.fresh = FALSE]]
  BY <1>1 DEF MetaType, ObjType
<1> QED BY <1>2, <1>3, <1>4, <1>5, MetaObj

\* A status write keeps the type of the CR, and all of it but the head.
LEMMA ApiHead ==
    ASSUME NEW a \in ApiType, NEW h \in Heads
    PROVE  /\ [a EXCEPT !.head = h] \in ApiType
           /\ [a EXCEPT !.head = h].gen = a.gen
           /\ [a EXCEPT !.head = h].spec = a.spec
  BY DEF ApiType

\* A spec write keeps the type of the CR.
LEMMA ApiSpec ==
    ASSUME NEW a \in ApiType, NEW s \in SpecType
    PROVE  /\ [a EXCEPT !.gen = @ + 1, !.spec = s] \in ApiType
           /\ [a EXCEPT !.gen = @ + 1, !.spec = s].gen = a.gen + 1
           /\ [a EXCEPT !.gen = @ + 1, !.spec = s].spec = s
<1>1. a.gen + 1 \in Nat
  BY DEF ApiType
<1> QED BY <1>1, Zenon DEF ApiType

\* The end of a round resets its variables to values of their types.
LEMMA EndRoundType ==
    EndRound => /\ pc' \in Steps /\ at' \in 1..Len(Order) /\ todo' \subseteq Params
                /\ conn' \in BOOLEAN /\ rc' \in ObjType /\ aliased' \in BOOLEAN
<1>1. 1 \in 1..Len(Order)
  BY DEF Order
<1> QED BY <1>1, ConstantTypes DEF EndRound, Steps

\* A fault or an edit leaves a budget.
LEMMA SpendType ==
    ASSUME TypeOK
    PROVE  /\ Fault => budget' \in BudgetType
           /\ Spend("edits") => budget' \in BudgetType
           /\ \A o \in ObjType : Refused(o) => budget' \in BudgetType
<1>1. budget.edits \in Nat /\ budget.faults \in Nat
  BY DEF TypeOK, BudgetType
<1>2. Fault => budget' \in BudgetType
  <2>1. Fault => budget.faults - 1 \in Nat
    BY <1>1 DEF Fault, Spend
  <2> QED BY <2>1 DEF Fault, Spend, TypeOK, BudgetType
<1>3. Spend("edits") => budget' \in BudgetType
  <2>1. Spend("edits") => budget.edits - 1 \in Nat
    BY <1>1 DEF Spend
  <2> QED BY <2>1 DEF Spend, TypeOK, BudgetType
<1> QED BY <1>2, <1>3 DEF Refused, TypeOK

\* An informer copy that falls behind keeps its type.
LEMMA InfBehindType ==
    TypeOK /\ InfBehind => /\ inf' \in [known : BOOLEAN, obj : ObjType]
                           /\ inf'.obj = Stale(inf.obj)
  BY ObjFields DEF TypeOK, InfBehind

\* The next object of Ensure keeps the types of the round.
LEMMA AdvanceType ==
    TypeOK /\ Advance => /\ pc' \in Steps /\ at' \in 1..Len(Order) /\ todo' \subseteq Params
                         /\ conn' \in BOOLEAN /\ rc' \in ObjType /\ aliased' \in BOOLEAN
<1>1. Len(Order) = 6
  BY DEF Order
<1> QED BY <1>1 DEF Advance, TypeOK, Steps

\* Going to another step of the round does so, too.
LEMMA GotoType ==
    ASSUME NEW step \in Steps, TypeOK, Goto(step)
    PROVE  /\ pc' \in Steps /\ at' \in 1..Len(Order) /\ todo' \subseteq Params
           /\ conn' \in BOOLEAN /\ rc' \in ObjType /\ aliased' \in BOOLEAN
  BY DEF Goto, TypeOK

\* Each outcome of the last status write keeps the types.
LEMMA PublishType ==
    ASSUME TypeOK, NEW h \in Heads, Publish(h)
    PROVE  TypeOK'
<1>1. EndRound
  BY DEF Publish, PublishOk, PublishRefused, PublishLost
<1>2. /\ pc' \in Steps /\ at' \in 1..Len(Order) /\ todo' \subseteq Params
      /\ conn' \in BOOLEAN /\ rc' \in ObjType /\ aliased' \in BOOLEAN
  BY <1>1, EndRoundType
<1>3. meta.obj \in ObjType /\ Stale(meta.obj) \in ObjType /\ meta.obj.head \in Heads
  BY ObjFields, MetaFields DEF TypeOK
<1>4. CASE PublishOk(h)
  <2>1. api' \in ApiType
    BY <1>4, ApiHead DEF PublishOk, TypeOK
  <2>2. meta' \in MetaType
    BY <1>3, <1>4, <2>1, ServerCopyType, MetaObj DEF PublishOk, TypeOK
  <2> QED BY <1>2, <1>4, <2>1, <2>2, InfBehindType DEF PublishOk, TypeOK, kubeVars
<1>5. CASE PublishRefused(h)
  <2>1. meta' \in MetaType
    BY <1>3, <1>5, MetaHead DEF PublishRefused, TypeOK
  <2>2. budget' \in BudgetType
    BY <1>5, SpendType DEF PublishRefused, TypeOK
  <2> QED BY <1>2, <1>5, <2>1, <2>2 DEF PublishRefused, TypeOK, kubeVars, crVars
<1>6. CASE PublishLost(h)
  <2>1. api' \in ApiType
    BY <1>6, ApiHead DEF PublishLost, TypeOK
  <2>2. meta' \in MetaType
    BY <1>3, <1>6, MetaHead DEF PublishLost, TypeOK
  <2>3. budget' \in BudgetType
    BY <1>6, SpendType DEF PublishLost
  <2> QED BY <1>2, <1>6, <2>1, <2>2, <2>3, InfBehindType DEF PublishLost, TypeOK, kubeVars
<1> QED BY <1>4, <1>5, <1>6 DEF Publish

\* The end of the redis keeps the types of the pod and its address.
LEMMA PodStopsType ==
    ASSUME TypeOK, PodStops, sts' \in StsType, budget' \in BudgetType
    PROVE  TypeOK'
<1>1. pod' \in PodType /\ podInf' \in {"none", "running", "gone"} /\ conn' \in BOOLEAN
  BY ConstantTypes DEF PodStops, TypeOK
<1> QED BY <1>1 DEF PodStops, TypeOK, crVars

\* The initial state is well typed.
LEMMA TypeInit == Init => TypeOK
<1> SUFFICES ASSUME Init PROVE TypeOK
  OBVIOUS
<1>1. api \in ApiType
  BY SpecsAssumption DEF Init, ApiType, Heads
<1>2. 1 \in 1..Len(Order)
  BY DEF Order
<1>3. /\ inf \in [known : BOOLEAN, obj : ObjType]
      /\ pc \in Steps /\ podInf \in {"none", "running", "gone"}
  BY ConstantTypes DEF Init, Steps
<1>4. file \in ConfType /\ budget \in BudgetType
  BY ParamsAssumption, BudgetAssumption DEF Init
<1> QED BY <1>1, <1>2, <1>3, <1>4, ConstantTypes DEF Init, TypeOK

\* SetCustomRedisConfig goes through parameters of the cached spec.  The types
\* of what the redis reports rest on it.
TodoListed == pc = "setConfig" => todo \subseteq DOMAIN meta.obj.spec.config

\* Every step keeps the types: one case per action.
LEMMA TypeStep == TypeOK /\ TodoListed /\ [Next]_vars => TypeOK'
<1> SUFFICES ASSUME TypeOK, TodoListed, [Next]_vars PROVE TypeOK'
  OBVIOUS
<1>a. /\ inf.obj \in ObjType /\ inf.obj.spec \in SpecType /\ Stale(inf.obj) \in ObjType
      /\ meta.obj \in ObjType /\ meta.obj.spec \in SpecType /\ Stale(meta.obj) \in ObjType
      /\ rc.spec \in SpecType /\ Stale(rc) \in ObjType
      /\ meta.status \in Heads /\ api.spec \in SpecType
  BY ObjFields, MetaFields DEF TypeOK, ApiType
<1>b. {"Creating", "Failed", "Healthy"} \subseteq Heads
  BY DEF Heads, Conditions
<1>c. meta.obj.spec.exporter \in BOOLEAN /\ DOMAIN meta.obj.spec.config \subseteq Params
      /\ \A p \in DOMAIN meta.obj.spec.config : meta.obj.spec.config[p] \in Values
  BY <1>a, SpecFields
<1>1. CASE ReconcileInvalid
  BY <1>1, EndRoundType DEF ReconcileInvalid, TypeOK, crVars, kubeVars
<1>2. CASE ReconcileModified
  <2>1. rc' \in ObjType
    BY <1>2, <1>a, ObjFields DEF ReconcileModified
  <2> QED BY <1>2, <2>1 DEF ReconcileModified, TypeOK, crVars, kubeVars, Steps
<1>3. CASE ReconcileDo
  <2>1. meta' \in MetaType /\ rc' \in ObjType
    BY <1>a, <1>3, CacheType DEF ReconcileDo, TypeOK
  <2>2. aliased' \in BOOLEAN /\ pc' \in Steps
    BY <1>3 DEF ReconcileDo, Adopted, Steps
  <2> QED BY <1>3, <2>1, <2>2 DEF ReconcileDo, TypeOK, crVars, kubeVars
<1>4. CASE UpdateSpecOk
  <2>1. api' \in ApiType
    BY <1>a, <1>4, ApiSpec DEF UpdateSpecOk, TypeOK
  <2>2. meta' \in MetaType
    BY <1>a, <1>4, MetaObj DEF UpdateSpecOk, TypeOK
  <2> QED BY <1>4, <2>1, <2>2, InfBehindType, EndRoundType DEF UpdateSpecOk, TypeOK, kubeVars
<1>5. CASE UpdateSpecRefused
  <2>1. budget' \in BudgetType
    BY <1>5, SpendType DEF UpdateSpecRefused, TypeOK
  <2> QED BY <1>5, <2>1, EndRoundType DEF UpdateSpecRefused, TypeOK, crVars, kubeVars
<1>6. CASE UpdateStatusOk
  <2>1. api' \in ApiType
    BY <1>a, <1>6, ApiHead DEF UpdateStatusOk, TypeOK
  <2>2. meta' \in MetaType /\ meta'.obj \in ObjType
    BY <1>6, <2>1, ServerCopyType, MetaObj, MetaFields DEF UpdateStatusOk, TypeOK
  <2>3. rc' \in ObjType /\ pc' \in Steps
    BY <1>a, <1>6, <2>2 DEF UpdateStatusOk, Steps
  <2> QED BY <1>6, <2>1, <2>2, <2>3, InfBehindType DEF UpdateStatusOk, TypeOK, kubeVars
<1>7. CASE UpdateStatusRefused
  <2>1. meta' \in MetaType
    BY <1>a, <1>7, MetaHead DEF UpdateStatusRefused, TypeOK
  <2>2. budget' \in BudgetType
    BY <1>7, <1>a, SpendType DEF UpdateStatusRefused, TypeOK
  <2> QED BY <1>7, <2>1, <2>2, EndRoundType DEF UpdateStatusRefused, TypeOK, crVars, kubeVars
<1>8. CASE UpdateStatusLost
  <2>1. api' \in ApiType
    BY <1>a, <1>8, ApiHead DEF UpdateStatusLost, TypeOK
  <2>2. meta' \in MetaType
    BY <1>a, <1>8, MetaHead DEF UpdateStatusLost, TypeOK
  <2>3. budget' \in BudgetType
    BY <1>8, SpendType DEF UpdateStatusLost
  <2> QED BY <1>8, <2>1, <2>2, <2>3, InfBehindType, EndRoundType
          DEF UpdateStatusLost, TypeOK, kubeVars
<1>9. CASE CreateIfNotExists
  <2>1. objs' \subseteq Objects /\ file' \in ConfType
    BY <1>9, <1>a, GenerateType DEF CreateIfNotExists, TypeOK
  <2>2. Advance
    BY <1>9 DEF CreateIfNotExists
  <2> QED BY <1>9, <2>1, <2>2, AdvanceType DEF CreateIfNotExists, TypeOK, crVars
<1>10. CASE EnsureRedisStatefulset
  <2>1. \A r \in BOOLEAN : GenerateRedisStatefulSet(meta.obj.spec, r) \in StsType
    BY <1>c DEF GenerateRedisStatefulSet, StsType
  <2>2. sts.ready \in BOOLEAN
    BY DEF TypeOK, StsType
  <2>3. sts' \in StsType
    BY <1>10, <2>1, <2>2 DEF EnsureRedisStatefulset, TypeOK
  <2>4. Advance
    BY <1>10 DEF EnsureRedisStatefulset
  <2> QED BY <1>10, <2>3, <2>4, AdvanceType DEF EnsureRedisStatefulset, TypeOK, crVars
<1>11. CASE EnsureFailed
  <2>1. budget' \in BudgetType
    BY <1>11, SpendType DEF EnsureFailed, TypeOK
  <2>2. Goto("failed") /\ "failed" \in Steps
    BY <1>11 DEF EnsureFailed, Steps
  <2> QED BY <1>11, <2>1, <2>2, GotoType DEF EnsureFailed, TypeOK, crVars, kubeVars
<1>12. CASE CheckRedisNumber
  BY <1>12 DEF CheckRedisNumber, Goto, TypeOK, Steps, crVars, kubeVars
<1>13. CASE CheckRedisConfig
  <2>1. pc' \in Steps /\ todo' \subseteq Params /\ conn' \in BOOLEAN
    BY <1>13, <1>c DEF CheckRedisConfig, TypeOK, Steps
  <2> QED BY <1>13, <2>1 DEF CheckRedisConfig, TypeOK, crVars, kubeVars
<1>14. CASE CheckRedisConfigFails
  <2>1. pc' \in Steps /\ todo' \subseteq Params /\ conn' \in BOOLEAN /\ budget' \in BudgetType
    BY <1>14, <1>c, SpendType DEF CheckRedisConfigFails, Steps
  <2> QED BY <1>14, <2>1 DEF CheckRedisConfigFails, TypeOK, crVars, kubeVars
<1>15. CASE GetRedisesIPsFailed
  <2>1. budget' \in BudgetType
    BY <1>15, SpendType DEF GetRedisesIPsFailed, TypeOK
  <2>2. Goto("failed") /\ "failed" \in Steps
    BY <1>15 DEF GetRedisesIPsFailed, Steps
  <2> QED BY <1>15, <2>1, <2>2, GotoType DEF GetRedisesIPsFailed, TypeOK, crVars, kubeVars
<1>16. CASE SetCustomRedisConfig
  <2>1. PICK p \in todo : /\ ~RedisRefuses(p, meta.obj.spec.config[p])
                          /\ pod' = [pod EXCEPT !.conf[p] = Reported(p, meta.obj.spec.config[p])]
                          /\ todo' = todo \ {p}
    BY <1>16 DEF SetCustomRedisConfig
  <2>2. p \in Params /\ meta.obj.spec.config[p] \in Values
    BY <1>16, <1>c DEF TodoListed, SetCustomRedisConfig, TypeOK
  <2>3. Reported(p, meta.obj.spec.config[p]) \in Values \cup Amounts
    BY <2>1, <2>2, ReportedType
  <2>4. [pod.conf EXCEPT ![p] = Reported(p, meta.obj.spec.config[p])] \in ConfType
    BY <2>2, <2>3 DEF TypeOK, PodType, ConfType
  <2>5. pod' = [pod EXCEPT !.conf = [pod.conf EXCEPT ![p] = Reported(p, meta.obj.spec.config[p])]]
    BY <2>1
  <2>6. pod' \in PodType
    BY <2>4, <2>5 DEF TypeOK, PodType
  <2>7. pc' \in Steps /\ todo' \subseteq Params
    BY <1>16, <2>1 DEF SetCustomRedisConfig, Steps, TypeOK
  <2> QED BY <1>16, <2>6, <2>7 DEF SetCustomRedisConfig, TypeOK, crVars
<1>17. CASE SetCustomRedisConfigFailed
  <2>1. budget' \in BudgetType
    BY <1>17, SpendType DEF SetCustomRedisConfigFailed, TypeOK
  <2>2. Goto("failed") /\ "failed" \in Steps
    BY <1>17 DEF SetCustomRedisConfigFailed, Steps
  <2> QED BY <1>17, <2>1, <2>2, GotoType
          DEF SetCustomRedisConfigFailed, TypeOK, crVars, kubeVars
<1>18. CASE Requeue
  <2>1. CASE Publish("Creating")
    BY <1>b, <2>1, PublishType
  <2>2. CASE EndRound /\ UNCHANGED <<crVars, kubeVars, meta, budget>>
    BY <2>2, EndRoundType DEF TypeOK, crVars, kubeVars
  <2> QED BY <1>18, <2>1, <2>2 DEF Requeue
<1>19. CASE SetFailed
  BY <1>b, <1>19, PublishType DEF SetFailed
<1>20. CASE SetReady
  BY <1>b, <1>20, PublishType DEF SetReady
<1>21. CASE Restart
  <2>1. inf' \in [known : BOOLEAN, obj : ObjType]
    BY <1>21, ServerCopyType DEF Restart, TypeOK
  <2>2. budget' \in BudgetType /\ meta' \in MetaType /\ podInf' \in {"none", "running", "gone"}
    BY <1>21, SpendType, ConstantTypes DEF Restart
  <2> QED BY <1>21, <2>1, <2>2, EndRoundType DEF Restart, TypeOK
<1>22. CASE UserEdit
  <2>1. api' \in ApiType
    BY <1>22, <1>a, EditsType, ApiSpec DEF UserEdit, TypeOK
  <2>2. inf' \in [known : BOOLEAN, obj : ObjType]
    BY <1>22, InfBehindType DEF UserEdit, CopiesBehind
  <2>3. meta' \in MetaType /\ rc' \in ObjType
    BY <1>22, <1>a, MetaObj DEF UserEdit, CopiesBehind, TypeOK
  <2>4. budget' \in BudgetType
    BY <1>22, SpendType DEF UserEdit
  <2> QED BY <1>22, <2>1, <2>2, <2>3, <2>4 DEF UserEdit, TypeOK, kubeVars
<1>23. CASE Disruption
  <2>1. sts' \in StsType
    BY <1>23, ConstantTypes DEF Disruption, TypeOK, StsType
  <2>2. PodStops /\ budget' \in BudgetType
    BY <1>23, SpendType DEF Disruption
  <2> QED BY <2>1, <2>2, PodStopsType
<1>24. CASE SyncCR
  <2>1. inf' \in [known : BOOLEAN, obj : ObjType]
    BY <1>24, ServerCopyType DEF SyncCR, TypeOK
  <2>2. queued' \in BOOLEAN
    BY <1>24 DEF SyncCR
  <2> QED BY <1>24, <2>1, <2>2 DEF SyncCR, TypeOK, kubeVars, roundVars
<1>25. CASE SyncObjects
  BY <1>25 DEF SyncObjects, TypeOK, crVars, roundVars
<1>26. CASE SyncSts
  BY <1>26 DEF SyncSts, TypeOK, crVars, roundVars
<1>27. CASE SyncPod
  BY <1>27 DEF SyncPod, TypeOK, crVars, roundVars
<1>28. CASE PodStarts
  <2>1. \A p \in Params : Reported(p, file[p]) \in Values \cup Amounts
    BY <1>28, ReportedType DEF PodStarts, TypeOK, ConfType
  <2>2. [p \in Params |-> Reported(p, file[p])] \in ConfType
    BY <2>1 DEF ConfType
  <2>3. sts.exporter \in BOOLEAN
    BY DEF TypeOK, StsType
  <2>4. pod' \in PodType
    BY <1>28, <2>2, <2>3 DEF PodStarts, PodType
  <2>5. sts' \in StsType
    BY <1>28 DEF PodStarts, TypeOK, StsType
  <2> QED BY <1>28, <2>4, <2>5 DEF PodStarts, TypeOK, crVars, roundVars
<1>29. CASE RollingUpdate
  <2>1. sts' \in StsType
    BY <1>29 DEF RollingUpdate, TypeOK, StsType
  <2>2. PodStops /\ budget' \in BudgetType
    BY <1>29 DEF RollingUpdate, TypeOK
  <2> QED BY <2>1, <2>2, PodStopsType
<1>30. CASE UNCHANGED vars
  BY <1>30 DEF vars, crVars, kubeVars, roundVars, TypeOK
<1> QED
  BY <1>1, <1>2, <1>3, <1>4, <1>5, <1>6, <1>7, <1>8, <1>9, <1>10, <1>11, <1>12, <1>13,
     <1>14, <1>15, <1>16, <1>17, <1>18, <1>19, <1>20, <1>21, <1>22, <1>23, <1>24, <1>25,
     <1>26, <1>27, <1>28, <1>29, <1>30
     DEF Next, Operator, Users, Informers, Kubernetes

(***************************************************************************)
(* The inductive invariant.  A verdict is about the spec the round acted   *)
(* on, meta.Obj's, and is written with the resourceVersion of rc.  That    *)
(* the two belong together, and that a copy of the server's generation has *)
(* the server's spec, is CopiesOk; what the redis of the round has been    *)
(* told, and that it is still the same redis, is RedisOk.                  *)
(***************************************************************************)
Agrees(o) ==
    /\ o.gen <= api.gen
    /\ o.gen = api.gen => o.spec = api.spec
    /\ o.fresh => o.gen = api.gen

CopiesOk ==
    /\ api.gen > 0
    /\ Agrees(inf.obj) /\ Agrees(meta.obj)
    /\ rc.fresh => rc.gen = api.gen
    /\ pc \notin {"idle", "updateSpec"} => meta.obj.gen = rc.gen

\* The redis answers only in the rest of the round, and while it lives.
ConnOk ==
    /\ podInf = "running" => pod.up
    /\ conn => pod.up /\ pc \in {"setConfig", "ready", "failed"}

\* What redis understands of the spec is set, but for what is still to do.
SetSoFar ==
    conn /\ pc \in {"setConfig", "ready"} =>
        \A p \in DOMAIN meta.obj.spec.config :
            \/ pc = "setConfig" /\ p \in todo
            \/ RedisRefuses(p, meta.obj.spec.config[p])
            \/ pod.conf[p] = Reported(p, meta.obj.spec.config[p])

RedisOk == ConnOk /\ TodoListed /\ SetSoFar

IInv == TypeOK /\ CopiesOk /\ RedisOk

\* Marking a copy as behind changes nothing else of it.
LEMMA StaleFacts ==
    ASSUME NEW o \in ObjType
    PROVE  Stale(o).gen = o.gen /\ Stale(o).spec = o.spec /\ ~Stale(o).fresh
  BY DEF Stale, ObjType

\* What MetaMap.Cache keeps and what it replaces.
LEMMA CacheFacts ==
    ASSUME NEW m \in MetaType, NEW obj \in ObjType
    PROVE  \/ Cache(m, obj).obj = obj
           \/ Cache(m, obj).obj = m.obj /\ m.obj.gen = obj.gen
  BY DEF Cache, MetaUpdate, NewStandalone, MetaType

\* A config the redis matches is a config it has.
LEMMA MatchesIsConfigured ==
    ASSUME NEW s \in SpecType, ConfigMatches(s.config, pod.conf)
    PROVE  Configured(s)
<1> SUFFICES ASSUME NEW p \in DOMAIN s.config, ~RedisRefuses(p, s.config[p])
             PROVE  pod.conf[p] = Reported(p, s.config[p])
  BY DEF Configured
<1>1. CASE p \in MemParams
  <2>1. s.config[p] \in Amounts
    BY <1>1 DEF RedisRefuses, RedisRefusesAmount
  <2>2. pod.conf[p] = ParseRedisMemConf(s.config[p])
    BY <1>1, <2>1 DEF ConfigMatches, ParseFails
  <2> QED BY <1>1, <2>1, <2>2, ParseIsMemtoll DEF Reported
<1>2. CASE p \notin MemParams
  BY <1>2 DEF ConfigMatches, Reported
<1> QED BY <1>1, <1>2

\* A round that ends leaves nothing to say about its redis.
LEMMA RoundEnds ==
    ASSUME RedisOk, EndRound, UNCHANGED <<pod, podInf>>
    PROVE  RedisOk'
  BY DEF RedisOk, ConnOk, TodoListed, SetSoFar, EndRound

\* What a step before the redis is asked does to the round leaves the rest alone.
LEMMA NotAsked ==
    ASSUME RedisOk, UNCHANGED <<pod, podInf, conn>>,
           pc \notin {"setConfig", "ready", "failed"}, pc' # "setConfig"
    PROVE  RedisOk'
  BY DEF RedisOk, ConnOk, TodoListed, SetSoFar

\* Steps that do not touch the round, the cached spec and the redis.
LEMMA SameRound ==
    ASSUME RedisOk, UNCHANGED <<pc, todo, conn, pod, podInf>>, meta'.obj.spec = meta.obj.spec
    PROVE  RedisOk'
  BY DEF RedisOk, ConnOk, TodoListed, SetSoFar

\* Giving up needs nothing from the redis.
LEMMA GivesUp ==
    ASSUME RedisOk, pc' = "failed", UNCHANGED <<conn, pod, podInf>>
    PROVE  RedisOk'
  BY DEF RedisOk, ConnOk, TodoListed, SetSoFar

\* The end of the redis ends what the round knows of it.
LEMMA RedisEnds ==
    ASSUME RedisOk, PodStops
    PROVE  RedisOk'
<1>1. ~conn' /\ podInf' # "running" /\ pc' = pc /\ todo' = todo /\ meta' = meta
  BY DEF PodStops
<1> QED BY <1>1 DEF RedisOk, ConnOk, TodoListed, SetSoFar

\* Each step keeps what the round knows of its redis: one case per action.
LEMMA RedisStep == TypeOK /\ RedisOk /\ [Next]_vars => RedisOk'
<1> SUFFICES ASSUME TypeOK, RedisOk, [Next]_vars PROVE RedisOk'
  OBVIOUS
<1>a. meta.obj \in ObjType /\ meta.obj.spec \in SpecType
  BY ObjFields, MetaFields DEF TypeOK
<1>b. /\ DOMAIN meta.obj.spec.config \subseteq Params
      /\ pod.conf \in ConfType
  BY <1>a, SpecFields DEF TypeOK, PodType
<1>1. CASE ReconcileInvalid
  BY <1>1, RoundEnds DEF ReconcileInvalid, kubeVars
<1>2. CASE ReconcileModified
  BY <1>2, NotAsked DEF ReconcileModified, kubeVars
<1>3. CASE ReconcileDo
  BY <1>3, NotAsked DEF ReconcileDo, kubeVars
<1>4. CASE UpdateSpecOk
  BY <1>4, RoundEnds DEF UpdateSpecOk, kubeVars
<1>5. CASE UpdateSpecRefused
  BY <1>5, RoundEnds DEF UpdateSpecRefused, kubeVars
<1>6. CASE UpdateStatusOk
  BY <1>6, NotAsked DEF UpdateStatusOk, kubeVars
<1>7. CASE UpdateStatusRefused
  BY <1>7, RoundEnds DEF UpdateStatusRefused, kubeVars
<1>8. CASE UpdateStatusLost
  BY <1>8, RoundEnds DEF UpdateStatusLost, kubeVars
<1>9. CASE CreateIfNotExists \/ EnsureRedisStatefulset
  <2>1. pc = "ensure" /\ Advance /\ UNCHANGED <<pod, podInf>>
    BY <1>9 DEF CreateIfNotExists, EnsureRedisStatefulset
  <2> QED BY <2>1, NotAsked DEF Advance
<1>10. CASE EnsureFailed
  BY <1>10, GivesUp DEF EnsureFailed, Goto, kubeVars
<1>11. CASE CheckRedisNumber
  BY <1>11, NotAsked DEF CheckRedisNumber, Goto, kubeVars
<1>12. CASE CheckRedisConfig
  <2>1. CASE podInf = "none"
    BY <1>12, <2>1, NotAsked DEF CheckRedisConfig, kubeVars
  <2>2. CASE podInf # "none"
    <3>1. /\ conn' = (podInf = "running") /\ pc' \in {"ready", "setConfig"}
          /\ UNCHANGED <<pod, podInf, meta>>
      BY <1>12, <2>2 DEF CheckRedisConfig, kubeVars
    <3>2. ConnOk'
      BY <3>1 DEF RedisOk, ConnOk
    <3>3. pc' = "setConfig" => todo' = DOMAIN meta.obj.spec.config
      BY <1>12, <2>2 DEF CheckRedisConfig
    <3>4. pc' = "ready" => Configured(meta.obj.spec)
      BY <1>12, <2>2, <1>a, MatchesIsConfigured DEF CheckRedisConfig
    <3>5. TodoListed'
      BY <3>1, <3>3 DEF TodoListed
    <3>6. SetSoFar'
      BY <3>1, <3>3, <3>4 DEF SetSoFar, Configured
    <3> QED BY <3>2, <3>5, <3>6 DEF RedisOk
  <2> QED BY <2>1, <2>2
<1>13. CASE CheckRedisConfigFails
  <2>1. /\ podInf = "running" /\ pc' = "setConfig" /\ todo' = DOMAIN meta.obj.spec.config
        /\ UNCHANGED <<pod, podInf, meta>>
    BY <1>13 DEF CheckRedisConfigFails, kubeVars
  <2> QED BY <2>1 DEF RedisOk, ConnOk, TodoListed, SetSoFar
<1>14. CASE GetRedisesIPsFailed
  BY <1>14, GivesUp DEF GetRedisesIPsFailed, Goto, kubeVars
<1>15. CASE SetCustomRedisConfig
  <2>1. PICK p \in todo : /\ ~RedisRefuses(p, meta.obj.spec.config[p])
                          /\ pod' = [pod EXCEPT !.conf[p] = Reported(p, meta.obj.spec.config[p])]
                          /\ todo' = todo \ {p}
    BY <1>15 DEF SetCustomRedisConfig
  <2>2. /\ pc = "setConfig" /\ conn /\ conn' /\ UNCHANGED <<podInf, meta>>
        /\ pc' = IF todo' = {} THEN "ready" ELSE "setConfig"
    BY <1>15 DEF SetCustomRedisConfig
  <2>3. p \in Params
    BY <1>b, <2>1, <2>2 DEF RedisOk, TodoListed
  <2>4. /\ pod'.up = pod.up
        /\ pod'.conf[p] = Reported(p, meta.obj.spec.config[p])
        /\ \A q \in Params \ {p} : pod'.conf[q] = pod.conf[q]
    BY <1>b, <2>1, <2>3 DEF TypeOK, PodType, ConfType
  <2>5. ConnOk' /\ TodoListed'
    BY <2>1, <2>2, <2>4 DEF RedisOk, ConnOk, TodoListed
  <2>6. SetSoFar'
    <3> SUFFICES ASSUME NEW q \in DOMAIN meta.obj.spec.config, ~(pc' = "setConfig" /\ q \in todo'),
                        ~RedisRefuses(q, meta.obj.spec.config[q])
                 PROVE  pod'.conf[q] = Reported(q, meta.obj.spec.config[q])
      BY <2>2 DEF SetSoFar
    <3>1. q \notin todo'
      BY <2>2
    <3>2. CASE q = p
      BY <2>4, <3>2
    <3>3. CASE q # p
      <4>1. q \notin todo /\ q \in Params
        BY <1>b, <2>1, <3>1, <3>3
      <4> QED BY <2>2, <2>4, <3>3, <4>1 DEF RedisOk, SetSoFar
    <3> QED BY <3>2, <3>3
  <2> QED BY <2>5, <2>6 DEF RedisOk
<1>16. CASE SetCustomRedisConfigFailed
  BY <1>16, GivesUp DEF SetCustomRedisConfigFailed, Goto, kubeVars
<1>17. CASE Requeue \/ SetFailed \/ SetReady
  <2>1. EndRound /\ UNCHANGED <<pod, podInf>>
    BY <1>17 DEF Requeue, SetFailed, SetReady, Publish, PublishOk, PublishRefused,
                 PublishLost, kubeVars
  <2> QED BY <2>1, RoundEnds
<1>18. CASE Restart
  <2>1. ~conn' /\ pc' = "idle" /\ pod' = pod /\ podInf' = IF pod.up THEN "running" ELSE "none"
    BY <1>18 DEF Restart, EndRound
  <2> QED BY <2>1 DEF RedisOk, ConnOk, TodoListed, SetSoFar
<1>19. CASE UserEdit
  <2>1. meta'.obj.spec = meta.obj.spec
    BY <1>19, <1>a, StaleFacts DEF UserEdit, CopiesBehind, TypeOK, MetaType
  <2> QED BY <1>19, <2>1, SameRound DEF UserEdit, kubeVars
<1>20. CASE Disruption \/ RollingUpdate
  BY <1>20, RedisEnds DEF Disruption, RollingUpdate
<1>21. CASE SyncCR \/ SyncObjects \/ SyncSts
  BY <1>21, SameRound DEF SyncCR, SyncObjects, SyncSts, kubeVars, roundVars
<1>22. CASE SyncPod
  <2>1. /\ UNCHANGED <<pc, todo, conn, pod, meta>>
        /\ podInf' = IF pod.up THEN "running" ELSE "none"
    BY <1>22 DEF SyncPod, roundVars
  <2> QED BY <2>1 DEF RedisOk, ConnOk, TodoListed, SetSoFar
<1>23. CASE PodStarts
  <2>1. /\ ~pod.up /\ pod'.up /\ UNCHANGED <<pc, todo, conn, podInf, meta>>
    BY <1>23 DEF PodStarts, roundVars
  <2> QED BY <2>1 DEF RedisOk, ConnOk, TodoListed, SetSoFar
<1>24. CASE UNCHANGED vars
  BY <1>24, SameRound DEF vars, roundVars, kubeVars
<1> QED
  BY <1>1, <1>2, <1>3, <1>4, <1>5, <1>6, <1>7, <1>8, <1>9, <1>10, <1>11, <1>12, <1>13,
     <1>14, <1>15, <1>16, <1>17, <1>18, <1>19, <1>20, <1>21, <1>22, <1>23, <1>24
     DEF Next, Operator, Users, Informers, Kubernetes

\* Steps that leave the server and the copies alone, within a round or at its end.
LEMMA SameCopies ==
    ASSUME CopiesOk, UNCHANGED <<api, inf, meta>>,
           \/ EndRound
           \/ rc' = rc /\ (pc' = pc \/ pc \notin {"idle", "updateSpec"})
    PROVE  CopiesOk'
<1>1. CASE EndRound
  BY <1>1 DEF CopiesOk, Agrees, EndRound, NoObj
<1>2. CASE rc' = rc /\ (pc' = pc \/ pc \notin {"idle", "updateSpec"})
  BY <1>2 DEF CopiesOk, Agrees
<1> QED BY <1>1, <1>2

\* A new version of the spec leaves every copy behind.
LEMMA NewVersion ==
    ASSUME TypeOK, CopiesOk, api' \in ApiType, api'.gen = api.gen + 1,
           inf'.obj = Stale(inf.obj), meta'.obj = Stale(meta.obj),
           EndRound \/ (rc' = Stale(rc) /\ pc' = pc)
    PROVE  CopiesOk'
<1>1. inf.obj \in ObjType /\ meta.obj \in ObjType /\ rc \in ObjType
  BY MetaFields DEF TypeOK
<1>2. /\ inf'.obj.gen = inf.obj.gen /\ ~inf'.obj.fresh
      /\ meta'.obj.gen = meta.obj.gen /\ ~meta'.obj.fresh
  BY <1>1, StaleFacts
<1>3. ~rc'.fresh /\ (pc' \notin {"idle", "updateSpec"} => rc'.gen = rc.gen /\ pc' = pc)
  BY <1>1, StaleFacts DEF EndRound, NoObj
<1>4. api.gen \in Nat /\ inf.obj.gen \in Nat /\ meta.obj.gen \in Nat
  BY <1>1, ObjFields DEF TypeOK, ApiType
<1> QED BY <1>2, <1>3, <1>4 DEF CopiesOk, Agrees

\* A status write leaves the generation and the spec; the cached object is as
\* it was and behind, or the server's answer.
LEMMA StatusWrite ==
    ASSUME TypeOK, CopiesOk, api' \in ApiType, api'.gen = api.gen, api'.spec = api.spec,
           inf'.obj = Stale(inf.obj),
           \/ /\ meta'.obj.gen = meta.obj.gen /\ meta'.obj.spec = meta.obj.spec
              /\ ~meta'.obj.fresh
           \/ meta'.obj = ServerCopy(api')
    PROVE  api'.gen > 0 /\ Agrees(inf.obj)' /\ Agrees(meta.obj)'
<1>1. inf.obj \in ObjType /\ meta.obj \in ObjType
  BY MetaFields DEF TypeOK
<1>2. inf'.obj.gen = inf.obj.gen /\ inf'.obj.spec = inf.obj.spec /\ ~inf'.obj.fresh
  BY <1>1, StaleFacts
<1>3. api.gen \in Nat
  BY DEF TypeOK, ApiType
<1> QED BY <1>2, <1>3 DEF CopiesOk, Agrees, ServerCopy

\* Each outcome of the last status write keeps the copies in order.
LEMMA PublishCopies ==
    ASSUME TypeOK, CopiesOk, NEW h \in Heads, Publish(h)
    PROVE  CopiesOk'
<1>1. EndRound
  BY DEF Publish, PublishOk, PublishRefused, PublishLost
<1>2. pc' = "idle" /\ ~rc'.fresh
  BY <1>1 DEF EndRound, NoObj
<1>3. meta.obj \in ObjType /\ meta \in MetaType /\ meta.obj.head \in Heads
  BY ObjFields, MetaFields DEF TypeOK
<1>4. CASE PublishOk(h)
  <2>1. api' \in ApiType /\ api'.gen = api.gen /\ api'.spec = api.spec
    BY <1>4, ApiHead DEF PublishOk, TypeOK
  <2>2. meta'.obj = ServerCopy(api') \/ meta'.obj = Stale(meta.obj)
    BY <1>3, <1>4 DEF PublishOk, MetaType
  <2>3. inf'.obj = Stale(inf.obj)
    BY <1>4, InfBehindType DEF PublishOk
  <2> QED BY <1>2, <1>3, <2>1, <2>2, <2>3, StaleFacts, StatusWrite DEF CopiesOk
<1>5. CASE PublishRefused(h)
  <2>1. PICK g \in Heads : meta' = [meta EXCEPT !.obj.head = g]
    BY <1>3, <1>5 DEF PublishRefused
  <2>2. meta'.obj = [meta.obj EXCEPT !.head = g]
    BY <1>3, <2>1, MetaHead DEF MetaType
  <2>3. meta'.obj.gen = meta.obj.gen /\ meta'.obj.spec = meta.obj.spec /\ meta'.obj.fresh = meta.obj.fresh
    BY <1>3, <2>2 DEF ObjType
  <2>4. UNCHANGED <<api, inf>>
    BY <1>5 DEF PublishRefused, crVars
  <2> QED BY <1>2, <2>3, <2>4 DEF CopiesOk, Agrees
<1>6. CASE PublishLost(h)
  <2>1. api' \in ApiType /\ api'.gen = api.gen /\ api'.spec = api.spec
    BY <1>6, ApiHead DEF PublishLost, TypeOK
  <2>2. PICK g \in Heads : meta' = [meta EXCEPT !.obj.head = g, !.obj.fresh = FALSE]
    BY <1>3, <1>6 DEF PublishLost
  <2>3. meta'.obj = [meta.obj EXCEPT !.head = g, !.fresh = FALSE]
    BY <1>3, <2>2, MetaHead DEF MetaType
  <2>4. meta'.obj.gen = meta.obj.gen /\ meta'.obj.spec = meta.obj.spec /\ ~meta'.obj.fresh
    BY <1>3, <2>3 DEF ObjType
  <2>5. inf'.obj = Stale(inf.obj)
    BY <1>6, InfBehindType DEF PublishLost
  <2> QED BY <1>2, <2>1, <2>4, <2>5, StatusWrite DEF CopiesOk
<1> QED BY <1>4, <1>5, <1>6 DEF Publish

\* Each step keeps the copies in order: one case per action that touches them.
LEMMA CopiesStep == TypeOK /\ CopiesOk /\ [Next]_vars => CopiesOk'
<1> SUFFICES ASSUME TypeOK, CopiesOk, [Next]_vars PROVE CopiesOk'
  OBVIOUS
<1>a. /\ inf.obj \in ObjType /\ meta \in MetaType /\ meta.obj \in ObjType
      /\ meta.status \in Heads /\ rc.spec \in SpecType /\ api.spec \in SpecType
      /\ api.gen \in Nat
  BY ObjFields, MetaFields DEF TypeOK, ApiType
<1>b. {"Creating", "Failed", "Healthy"} \subseteq Heads
  BY DEF Heads, Conditions
<1>1. CASE ReconcileInvalid
  BY <1>1, SameCopies DEF ReconcileInvalid, crVars
<1>2. CASE ReconcileModified
  <2>1. rc'.fresh = inf.obj.fresh /\ rc'.gen = inf.obj.gen
    BY <1>2, <1>a DEF ReconcileModified, ObjType
  <2> QED BY <1>2, <2>1 DEF ReconcileModified, crVars, CopiesOk, Agrees
<1>3. CASE ReconcileDo
  <2>1. meta'.obj = inf.obj \/ (meta'.obj = meta.obj /\ meta.obj.gen = inf.obj.gen)
    BY <1>3, <1>a, CacheFacts DEF ReconcileDo
  <2> QED BY <1>3, <2>1 DEF ReconcileDo, crVars, CopiesOk, Agrees
<1>4. CASE UpdateSpecOk
  <2>1. api' \in ApiType /\ api'.gen = api.gen + 1
    BY <1>4, <1>a, ApiSpec DEF UpdateSpecOk, TypeOK
  <2>2. inf'.obj = Stale(inf.obj) /\ meta'.obj = Stale(meta.obj) /\ EndRound
    BY <1>4, <1>a, InfBehindType DEF UpdateSpecOk, MetaType
  <2> QED BY <2>1, <2>2, NewVersion
<1>5. CASE UpdateSpecRefused
  BY <1>5, SameCopies DEF UpdateSpecRefused, crVars
<1>6. CASE UpdateStatusOk
  <2>1. api' \in ApiType /\ api'.gen = api.gen /\ api'.spec = api.spec
    BY <1>6, <1>a, ApiHead DEF UpdateStatusOk, TypeOK
  <2>2. inf'.obj = Stale(inf.obj) /\ meta'.obj = ServerCopy(api')
    BY <1>6, <1>a, InfBehindType DEF UpdateStatusOk, MetaType
  <2>3. api'.gen > 0 /\ Agrees(inf.obj)' /\ Agrees(meta.obj)'
    BY <2>1, <2>2, StatusWrite
  <2>4. rc.gen = api.gen /\ pc' = "ensure"
    BY <1>6 DEF UpdateStatusOk, CopiesOk, Agrees
  <2>5. rc' = ServerCopy(api') \/ rc' = Stale(rc)
    BY <1>6, <2>2 DEF UpdateStatusOk
  <2>6. rc'.gen = api'.gen /\ meta'.obj.gen = api'.gen
    BY <2>1, <2>2, <2>4, <2>5, StaleFacts DEF ServerCopy, TypeOK
  <2> QED BY <2>3, <2>6 DEF CopiesOk
<1>7. CASE UpdateStatusRefused
  <2>1. meta'.obj = [meta.obj EXCEPT !.head = meta.status]
    BY <1>7, <1>a, MetaHead DEF UpdateStatusRefused, MetaType
  <2>2. meta'.obj.gen = meta.obj.gen /\ meta'.obj.spec = meta.obj.spec /\ meta'.obj.fresh = meta.obj.fresh
    BY <1>a, <2>1 DEF ObjType
  <2>3. pc' = "idle" /\ ~rc'.fresh /\ UNCHANGED <<api, inf>>
    BY <1>7 DEF UpdateStatusRefused, EndRound, NoObj, crVars
  <2> QED BY <2>2, <2>3 DEF CopiesOk, Agrees
<1>8. CASE UpdateStatusLost
  <2>1. api' \in ApiType /\ api'.gen = api.gen /\ api'.spec = api.spec
    BY <1>8, <1>a, ApiHead DEF UpdateStatusLost, TypeOK
  <2>2. meta'.obj = [meta.obj EXCEPT !.head = meta.status, !.fresh = FALSE]
    BY <1>8, <1>a, MetaHead DEF UpdateStatusLost, MetaType
  <2>3. meta'.obj.gen = meta.obj.gen /\ meta'.obj.spec = meta.obj.spec /\ ~meta'.obj.fresh
    BY <1>a, <2>2 DEF ObjType
  <2>4. inf'.obj = Stale(inf.obj) /\ pc' = "idle" /\ ~rc'.fresh
    BY <1>8, InfBehindType DEF UpdateStatusLost, EndRound, NoObj
  <2> QED BY <2>1, <2>3, <2>4, StatusWrite DEF CopiesOk
<1>9. CASE CreateIfNotExists \/ EnsureRedisStatefulset
  BY <1>9, SameCopies DEF CreateIfNotExists, EnsureRedisStatefulset, Advance, crVars
<1>10. CASE EnsureFailed \/ CheckRedisNumber \/ GetRedisesIPsFailed \/ SetCustomRedisConfigFailed
  BY <1>10, SameCopies DEF EnsureFailed, CheckRedisNumber, GetRedisesIPsFailed,
                           SetCustomRedisConfigFailed, Goto, crVars
<1>11. CASE CheckRedisConfig \/ CheckRedisConfigFails \/ SetCustomRedisConfig
  BY <1>11, SameCopies DEF CheckRedisConfig, CheckRedisConfigFails, SetCustomRedisConfig, crVars
<1>12. CASE Requeue
  <2>1. CASE Publish("Creating")
    BY <1>b, <2>1, PublishCopies
  <2>2. CASE EndRound /\ UNCHANGED <<crVars, kubeVars, meta, budget>>
    BY <2>2, SameCopies DEF crVars
  <2> QED BY <1>12, <2>1, <2>2 DEF Requeue
<1>13. CASE SetFailed \/ SetReady
  BY <1>b, <1>13, PublishCopies DEF SetFailed, SetReady
<1>14. CASE Restart
  <2>1. /\ api' = api /\ inf'.obj = ServerCopy(api)
        /\ meta'.obj = NoObj /\ pc' = "idle" /\ rc' = NoObj
    BY <1>14 DEF Restart, EndRound, NoMeta
  <2> QED BY <1>a, <2>1 DEF CopiesOk, Agrees, ServerCopy, NoObj
<1>15. CASE UserEdit
  <2>1. api' \in ApiType /\ api'.gen = api.gen + 1
    <3>1. PICK s \in Edits(api.spec) : api' = [api EXCEPT !.gen = @ + 1, !.spec = s]
      BY <1>15 DEF UserEdit
    <3>2. s \in SpecType /\ api \in ApiType
      BY <1>a, EditsType DEF TypeOK
    <3> QED BY <3>1, <3>2, ApiSpec
  <2>2. /\ inf'.obj = Stale(inf.obj) /\ meta'.obj = Stale(meta.obj)
        /\ rc' = Stale(rc) /\ pc' = pc
    BY <1>15, <1>a, InfBehindType DEF UserEdit, CopiesBehind, MetaType
  <2> QED BY <2>1, <2>2, NewVersion
<1>16. CASE Disruption \/ RollingUpdate
  BY <1>16, SameCopies DEF Disruption, RollingUpdate, PodStops, crVars
<1>17. CASE SyncCR
  <2>1. inf'.obj = ServerCopy(api) /\ UNCHANGED <<api, meta, rc, pc>>
    BY <1>17 DEF SyncCR, roundVars
  <2> QED BY <1>a, <2>1 DEF CopiesOk, Agrees, ServerCopy
<1>18. CASE SyncObjects \/ SyncSts \/ SyncPod \/ PodStarts
  BY <1>18, SameCopies DEF SyncObjects, SyncSts, SyncPod, PodStarts, crVars, roundVars
<1>19. CASE UNCHANGED vars
  BY <1>19, SameCopies DEF vars, crVars, roundVars
<1> QED
  BY <1>1, <1>2, <1>3, <1>4, <1>5, <1>6, <1>7, <1>8, <1>9, <1>10, <1>11, <1>12, <1>13,
     <1>14, <1>15, <1>16, <1>17, <1>18, <1>19
     DEF Next, Operator, Users, Informers, Kubernetes
----------------------------------------------------------------------------
\* IInv holds at the start, and every step keeps it.
LEMMA IInvInductive == /\ Init => IInv
                       /\ IInv /\ [Next]_vars => IInv'
<1>1. Init => CopiesOk
  BY DEF Init, CopiesOk, Agrees, NoMeta, NoObj
<1>2. Init => RedisOk
  BY DEF Init, RedisOk, ConnOk, TodoListed, SetSoFar
<1>3. IInv /\ [Next]_vars => TypeOK'
  BY TypeStep DEF IInv, RedisOk
<1> QED BY <1>1, <1>2, <1>3, TypeInit, CopiesStep, RedisStep DEF IInv

\* The inductive invariant holds throughout.
LEMMA AlwaysIInv == Spec => []IInv
  BY IInvInductive, PTL DEF Spec

\* Every reachable state has the shape the code gives it.  What the redis
\* reports is typed because SetCustomRedisConfig only sets parameters of the
\* cached spec.
THEOREM TypeCorrect == Spec => []TypeOK
<1>1. IInv => TypeOK
  BY DEF IInv
<1> QED BY <1>1, AlwaysIInv, PTL

\* A verdict Healthy is about the configuration of the server's spec: rc is
\* written with its resourceVersion, so it has the server's generation; the
\* cached object has rc's, so its spec is the server's; and the redis of the
\* round has been told all of it, or matched it.
LEMMA HealthyStep ==
    ASSUME IInv, Next, pc = "ready", conn, api' # api, api'.gen = api.gen
    PROVE  Configured(api.spec)
<1>1. api.gen \in Nat /\ meta.obj.gen \in Nat
  BY MetaFields, ObjFields DEF IInv, TypeOK, ApiType
<1>2. ~UserEdit
  <2> SUFFICES ASSUME UserEdit PROVE FALSE
    OBVIOUS
  <2>1. PICK s \in Edits(api.spec) : api' = [api EXCEPT !.gen = @ + 1, !.spec = s]
    BY DEF UserEdit
  <2>2. api \in ApiType /\ s \in SpecType
    BY EditsType DEF IInv, TypeOK, ApiType
  <2>3. api'.gen = api.gen + 1
    BY <2>1, <2>2, ApiSpec
  <2> QED BY <1>1, <2>3
<1>3. SetReady
  BY <1>2 DEF Next, Operator, Users, Informers, Kubernetes,
       ReconcileInvalid, ReconcileModified, ReconcileDo, UpdateSpecOk, UpdateSpecRefused,
       UpdateStatusOk, UpdateStatusRefused, UpdateStatusLost, CreateIfNotExists,
       EnsureRedisStatefulset, EnsureFailed, CheckRedisNumber, CheckRedisConfig,
       CheckRedisConfigFails, GetRedisesIPsFailed, SetCustomRedisConfig,
       SetCustomRedisConfigFailed, Requeue, SetFailed, Restart, Disruption, SyncCR,
       SyncObjects, SyncSts, SyncPod, PodStarts, RollingUpdate, PodStops, crVars
<1>4. rc.fresh
  BY <1>3 DEF SetReady, Publish, PublishOk, PublishRefused, PublishLost, crVars
<1>5. meta.obj.spec = api.spec
  BY <1>4 DEF IInv, CopiesOk, Agrees
<1> QED BY <1>5 DEF IInv, RedisOk, SetSoFar, Configured

\* A CR turns Healthy only with the configuration of the spec the server has,
\* for every configuration, number of edits and number of faults.
THEOREM HealthyMeansConfigured == Spec => HealthyIsConfigured
<1>1. IInv /\ [Next]_vars =>
        [pc = "ready" /\ conn /\ api' # api /\ api'.gen = api.gen /\ api'.head = "Healthy"
            => Configured(api.spec)]_vars
  BY HealthyStep
<1> QED BY <1>1, AlwaysIInv, PTL DEF Spec, HealthyIsConfigured
============================================================================
