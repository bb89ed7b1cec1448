------------------------ MODULE RollingUpdateProofs ------------------------
(***************************************************************************)
(* Proofs about RollingUpdate, for every size of the cluster and every     *)
(* number of stopped pods.                                                 *)
(*                                                                         *)
(* That the data survives is not inductive: it rests on the choice of      *)
(* SetOldestAsMaster.  While fewer pods are stopped than there are, one    *)
(* from the beginning is still up.  Pods from the beginning hold the data  *)
(* and are older than all others, so the oldest redis is never one without *)
(* data, no redis is made master without it, and none replicates           *)
(* emptiness.                                                              *)
(*                                                                         *)
(* That masters hold the data also rests on the address CheckAndHeal keeps *)
(* from an earlier step: it is of the past or of a redis with the data,    *)
(* and no pod gets an address again.                                       *)
(***************************************************************************)
EXTENDS RollingUpdate, FiniteSetTheorems, TLAPS

\* From GetMasterIP on, and after SetOldestAsMaster, there is a master.
MasterKnown == pc \in {"others", "check", "setAll", "monitor", "slaves"} => master \in Address

\* The pods that were stopped: they end, or were created again.
Stopped == {r \in Ordinals : ~(pod[r] = "up" /\ born[r] = r)}

\* Each of them was paid for.
StopsCounted == Cardinality(Stopped) <= Stops - stops

\* A pod that is created is younger than those from the beginning.
BirthsGoOn == \E r \in Ordinals : born[r] >= Size - 1

\* Whoever has lived since the beginning holds the data, and nobody is empty.
OldHoldData == \A r \in Running : born[r] < Size => copy[r] = "data"
NobodyEmpty == \A r \in Ordinals : copy[r] # "empty"

DataInv == StopsCounted /\ BirthsGoOn /\ OldHoldData /\ NobodyEmpty

IInv == TypeOK /\ MasterKnown /\ DataInv

\* The address CheckAndHeal has read is of a pod that is or was there, and the
\* redis that still has it holds the data.
MasterWasBorn == master # Nobody => master[2] <= born[master[1]]
MasterHoldsData == \A r \in Running : Addr(r) = master => copy[r] = "data"

\* A redis that is started is nobody's master.
StartedAsSlave == \A r \in Ordinals : pod[r] = "gone" => link[r] = Loop

MastersInv == MastersHoldData /\ MasterWasBorn /\ MasterHoldsData /\ StartedAsSlave
----------------------------------------------------------------------------
(***************************************************************************)
(* Types.                                                                  *)
(***************************************************************************)
\* The address of a pod is one.
LEMMA AddrType ==
    ASSUME TypeOK, NEW r \in Ordinals
    PROVE  Addr(r) \in Address
  BY DEF TypeOK, Addr, Address

\* So are those of the pods that run.
LEMMA RunningAddrsType == TypeOK => RunningAddrs \subseteq Address
  BY AddrType DEF RunningAddrs, Running

\* The initial state is well typed.
LEMMA TypeInit == Init => TypeOK /\ MasterKnown
<1> SUFFICES ASSUME Init PROVE TypeOK /\ MasterKnown
  OBVIOUS
<1>1. Size \in Nat \ {0} /\ Stops \in Nat
  BY SizeAssumption
<1>2. Ordinals \subseteq Births
  BY <1>1 DEF Ordinals, Births
<1>3. \A r \in Ordinals : <<r, r>> \in Address
  BY <1>2 DEF Address
<1>4. born \in [Ordinals -> Births] /\ stops \in 0 .. Stops
  BY <1>1, <1>2 DEF Init
<1>5. link \in [Ordinals -> Address \cup {Nobody, Loop}] /\ mon \in Address /\ slaves \subseteq Address
  BY <1>3 DEF Init
<1> QED BY <1>4, <1>5 DEF Init, TypeOK, MasterKnown

\* What a round starts again with.
LEMMA EndRoundType == EndRound => /\ pc' = "idle" /\ todo' \subseteq Address
                                  /\ master' \in Address \cup {Nobody}
  BY DEF EndRound

\* The end of a pod keeps the types.
LEMMA EndType ==
    ASSUME TypeOK, NEW r \in Ordinals, End(r)
    PROVE  /\ pod' \in [Ordinals -> {"up", "ask", "failover", "gone"}]
           /\ ready' \subseteq Ordinals
           /\ link' \in [Ordinals -> Address \cup {Nobody, Loop}]
           /\ copy' \in [Ordinals -> {"fresh", "data", "empty"}]
  BY DEF TypeOK, End

\* Every step keeps the types: one case per action.
LEMMA TypeStep == TypeOK /\ MasterKnown /\ [Next]_vars => TypeOK' /\ MasterKnown'
<1> SUFFICES ASSUME TypeOK, MasterKnown, [Next]_vars PROVE TypeOK' /\ MasterKnown'
  OBVIOUS
<1> USE DEF podVars, redisVars, sentinelVars, operatorVars
<1>a. RunningAddrs \subseteq Address /\ \A r \in Ordinals : Addr(r) \in Address
  BY RunningAddrsType, AddrType
<1>b. stops \in 0 .. Stops /\ Stops \in Nat
  BY SizeAssumption DEF TypeOK
<1>1. CASE UpdateStatefulSet
  BY <1>1 DEF UpdateStatefulSet, TypeOK, MasterKnown
<1>2. CASE SyncStatefulSet
  BY <1>2 DEF SyncStatefulSet, TypeOK, MasterKnown
<1>3. CASE DiscoverSlaves
  <2>1. slaves' \subseteq Address
    BY <1>3, <1>a DEF DiscoverSlaves, TypeOK, Running
  <2> QED BY <1>3, <2>1 DEF DiscoverSlaves, TypeOK, MasterKnown
<1>4. CASE AbortFailover
  BY <1>4 DEF AbortFailover, TypeOK, MasterKnown
<1>5. ASSUME NEW r \in Ordinals, Stop(r) PROVE TypeOK' /\ MasterKnown'
  <2>1. stops' \in 0 .. Stops
    BY <1>5, <1>b DEF Stop
  <2> QED BY <1>5, <2>1 DEF Stop, TypeOK, MasterKnown
<1>6. ASSUME NEW r \in Ordinals, CreatePod(r) PROVE TypeOK' /\ MasterKnown'
  <2>1. born' \in [Ordinals -> Births]
    BY <1>6 DEF CreatePod, TypeOK
  <2>2. updated' \subseteq Ordinals
    BY <1>6 DEF CreatePod, TypeOK
  <2> QED BY <1>6, <2>1, <2>2 DEF CreatePod, TypeOK, MasterKnown
<1>7. ASSUME NEW r \in Ordinals, PodReady(r) PROVE TypeOK' /\ MasterKnown'
  BY <1>7 DEF PodReady, TypeOK, MasterKnown
<1>8. ASSUME NEW r \in Ordinals, Replicate(r) PROVE TypeOK' /\ MasterKnown'
  <2>1. link[r][1] \in Ordinals
    BY <1>8 DEF Replicate, Live, RunningAddrs, Addr, Running
  <2>2. copy' = [copy EXCEPT ![r] = copy[link[r][1]]]
    BY <1>8 DEF Replicate
  <2> QED BY <1>8, <2>1, <2>2 DEF Replicate, TypeOK, MasterKnown
<1>9. ASSUME NEW r \in Ordinals, AskMaster(r) PROVE TypeOK' /\ MasterKnown'
  <2>1. CASE End(r)
    BY <1>9, <2>1, EndType DEF AskMaster, TypeOK, MasterKnown
  <2>2. CASE pod' = [pod EXCEPT ![r] = "failover"] /\ UNCHANGED <<ready, redisVars>>
    BY <1>9, <2>2 DEF AskMaster, TypeOK, MasterKnown
  <2> QED BY <1>9, <2>1, <2>2 DEF AskMaster
<1>10. ASSUME NEW r \in Ordinals, ForceFailover(r) PROVE TypeOK' /\ MasterKnown'
  BY <1>10, EndType DEF ForceFailover, TypeOK, MasterKnown
<1>11. ASSUME NEW r \in Ordinals, Kill(r) PROVE TypeOK' /\ MasterKnown'
  BY <1>11, EndType DEF Kill, TypeOK, MasterKnown
<1>12. ASSUME NEW r \in Ordinals, Failover(r) PROVE TypeOK' /\ MasterKnown'
  BY <1>12, <1>a DEF Failover, TypeOK, MasterKnown
<1>13. ASSUME NEW r \in Ordinals, Reconfigure(r) PROVE TypeOK' /\ MasterKnown'
  BY <1>13 DEF Reconfigure, TypeOK, MasterKnown
<1>14. CASE CheckRedisNumber
  BY <1>14 DEF CheckRedisNumber, TypeOK, MasterKnown
<1>15. CASE GetNumberMasters
  BY <1>15, EndRoundType DEF GetNumberMasters, TypeOK, MasterKnown
<1>16. CASE MakeOldestMaster
  <2>1. CASE Running = {}
    BY <1>16, <2>1, EndRoundType DEF MakeOldestMaster, TypeOK, MasterKnown
  <2>2. CASE Running # {}
    <3>1. PICK r \in Ordinals :
              /\ link' = [link EXCEPT ![r] = Nobody]
              /\ copy' = [copy EXCEPT ![r] = IF @ = "fresh" THEN "empty" ELSE @]
              /\ master' = Addr(r) /\ todo' = RunningAddrs \ {Addr(r)}
              /\ pc' = "others"
      BY <1>16, <2>2 DEF MakeOldestMaster, Running
    <3>2. copy' \in [Ordinals -> {"fresh", "data", "empty"}]
      BY <3>1 DEF TypeOK
    <3> QED BY <1>16, <1>a, <3>1, <3>2 DEF MakeOldestMaster, TypeOK, MasterKnown
  <2> QED BY <2>1, <2>2
<1>17. CASE MakeSlaveOf
  BY <1>17 DEF MakeSlaveOf, TypeOK, MasterKnown, Running
<1>18. CASE GetMasterIP
  BY <1>18, <1>a, EndRoundType DEF GetMasterIP, TypeOK, MasterKnown
<1>19. CASE CheckAllSlavesFromMaster
  BY <1>19, <1>a DEF CheckAllSlavesFromMaster, TypeOK, MasterKnown
<1>20. CASE CheckSentinelMonitor
  BY <1>20 DEF CheckSentinelMonitor, TypeOK, MasterKnown
<1>21. CASE CheckSentinelSlaves
  BY <1>21, EndRoundType DEF CheckSentinelSlaves, TypeOK, MasterKnown
<1>22. CASE CallFailed
  BY <1>22, EndRoundType DEF CallFailed, TypeOK, MasterKnown
<1>23. CASE UNCHANGED vars
  BY <1>23 DEF vars, TypeOK, MasterKnown
<1> QED
  BY <1>1, <1>2, <1>3, <1>4, <1>5, <1>6, <1>7, <1>8, <1>9, <1>10, <1>11, <1>12, <1>13, <1>14,
     <1>15, <1>16, <1>17, <1>18, <1>19, <1>20, <1>21, <1>22, <1>23
     DEF Next, Operator, RollPod, Evict

\* Every reachable state is well typed; a master is known in every step that
\* tells a redis or a sentinel about it.
THEOREM TypeCorrect == Spec => []TypeOK
<1>1. Init => TypeOK /\ MasterKnown
  BY TypeInit
<1>2. TypeOK /\ MasterKnown /\ [Next]_vars => TypeOK' /\ MasterKnown'
  BY TypeStep
<1> QED BY <1>1, <1>2, PTL DEF Spec
----------------------------------------------------------------------------
(***************************************************************************)
(* Data.                                                                   *)
(***************************************************************************)
\* The ordinals are a finite set of Size elements.
LEMMA OrdinalsFinite == IsFiniteSet(Ordinals) /\ Cardinality(Ordinals) = Size
<1>1. Size \in Nat /\ Size - 1 \in Int /\ 0 \in Int /\ (Size - 1) - 0 + 1 = Size /\ 0 <= Size - 1
  BY SizeAssumption
<1> QED BY <1>1, FS_Interval DEF Ordinals

\* While fewer pods are stopped than there are, one from the beginning is up.
LEMMA SomeoneStays ==
    ASSUME TypeOK, StopsCounted, Stops < Size
    PROVE  \E r \in Ordinals : pod[r] = "up" /\ born[r] = r
<1>1. Stopped \subseteq Ordinals
  BY DEF Stopped
<1>2. Cardinality(Stopped) < Size
  <2>1. Cardinality(Stopped) \in Nat
    BY <1>1, OrdinalsFinite, FS_Subset, FS_CardinalityType
  <2> QED BY <2>1, SizeAssumption DEF StopsCounted, TypeOK
<1>3. Stopped # Ordinals
  BY <1>2, OrdinalsFinite, SizeAssumption
<1> QED BY <1>1, <1>3 DEF Stopped

\* A step that stops no pod keeps the count.
LEMMA CountKept ==
    ASSUME TypeOK, StopsCounted, Stopped' \subseteq Stopped, stops' = stops
    PROVE  StopsCounted'
<1>1. Stopped \subseteq Ordinals /\ IsFiniteSet(Stopped)
  BY OrdinalsFinite, FS_Subset DEF Stopped
<1>2. IsFiniteSet(Stopped') /\ Cardinality(Stopped') <= Cardinality(Stopped)
  BY <1>1, FS_Subset
<1>3. Cardinality(Stopped) \in Nat /\ Cardinality(Stopped') \in Nat
  BY <1>1, <1>2, FS_CardinalityType
<1>4. Stops \in Nat /\ stops \in Nat
  BY SizeAssumption DEF TypeOK
<1> QED BY <1>2, <1>3, <1>4 DEF StopsCounted
\* The initial state.
LEMMA DataInit == Init => DataInv
<1> SUFFICES ASSUME Init PROVE DataInv
  OBVIOUS
<1>1. StopsCounted
  <2>1. Stopped = {}
    BY DEF Init, Stopped
  <2>2. Cardinality(Stopped) = 0
    BY <2>1, FS_EmptySet
  <2> QED BY <2>2, SizeAssumption DEF Init, StopsCounted
<1>2. BirthsGoOn
  <2>1. Size - 1 \in Ordinals
    BY SizeAssumption DEF Ordinals
  <2>2. born[Size - 1] >= Size - 1
    BY <2>1, SizeAssumption DEF Init, Ordinals
  <2> QED BY <2>1, <2>2 DEF BirthsGoOn
<1>3. OldHoldData /\ NobodyEmpty
  BY DEF Init, OldHoldData, NobodyEmpty, Running
<1> QED BY <1>1, <1>2, <1>3 DEF DataInv

\* A step that leaves pods and copies alone.
LEMMA DataFrame ==
    ASSUME TypeOK, DataInv, UNCHANGED <<pod, born, copy, stops>>
    PROVE  DataInv'
<1>1. Stopped' = Stopped /\ Running' = Running
  BY DEF Stopped, Running
<1>2. StopsCounted'
  BY <1>1, CountKept DEF DataInv
<1> QED BY <1>1, <1>2 DEF DataInv, BirthsGoOn, OldHoldData, NobodyEmpty

\* A pod ends, or goes on in its script.
LEMMA DataEnd ==
    ASSUME TypeOK, DataInv, NEW r \in Ordinals, pod[r] # "up", UNCHANGED <<born, stops>>,
           \/ End(r)
           \/ pod[r] # "gone" /\ pod' = [pod EXCEPT ![r] = "failover"] /\ UNCHANGED copy
    PROVE  DataInv'
<1>1. pod \in [Ordinals -> {"up", "ask", "failover", "gone"}]
      /\ copy \in [Ordinals -> {"fresh", "data", "empty"}]
  BY DEF TypeOK
<1>2. \A q \in Ordinals \ {r} : pod'[q] = pod[q] /\ copy'[q] = copy[q]
  BY <1>1 DEF End
<1>3. pod'[r] # "up" /\ copy'[r] # "empty"
      /\ (pod'[r] = "gone" \/ (pod[r] # "gone" /\ copy'[r] = copy[r]))
  BY <1>1 DEF End, DataInv, NobodyEmpty
<1>4. Stopped' \subseteq Stopped
  BY <1>2 DEF Stopped
<1>5. StopsCounted'
  BY <1>4, CountKept DEF DataInv
<1>6. OldHoldData' /\ NobodyEmpty'
  BY <1>2, <1>3 DEF DataInv, OldHoldData, NobodyEmpty, Running
<1> QED BY <1>5, <1>6 DEF DataInv, BirthsGoOn

\* One more pod is stopped, and counted.
LEMMA DataStop ==
    ASSUME TypeOK, DataInv, NEW r \in Ordinals, Stop(r)
    PROVE  DataInv'
<1>1. pod \in [Ordinals -> {"up", "ask", "failover", "gone"}]
  BY DEF TypeOK
<1>2. Stopped \subseteq Ordinals /\ IsFiniteSet(Stopped) /\ Cardinality(Stopped) \in Nat
  BY OrdinalsFinite, FS_Subset, FS_CardinalityType DEF Stopped
<1>3. Stopped' = Stopped \cup {r}
  BY <1>1 DEF Stop, Stopped
<1>4. Cardinality(Stopped') <= Cardinality(Stopped) + 1
  BY <1>2, <1>3, FS_AddElement
<1>5. IsFiniteSet(Stopped') /\ Cardinality(Stopped') \in Nat
  BY <1>2, <1>3, FS_AddElement, FS_CardinalityType
<1>6. StopsCounted'
  BY <1>2, <1>4, <1>5, SizeAssumption DEF Stop, DataInv, StopsCounted, TypeOK
<1>7. Running' = Running
  BY <1>1 DEF Stop, Running
<1> QED BY <1>6, <1>7 DEF Stop, redisVars, DataInv, BirthsGoOn, OldHoldData, NobodyEmpty

\* A pod is created, younger than those from the beginning.
LEMMA DataCreate ==
    ASSUME TypeOK, DataInv, NEW r \in Ordinals, CreatePod(r)
    PROVE  DataInv'
<1>1. pod \in [Ordinals -> {"up", "ask", "failover", "gone"}] /\ born \in [Ordinals -> Births]
  BY DEF TypeOK
<1>2. PICK b \in Births : (\A q \in Ordinals : born[q] < b) /\ born' = [born EXCEPT ![r] = b]
  BY DEF CreatePod
<1>3. \A q \in Ordinals : born[q] \in Nat
  BY <1>1 DEF Births
<1>4. b \in Nat /\ b >= Size
  BY <1>2, <1>3, SizeAssumption DEF DataInv, BirthsGoOn, Births
<1>5. Stopped' \subseteq Stopped
  BY <1>1, <1>2 DEF Stopped, CreatePod
<1>6. StopsCounted'
  BY <1>5, CountKept DEF DataInv, CreatePod
<1>7. BirthsGoOn'
  BY <1>1, <1>2, <1>4, SizeAssumption DEF BirthsGoOn
<1>8. OldHoldData'
  <2> SUFFICES ASSUME NEW q \in Running', born'[q] < Size PROVE copy'[q] = "data"
    BY DEF OldHoldData
  <2>1. q \in Ordinals /\ q # r
    BY <1>1, <1>2, <1>4, SizeAssumption DEF Running
  <2>2. q \in Running /\ born[q] < Size
    BY <1>1, <1>2, <2>1 DEF Running, CreatePod
  <2> QED BY <2>2 DEF DataInv, OldHoldData, CreatePod, redisVars
<1>9. NobodyEmpty'
  BY DEF DataInv, NobodyEmpty, CreatePod, redisVars
<1> QED BY <1>6, <1>7, <1>8, <1>9 DEF DataInv
\* A redis loads what another one holds, which is not nothing.
LEMMA DataReplicate ==
    ASSUME TypeOK, DataInv, NEW r \in Ordinals, Replicate(r)
    PROVE  DataInv'
<1> DEFINE q == link[r][1]
<1>1. q \in Ordinals
  BY DEF Replicate, Live, RunningAddrs, Addr, Running
<1>2. copy[q] # "fresh" /\ copy' = [copy EXCEPT ![r] = copy[q]]
  BY DEF Replicate
<1>3. copy \in [Ordinals -> {"fresh", "data", "empty"}]
  BY DEF TypeOK
<1>4. copy[q] = "data"
  BY <1>1, <1>2, <1>3 DEF DataInv, NobodyEmpty
<1>5. UNCHANGED <<pod, born, stops>>
  BY DEF Replicate, podVars
<1>6. Stopped' = Stopped /\ Running' = Running
  BY <1>5 DEF Stopped, Running
<1>7. StopsCounted'
  BY <1>5, <1>6, CountKept DEF DataInv
<1>8. copy'[r] = "data" /\ \A p \in Ordinals \ {r} : copy'[p] = copy[p]
  BY <1>2, <1>3, <1>4
<1>9. OldHoldData' /\ NobodyEmpty'
  BY <1>5, <1>6, <1>8 DEF DataInv, OldHoldData, NobodyEmpty, Running
<1> QED BY <1>5, <1>7, <1>9 DEF DataInv, BirthsGoOn

\* SetOldestAsMaster finds a redis with the data.
LEMMA DataOldest ==
    ASSUME TypeOK, DataInv, Stops < Size, MakeOldestMaster
    PROVE  DataInv'
<1>1. UNCHANGED <<pod, born, stops>>
  BY DEF MakeOldestMaster, podVars
<1>2. PICK o \in Ordinals : pod[o] = "up" /\ born[o] = o
  BY SomeoneStays DEF DataInv
<1>3. o \in Running /\ born[o] < Size
  BY <1>2, SizeAssumption DEF Running, Ordinals
<1>4. PICK r \in Running :
          /\ \A p \in Running \ {r} : Before(r, p)
          /\ copy' = [copy EXCEPT ![r] = IF @ = "fresh" THEN "empty" ELSE @]
  BY <1>3 DEF MakeOldestMaster
<1>5. born[r] < Size
  <2>1. born[r] \in Nat /\ born[o] \in Nat
    BY <1>3 DEF TypeOK, Births, Running
  <2> QED BY <1>3, <1>4, <2>1, SizeAssumption DEF Before
<1>6. copy[r] = "data"
  BY <1>5 DEF DataInv, OldHoldData
<1>7. copy' = copy
  BY <1>4, <1>6 DEF TypeOK
<1> QED BY <1>1, <1>7, DataFrame

\* Every step: only the pods' own steps and two of the redises' matter.
LEMMA DataStep ==
    ASSUME Stops < Size
    PROVE  TypeOK /\ DataInv /\ [Next]_vars => DataInv'
<1> SUFFICES ASSUME TypeOK, DataInv, [Next]_vars PROVE DataInv'
  OBVIOUS
<1> USE DEF podVars, redisVars
<1>1. ASSUME NEW r \in Ordinals, RollPod(r) \/ Evict(r) PROVE DataInv'
  BY <1>1, DataStop DEF RollPod, Evict
<1>2. ASSUME NEW r \in Ordinals, CreatePod(r) PROVE DataInv'
  BY <1>2, DataCreate
<1>3. ASSUME NEW r \in Ordinals, Replicate(r) PROVE DataInv'
  BY <1>3, DataReplicate
<1>4. ASSUME NEW r \in Ordinals, AskMaster(r) PROVE DataInv'
  BY <1>4, DataEnd DEF AskMaster
<1>5. ASSUME NEW r \in Ordinals, ForceFailover(r) \/ Kill(r) PROVE DataInv'
  BY <1>5, DataEnd DEF ForceFailover, Kill
<1>6. CASE MakeOldestMaster
  BY <1>6, DataOldest
<1>7. ASSUME NEW r \in Ordinals, PodReady(r) \/ Failover(r) \/ Reconfigure(r) PROVE DataInv'
  BY <1>7, DataFrame DEF PodReady, Failover, Reconfigure
<1>8. CASE UpdateStatefulSet \/ SyncStatefulSet \/ DiscoverSlaves \/ AbortFailover
  BY <1>8, DataFrame DEF UpdateStatefulSet, SyncStatefulSet, DiscoverSlaves, AbortFailover
<1>9. CASE CheckRedisNumber \/ GetNumberMasters \/ MakeSlaveOf \/ GetMasterIP
  BY <1>9, DataFrame DEF CheckRedisNumber, GetNumberMasters, MakeSlaveOf, GetMasterIP
<1>10. CASE \/ CheckAllSlavesFromMaster \/ CheckSentinelMonitor
            \/ CheckSentinelSlaves \/ CallFailed
  BY <1>10, DataFrame
     DEF CheckAllSlavesFromMaster, CheckSentinelMonitor, CheckSentinelSlaves, CallFailed
<1>11. CASE UNCHANGED vars
  BY <1>11, DataFrame DEF vars
<1> QED
  BY <1>1, <1>2, <1>3, <1>4, <1>5, <1>6, <1>7, <1>8, <1>9, <1>10, <1>11 DEF Next, Operator

\* However scripts, forced and automatic failovers, the sentinels and the
\* operator's choice of the oldest redis interleave with pods that come and go:
\* a cluster of any size keeps its data while fewer pods are stopped than it has.
THEOREM DataAlwaysSurvives ==
    ASSUME Stops < Size
    PROVE  Spec => []DataSurvives
<1>1. Init => IInv
  BY TypeInit, DataInit DEF IInv
<1>2. IInv /\ [Next]_vars => IInv'
  BY TypeStep, DataStep DEF IInv
<1>3. IInv => DataSurvives
  <2> SUFFICES ASSUME IInv PROVE DataSurvives
    OBVIOUS
  <2>1. PICK r \in Ordinals : pod[r] = "up" /\ born[r] = r
    BY SomeoneStays DEF IInv, DataInv
  <2>2. r \in Running /\ born[r] < Size
    BY <2>1, SizeAssumption DEF Running, Ordinals
  <2> QED BY <2>2 DEF IInv, DataInv, OldHoldData, DataSurvives
<1> QED BY <1>1, <1>2, <1>3, PTL DEF Spec
----------------------------------------------------------------------------
(***************************************************************************)
(* Masters.                                                                *)
(***************************************************************************)
\* The initial state.
LEMMA MastersInit == Init => MastersInv
<1> SUFFICES ASSUME Init PROVE MastersInv
  OBVIOUS
<1> QED BY DEF Init, MastersInv, MastersHoldData, Masters, MasterWasBorn, MasterHoldsData,
               StartedAsSlave, Running

\* A step that leaves pods, redises and the address alone, or forgets it.
LEMMA MastersFrame ==
    ASSUME TypeOK, MastersInv, UNCHANGED <<pod, born, redisVars>>, master' \in {master, Nobody}
    PROVE  MastersInv'
<1>1. Running' = Running /\ Masters' = Masters /\ \A r \in Ordinals : Addr(r)' = Addr(r)
  BY DEF Running, Masters, Addr, redisVars
<1>2. MasterHoldsData'
  <2> SUFFICES ASSUME NEW r \in Running, Addr(r) = master' PROVE copy[r] = "data"
    BY <1>1 DEF MasterHoldsData, redisVars, Running
  <2>1. Addr(r) # Nobody
    BY AddrType, AddressAssumption DEF Running
  <2> QED BY <2>1 DEF MastersInv, MasterHoldsData
<1> QED BY <1>1, <1>2 DEF MastersInv, MastersHoldData, MasterWasBorn, StartedAsSlave, redisVars

\* A pod ends, or goes on in its script.
LEMMA MastersEnd ==
    ASSUME TypeOK, MastersInv, NEW r \in Ordinals, pod[r] # "gone", UNCHANGED <<born, master>>,
           \/ End(r)
           \/ /\ pod' \in {[pod EXCEPT ![r] = "failover"], [pod EXCEPT ![r] = "ask"]}
              /\ UNCHANGED redisVars
    PROVE  MastersInv'
<1>1. /\ pod \in [Ordinals -> {"up", "ask", "failover", "gone"}]
      /\ copy \in [Ordinals -> {"fresh", "data", "empty"}]
      /\ link \in [Ordinals -> Address \cup {Nobody, Loop}]
  BY DEF TypeOK
<1>2. \A q \in Ordinals \ {r} : pod'[q] = pod[q] /\ copy'[q] = copy[q] /\ link'[q] = link[q]
  BY <1>1 DEF End, redisVars
<1>3. \/ pod'[r] = "gone" /\ link'[r] = Loop
      \/ pod'[r] # "gone" /\ copy'[r] = copy[r] /\ link'[r] = link[r]
  BY <1>1 DEF End, redisVars
<1>4. MastersHoldData' /\ MasterHoldsData'
  BY <1>2, <1>3 DEF MastersInv, MastersHoldData, MasterHoldsData, Masters, Running, Addr
<1>5. StartedAsSlave'
  BY <1>2, <1>3 DEF MastersInv, StartedAsSlave
<1> QED BY <1>4, <1>5 DEF MastersInv, MasterWasBorn

\* A new pod has a new address, and its redis is not started as a master.
LEMMA MastersCreate ==
    ASSUME TypeOK, MastersInv, NEW r \in Ordinals, CreatePod(r)
    PROVE  MastersInv'
<1>1. /\ pod \in [Ordinals -> {"up", "ask", "failover", "gone"}]
      /\ born \in [Ordinals -> Births] /\ master \in Address \cup {Nobody}
  BY DEF TypeOK
<1>2. PICK b \in Births : (\A q \in Ordinals : born[q] < b) /\ born' = [born EXCEPT ![r] = b]
  BY DEF CreatePod
<1>3. UNCHANGED <<link, copy, master>> /\ pod[r] = "gone" /\ pod' = [pod EXCEPT ![r] = "up"]
  BY DEF CreatePod, redisVars, operatorVars
<1>4. link[r] # Nobody
  BY <1>3, AddressAssumption DEF MastersInv, StartedAsSlave
<1>5. \A q \in Ordinals \ {r} : q \in Running' => q \in Running /\ Addr(q)' = Addr(q)
  BY <1>1, <1>2, <1>3 DEF Running, Addr
<1>6. MastersHoldData'
  BY <1>3, <1>4, <1>5 DEF MastersInv, MastersHoldData, Masters, Running
<1>7. MasterWasBorn'
  <2> SUFFICES ASSUME master # Nobody PROVE master[2] <= born'[master[1]]
    BY <1>3 DEF MasterWasBorn
  <2>1. master[1] \in Ordinals /\ master[2] \in Nat /\ master[2] <= born[master[1]]
    BY <1>1 DEF MastersInv, MasterWasBorn, Address, Births
  <2>2. born[master[1]] \in Nat /\ b \in Nat /\ born[master[1]] < b
    BY <1>1, <1>2, <2>1 DEF Births
  <2> QED BY <1>1, <1>2, <2>1, <2>2
<1>8. Addr(r)' # master
  <2> SUFFICES ASSUME master = <<r, b>> PROVE FALSE
    BY <1>1, <1>2 DEF Addr
  <2>1. master[1] = r /\ master[2] = b /\ master # Nobody
    BY AddressAssumption DEF Address
  <2>2. b <= born[r] /\ born[r] < b /\ b \in Nat /\ born[r] \in Nat
    BY <1>1, <1>2, <2>1 DEF MastersInv, MasterWasBorn, Births
  <2> QED BY <2>2
<1>9. MasterHoldsData'
  BY <1>3, <1>5, <1>8 DEF MastersInv, MasterHoldsData, Running
<1>10. StartedAsSlave'
  BY <1>1, <1>3 DEF MastersInv, StartedAsSlave
<1> QED BY <1>6, <1>7, <1>9, <1>10 DEF MastersInv

\* A redis loads what another one holds, which is not nothing.
LEMMA MastersReplicate ==
    ASSUME TypeOK, DataInv, MastersInv, NEW r \in Ordinals, Replicate(r)
    PROVE  MastersInv'
<1> DEFINE q == link[r][1]
<1>1. q \in Ordinals
  BY DEF Replicate, Live, RunningAddrs, Addr, Running
<1>2. copy[q] # "fresh" /\ copy' = [copy EXCEPT ![r] = copy[q]]
  BY DEF Replicate
<1>3. copy \in [Ordinals -> {"fresh", "data", "empty"}]
  BY DEF TypeOK
<1>4. copy[q] = "data"
  BY <1>1, <1>2, <1>3 DEF DataInv, NobodyEmpty
<1>5. UNCHANGED <<pod, born, link, master>>
  BY DEF Replicate, podVars, operatorVars
<1>6. \A p \in Ordinals : copy'[p] = "data" \/ copy'[p] = copy[p]
  BY <1>2, <1>3, <1>4
<1>7. MastersHoldData' /\ MasterHoldsData'
  BY <1>5, <1>6 DEF MastersInv, MastersHoldData, MasterHoldsData, Masters, Running, Addr
<1> QED BY <1>5, <1>7 DEF MastersInv, MasterWasBorn, StartedAsSlave

\* One redis is told to follow an address, or to be master and has the data.
LEMMA MastersRelink ==
    ASSUME TypeOK, MastersInv, NEW r \in Running, NEW a \in Address \cup {Nobody},
           a = Nobody => copy[r] = "data",
           link' = [link EXCEPT ![r] = a], UNCHANGED <<pod, born, copy>>,
           \/ UNCHANGED master
           \/ a = Nobody /\ master' = Addr(r)
    PROVE  MastersInv'
<1>1. r \in Ordinals /\ pod[r] # "gone" /\ link \in [Ordinals -> Address \cup {Nobody, Loop}]
      /\ born \in [Ordinals -> Births]
  BY DEF Running, TypeOK
<1>2. link'[r] = a /\ \A q \in Ordinals \ {r} : link'[q] = link[q]
  BY <1>1
<1>3. Running' = Running /\ \A q \in Ordinals : Addr(q)' = Addr(q)
  BY DEF Running, Addr
<1>4. MastersHoldData'
  BY <1>2, <1>3 DEF MastersInv, MastersHoldData, Masters, Running
<1>5. StartedAsSlave'
  BY <1>1, <1>2 DEF MastersInv, StartedAsSlave
<1>6. CASE UNCHANGED master
  <2>1. MasterHoldsData' /\ MasterWasBorn'
    BY <1>3, <1>6 DEF MastersInv, MasterHoldsData, MasterWasBorn, Running
  <2> QED BY <1>4, <1>5, <2>1 DEF MastersInv
<1>7. CASE a = Nobody /\ master' = Addr(r)
  <2>1. MasterWasBorn'
    BY <1>1, <1>7 DEF MasterWasBorn, Addr, Births
  <2>2. MasterHoldsData'
    BY <1>3, <1>7 DEF MasterHoldsData, Running, Addr
  <2> QED BY <1>4, <1>5, <2>1, <2>2 DEF MastersInv
<1> QED BY <1>6, <1>7

\* SetOldestAsMaster finds a redis with the data.
LEMMA MastersOldest ==
    ASSUME TypeOK, DataInv, MastersInv, Stops < Size, MakeOldestMaster
    PROVE  MastersInv'
<1>1. PICK o \in Ordinals : pod[o] = "up" /\ born[o] = o
  BY SomeoneStays DEF DataInv
<1>2. o \in Running /\ born[o] < Size
  BY <1>1, SizeAssumption DEF Running, Ordinals
<1>3. PICK r \in Running :
          /\ \A p \in Running \ {r} : Before(r, p)
          /\ link' = [link EXCEPT ![r] = Nobody]
          /\ copy' = [copy EXCEPT ![r] = IF @ = "fresh" THEN "empty" ELSE @]
          /\ master' = Addr(r)
  BY <1>2 DEF MakeOldestMaster
<1>4. born[r] < Size
  <2>1. born[r] \in Nat /\ born[o] \in Nat
    BY <1>2 DEF TypeOK, Births, Running
  <2> QED BY <1>2, <1>3, <2>1, SizeAssumption DEF Before
<1>5. copy[r] = "data"
  BY <1>4 DEF DataInv, OldHoldData
<1>6. copy' = copy /\ UNCHANGED <<pod, born>>
  BY <1>3, <1>5 DEF TypeOK, MakeOldestMaster, podVars
<1> QED BY <1>3, <1>5, <1>6, MastersRelink

\* Every step.
LEMMA MastersStep ==
    ASSUME Stops < Size
    PROVE  IInv /\ MastersInv /\ [Next]_vars => MastersInv'
<1> SUFFICES ASSUME TypeOK, MasterKnown, DataInv, MastersInv, [Next]_vars PROVE MastersInv'
  BY DEF IInv
<1> USE DEF podVars, redisVars, operatorVars
<1>1. ASSUME NEW r \in Ordinals, RollPod(r) \/ Evict(r) PROVE MastersInv'
  BY <1>1, MastersEnd DEF RollPod, Evict, Stop
<1>2. ASSUME NEW r \in Ordinals, CreatePod(r) PROVE MastersInv'
  BY <1>2, MastersCreate
<1>3. ASSUME NEW r \in Ordinals, Replicate(r) PROVE MastersInv'
  BY <1>3, MastersReplicate
<1>4. ASSUME NEW r \in Ordinals, AskMaster(r) PROVE MastersInv'
  BY <1>4, MastersEnd DEF AskMaster
<1>5. ASSUME NEW r \in Ordinals, ForceFailover(r) \/ Kill(r) PROVE MastersInv'
  BY <1>5, MastersEnd DEF ForceFailover, Kill
<1>6. CASE MakeOldestMaster
  BY <1>6, MastersOldest
<1>7. ASSUME NEW r \in Ordinals, Failover(r) PROVE MastersInv'
  <2>1. r \in Running /\ copy[r] = "data"
    BY <1>7 DEF Failover, Good, DataInv, NobodyEmpty, TypeOK
  <2> QED BY <1>7, <2>1, MastersRelink DEF Failover
<1>8. ASSUME NEW r \in Ordinals, Reconfigure(r) PROVE MastersInv'
  <2>1. mon \in Address /\ mon # Nobody
    BY AddressAssumption DEF TypeOK
  <2> QED BY <1>8, <2>1, MastersRelink DEF Reconfigure
<1>9. CASE MakeSlaveOf
  <2>1. CASE UNCHANGED link
    BY <1>9, <2>1, MastersFrame DEF MakeSlaveOf
  <2>2. ASSUME NEW r \in Running,
               link' = [link EXCEPT ![r] = IF Addr(r) = master THEN Nobody ELSE master]
        PROVE  MastersInv'
    <3>1. master \in Address /\ master # Nobody
      BY <1>9, AddressAssumption DEF MakeSlaveOf, MasterKnown
    <3>2. Addr(r) = master => copy[r] = "data"
      BY DEF MastersInv, MasterHoldsData
    <3>3. UNCHANGED <<pod, born, copy, master>>
      BY <1>9 DEF MakeSlaveOf
    <3> DEFINE a == IF Addr(r) = master THEN Nobody ELSE master
    <3>4. a \in Address \cup {Nobody} /\ (a = Nobody => copy[r] = "data")
      BY <3>1, <3>2
    <3>5. link' = [link EXCEPT ![r] = a]
      BY <2>2
    <3> HIDE DEF a
    <3> QED BY <3>3, <3>4, <3>5, MastersRelink
  <2> QED BY <1>9, <2>1, <2>2 DEF MakeSlaveOf
<1>10. CASE GetMasterIP
  <2>1. CASE EndRound
    BY <1>10, <2>1, MastersFrame DEF GetMasterIP, EndRound
  <2>2. ASSUME NEW r \in Ordinals, Masters = {r}, master' = Addr(r) PROVE MastersInv'
    <3>1. r \in Running /\ copy[r] = "data" /\ link[r] = Nobody
      BY <2>2 DEF MastersInv, MastersHoldData, Masters
    <3>2. link' = [link EXCEPT ![r] = Nobody] /\ UNCHANGED <<pod, born, copy>>
      BY <1>10, <3>1 DEF GetMasterIP, TypeOK
    <3> QED BY <2>2, <3>1, <3>2, MastersRelink
  <2> QED BY <1>10, <2>1, <2>2 DEF GetMasterIP
<1>11. ASSUME NEW r \in Ordinals, PodReady(r) PROVE MastersInv'
  BY <1>11, MastersFrame DEF PodReady
<1>12. CASE UpdateStatefulSet \/ SyncStatefulSet \/ DiscoverSlaves \/ AbortFailover
  BY <1>12, MastersFrame DEF UpdateStatefulSet, SyncStatefulSet, DiscoverSlaves, AbortFailover
<1>13. CASE CheckRedisNumber \/ GetNumberMasters \/ CheckAllSlavesFromMaster
  BY <1>13, MastersFrame DEF CheckRedisNumber, GetNumberMasters, CheckAllSlavesFromMaster, EndRound
<1>14. CASE CheckSentinelMonitor \/ CheckSentinelSlaves \/ CallFailed
  BY <1>14, MastersFrame DEF CheckSentinelMonitor, CheckSentinelSlaves, CallFailed, EndRound
<1>15. CASE UNCHANGED vars
  BY <1>15, MastersFrame DEF vars
<1> QED
  BY <1>1, <1>2, <1>3, <1>4, <1>5, <1>6, <1>7, <1>8, <1>9, <1>10, <1>11, <1>12, <1>13, <1>14,
     <1>15 DEF Next, Operator

\* While fewer pods are stopped than the cluster has, neither the sentinels nor
\* SetOldestAsMaster nor SetMasterOnAll, with an address of a pod that may have
\* been replaced since, ever leaves a redis without the data as a master.
THEOREM MastersAlwaysHoldData ==
    ASSUME Stops < Size
    PROVE  Spec => []MastersHoldData
<1>1. Init => IInv /\ MastersInv
  BY TypeInit, DataInit, MastersInit DEF IInv
<1>2. IInv /\ MastersInv /\ [Next]_vars => IInv' /\ MastersInv'
  BY TypeStep, DataStep, MastersStep DEF IInv
<1>3. MastersInv => MastersHoldData
  BY DEF MastersInv
<1> QED BY <1>1, <1>2, <1>3, PTL DEF Spec
============================================================================
