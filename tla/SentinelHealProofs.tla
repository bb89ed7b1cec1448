------------------------- MODULE SentinelHealProofs -------------------------
(***************************************************************************)
(* Proofs about SentinelHeal, for every set of redises and sentinels and   *)
(* every number of disturbances.                                           *)
(*                                                                         *)
(* What a round of CheckAndHeal has established depends on the loop it is  *)
(* in and on the nodes this loop has visited.  RoundInv says it loop by    *)
(* loop for rounds nobody disturbed; a disturbed round promises nothing    *)
(* until it chooses a new master or the next one starts.  CountedInv says  *)
(* what the round knows about the masters as long as the sentinels promote *)
(* none, whatever else happens.                                            *)
(***************************************************************************)
EXTENDS SentinelHeal, FiniteSetTheorems, TLAPS

\* The loops that look for masters have found redises, and finitely many.
FoundOk ==
    /\ IsFiniteSet(found)
    /\ pc \in {"count", "find"} => found \subseteq RedisAddress

\* The running loop has been at this pod.
Visited(p) == Addr(p) \notin todo

\* The masters found are those of the redises visited.
FoundMasters == found = AddrsOf({r \in Masters : Visited(r)})

\* The local variable master is the address of the only master.
MasterIs(m) == master = Addr(m) /\ Masters = {m}

Follows(r, m) == r = m \/ link[r] = Addr(m)

\* The running loop has listed r, and r has been replaced since: it cannot end well.
Lost(r) == \E a \in todo : a[1] = r

\* SetOldestAsMaster has listed all redises.
AllListed == pc = "oldest" => \A r \in Redises : \E a \in todo : a[1] = r

\* Redises are only told to follow a master that is known.
MasterKnown == pc \in {"others", "check", "setAll"} => master \in RedisAddress

\* What an undisturbed round has established when it is in the loop pc.
RoundInv ==
    /\ pc = "count" => FoundMasters
    /\ pc = "others" =>
           /\ master \notin todo
           /\ \E m \in Redises : /\ master = Addr(m) /\ link[m] = Nobody
                                 /\ \A r \in Redises : Visited(r) => Follows(r, m) \/ Lost(r)
    /\ pc = "find" => FoundMasters /\ \E m \in Redises : Masters = {m}
    /\ pc \in {"check", "setAll"} =>
           \E m \in Redises : MasterIs(m) /\ \A r \in Redises : Visited(r) => Follows(r, m)
    /\ pc = "monitor" =>
           \E m \in Redises : /\ MasterIs(m) /\ \A r \in Redises : Follows(r, m)
                              /\ \A s \in Sentinels : Visited(s) => mon[s] = Addr(m)
    /\ pc \in {"slaves", "wait", "peers", "done"} =>
           \E m \in Redises : /\ MasterIs(m) /\ \A r \in Redises : Follows(r, m)
                              /\ \A s \in Sentinels : mon[s] = Addr(m)

\* What a round knows about the masters when nobody was promoted in it: it has
\* found those that it has visited, and there is none but the one it has chosen.
CountedInv ==
    /\ pc \in {"count", "find"} => \A r \in Masters : Visited(r) => Addr(r) \in found
    /\ pc = "oldest" => Masters = {}
    /\ pc \in {"others", "check", "setAll"} => \A r \in Masters : Addr(r) = master

IInv ==
    /\ TypeOK /\ FoundOk /\ AllListed /\ MasterKnown
    /\ quiet => RoundInv
    /\ ~promoted => CountedInv
----------------------------------------------------------------------------
(***************************************************************************)
(* Addresses.                                                              *)
(***************************************************************************)
\* The addresses of redises and sentinels.
LEMMA AddrType ==
    ASSUME TypeOK
    PROVE  /\ \A p \in Pods : Addr(p) \in Address
           /\ \A r \in Redises : Addr(r) \in RedisAddress
           /\ \A s \in Sentinels : Addr(s) \in SentinelAddress
           /\ AddrsOf(Redises) \subseteq Address /\ AddrsOf(Sentinels) \subseteq Address
  BY DEF TypeOK, Addr, AddrsOf, Address, RedisAddress, SentinelAddress, Pods

\* Both kinds are addresses, and neither Nobody nor Loop is one.
LEMMA AddressKinds ==
    /\ RedisAddress \subseteq Address /\ SentinelAddress \subseteq Address
    /\ Nobody \notin RedisAddress /\ Loop \notin RedisAddress
  BY AddressAssumption DEF RedisAddress, SentinelAddress, Address, Pods

\* Different pods have different addresses.
LEMMA AddrInjective == \A p, q : Addr(p) = Addr(q) => p = q
  BY DEF Addr

\* The initial state is well typed.
LEMMA TypeInit == Init => TypeOK /\ FoundOk
<1> SUFFICES ASSUME Init PROVE TypeOK /\ FoundOk
  OBVIOUS
<1>1. born \in [Pods -> 0 .. Disturbances] /\ budget \in 0 .. Disturbances
  BY SettingAssumption DEF Init
<1>2. \A p \in Pods : Addr(p) = <<p, 0>> /\ 0 \in 0 .. Disturbances
  BY SettingAssumption DEF Init, Addr
<1>3. peers \in [Sentinels -> SUBSET SentinelAddress]
  BY <1>2 DEF Init, SentinelAddress, Pods
<1>4. todo \subseteq Address
  BY <1>2 DEF Init, AddrsOf, Address, Pods
<1>5. slaves \in [Sentinels -> SUBSET RedisAddress]
  BY DEF Init
<1>6. FoundOk
  BY FS_EmptySet DEF Init, FoundOk
<1> QED BY <1>1, <1>3, <1>4, <1>5, <1>6 DEF Init, TypeOK, Steps
----------------------------------------------------------------------------
(***************************************************************************)
(* Types.                                                                  *)
(***************************************************************************)
Typed == TypeOK /\ FoundOk

\* A loop over the pods of one kind is well typed, and has found nothing.
LEMMA GotoType ==
    ASSUME TypeOK, NEW step \in Steps, NEW addrs \in SUBSET Address, Goto(step, addrs)
    PROVE  pc' \in Steps /\ todo' \subseteq Address /\ found' \subseteq Address /\ FoundOk'
  BY FS_EmptySet DEF Goto, FoundOk

\* So is a new round.
LEMMA NewRoundType ==
    ASSUME TypeOK, NewRound
    PROVE  /\ pc' \in Steps /\ todo' \subseteq Address /\ found' \subseteq Address /\ FoundOk'
           /\ master' \in RedisAddress \cup {Nobody} /\ quiet' \in BOOLEAN /\ promoted' \in BOOLEAN
<1>1. "count" \in Steps /\ AddrsOf(Redises) \in SUBSET Address
  BY AddrType DEF Steps
<1> QED BY <1>1, GotoType DEF NewRound

\* A step that goes on with its loop.
LEMMA SameLoop ==
    ASSUME Typed, UNCHANGED <<pc, found>>
    PROVE  FoundOk' /\ pc' \in Steps /\ found' \subseteq Address
  BY DEF Typed, FoundOk, TypeOK, RedisAddress

\* A call that is made, or fails, leaves a budget.
LEMMA BudgetType ==
    ASSUME TypeOK, UNCHANGED budget \/ (budget > 0 /\ budget' = budget - 1)
    PROVE  budget' \in 0 .. Disturbances
  BY SettingAssumption DEF TypeOK

\* A reset sentinel.
LEMMA ResetType ==
    ASSUME TypeOK, NEW s \in Sentinels, ResetSentinel(s)
    PROVE  /\ slaves' \in [Sentinels -> SUBSET RedisAddress]
           /\ peers' \in [Sentinels -> SUBSET SentinelAddress]
<1>1. {Addr(s)} \in SUBSET SentinelAddress
  BY AddrType
<1> QED BY <1>1 DEF TypeOK, ResetSentinel

\* A sentinel that is told about the master.
LEMMA MonitorType ==
    ASSUME TypeOK, NEW s \in Sentinels, MonitorRedis(s)
    PROVE  /\ mon' \in [Sentinels -> RedisAddress \cup {Nobody, Loop}]
           /\ auth' \subseteq Sentinels
           /\ slaves' \in [Sentinels -> SUBSET RedisAddress]
           /\ peers' \in [Sentinels -> SUBSET SentinelAddress]
  BY ResetType DEF TypeOK, MonitorRedis

\* A restarted pod.
LEMMA RebornType ==
    ASSUME TypeOK, NEW p \in Pods, Disturb, Reborn(p)
    PROVE  /\ born' \in [Pods -> 0 .. Disturbances] /\ born'[p] \in 0 .. Disturbances
           /\ budget' \in 0 .. Disturbances
<1>1. 1 + Disturbances - budget \in 0 .. Disturbances /\ budget' \in 0 .. Disturbances
  BY SettingAssumption DEF TypeOK, Disturb
<1> QED BY <1>1 DEF TypeOK, Reborn

\* Sentinels that promote a redis had the address of another one.
LEMMA FailoverType ==
    ASSUME TypeOK, NEW r \in Redises, NEW a \in Address, Failover(a, r)
    PROVE  /\ link' \in [Redises -> RedisAddress \cup {Nobody, Loop}]
           /\ mon' \in [Sentinels -> RedisAddress \cup {Nobody, Loop}]
           /\ slaves' \in [Sentinels -> SUBSET RedisAddress]
<1>1. Addr(r) \in RedisAddress
  BY AddrType
<1>2. \A s \in Sentinels : mon[s] = a => a \in RedisAddress
  BY AddressAssumption DEF TypeOK
<1> QED BY <1>1, <1>2 DEF TypeOK, Failover
\* Every step keeps the types: one case per action.
LEMMA TypeStep == Typed /\ [Next]_vars => Typed'
<1> SUFFICES ASSUME Typed, [Next]_vars PROVE Typed'
  OBVIOUS
<1> USE DEF nodeVars, sentinelVars, localVars, historyVars
<1>a. TypeOK /\ FoundOk
  BY DEF Typed
<1>b. /\ AddrsOf(Redises) \in SUBSET Address /\ AddrsOf(Sentinels) \in SUBSET Address
      /\ {} \in SUBSET Address /\ todo \in SUBSET Address
      /\ \A r \in Redises : Addr(r) \in RedisAddress
      /\ \A s \in Sentinels : Addr(s) \in SentinelAddress /\ Addr(s) \in Address
  BY <1>a, AddrType DEF TypeOK, Pods
<1>c. {"find", "oldest", "check", "setAll", "monitor", "slaves", "wait", "peers", "done", "others"}
          \subseteq Steps
  BY DEF Steps
<1>1. CASE IsMaster
  <2>1. PICK r \in Redises : found' = found \/ found' = found \cup {Addr(r)}
    BY <1>1 DEF IsMaster
  <2>2. found' \subseteq Address /\ IsFiniteSet(found')
    <3>1. Addr(r) \in Address
      BY <1>b, AddressKinds
    <3> QED BY <1>a, <2>1, <3>1, FS_AddElement DEF FoundOk, TypeOK
  <2>3. FoundOk'
    <3>1. pc' = pc /\ Addr(r) \in RedisAddress
      BY <1>1, <1>b DEF IsMaster
    <3> QED BY <1>a, <2>1, <2>2, <3>1 DEF FoundOk
  <2> QED BY <1>1, <1>a, <2>2, <2>3 DEF IsMaster, Reach, TypeOK, Typed
<1>2. CASE GetNumberMasters
  <2>1. CASE NewRound
    BY <1>2, <1>a, <2>1, NewRoundType DEF GetNumberMasters, TypeOK, Typed
  <2>2. CASE Goto("oldest", AddrsOf(Redises)) /\ UNCHANGED <<master, historyVars>>
    BY <1>2, <1>a, <1>b, <1>c, <2>2, GotoType DEF GetNumberMasters, TypeOK, Typed
  <2>3. CASE Goto("find", AddrsOf(Redises)) /\ UNCHANGED <<master, historyVars>>
    BY <1>2, <1>a, <1>b, <1>c, <2>3, GotoType DEF GetNumberMasters, TypeOK, Typed
  <2> QED BY <1>2, <2>1, <2>2, <2>3 DEF GetNumberMasters
<1>3. CASE GetMasterIP
  <2>1. CASE NewRound
    BY <1>3, <1>a, <2>1, NewRoundType DEF GetMasterIP, TypeOK, Typed
  <2>2. CASE master' \in found /\ Goto("check", AddrsOf(Redises)) /\ UNCHANGED historyVars
    <3>1. master' \in RedisAddress
      BY <1>3, <1>a, <2>2 DEF GetMasterIP, FoundOk
    <3> QED BY <1>3, <1>a, <1>b, <1>c, <2>2, <3>1, GotoType DEF GetMasterIP, TypeOK, Typed
  <2> QED BY <1>3, <2>1, <2>2 DEF GetMasterIP
<1>4. CASE MakeOldestMaster
  BY <1>4, <1>a, <1>b, <1>c DEF MakeOldestMaster, Reach, TypeOK, Typed, FoundOk
<1>5. CASE MakeOthersSlaves
  <2>1. CASE todo = {} /\ Goto("find", AddrsOf(Redises)) /\ UNCHANGED link
    BY <1>5, <1>a, <1>b, <1>c, <2>1, GotoType DEF MakeOthersSlaves, TypeOK, Typed
  <2>2. CASE /\ \E r \in Redises : Reach(r) /\ link' = [link EXCEPT ![r] = master]
             /\ UNCHANGED <<pc, found>>
    BY <1>5, <1>a, <2>2, SameLoop DEF MakeOthersSlaves, Reach, TypeOK, Typed
  <2> QED BY <1>5, <2>1, <2>2 DEF MakeOthersSlaves
<1>6. CASE CheckAllSlavesFromMaster
  <2>1. CASE Goto("monitor", AddrsOf(Sentinels)) /\ UNCHANGED budget
    BY <1>6, <1>a, <1>b, <1>c, <2>1, GotoType DEF CheckAllSlavesFromMaster, TypeOK, Typed
  <2>2. CASE (\E r \in Redises : Reach(r)) /\ UNCHANGED <<pc, found, budget>>
    BY <1>6, <1>a, <2>2, SameLoop DEF CheckAllSlavesFromMaster, Reach, TypeOK, Typed
  <2>3. CASE Goto("setAll", AddrsOf(Redises)) /\ (UNCHANGED budget \/ Fails)
    <3>1. budget' \in 0 .. Disturbances
      BY <1>a, <2>3, BudgetType DEF Fails
    <3> QED BY <1>6, <1>a, <1>b, <1>c, <2>3, <3>1, GotoType
            DEF CheckAllSlavesFromMaster, TypeOK, Typed
  <2> QED BY <1>6, <2>1, <2>2, <2>3 DEF CheckAllSlavesFromMaster
<1>7. CASE SetMasterOnAll
  <2>1. CASE todo = {} /\ Goto("monitor", AddrsOf(Sentinels)) /\ UNCHANGED link
    BY <1>7, <1>a, <1>b, <1>c, <2>1, GotoType DEF SetMasterOnAll, TypeOK, Typed
  <2>2. CASE /\ \E r \in Redises :
                    /\ Reach(r)
                    /\ link' = [link EXCEPT ![r] = IF Addr(r) = master THEN Nobody ELSE master]
             /\ UNCHANGED <<pc, found>>
    BY <1>7, <1>a, <2>2, SameLoop DEF SetMasterOnAll, Reach, TypeOK, Typed
  <2> QED BY <1>7, <2>1, <2>2 DEF SetMasterOnAll
<1>8. CASE CheckSentinelMonitor
  <2>1. CASE Goto("slaves", AddrsOf(Sentinels)) /\ UNCHANGED <<sentinelVars, budget>>
    BY <1>8, <1>a, <1>b, <1>c, <2>1, GotoType DEF CheckSentinelMonitor, TypeOK, Typed
  <2>2. ASSUME NEW s \in Sentinels, Reach(s), UNCHANGED <<pc, found>>,
               \/ UNCHANGED <<sentinelVars, budget>>
               \/ /\ MonitorRedis(s)
                  /\ UNCHANGED budget \/ (budget > 0 /\ budget' = budget - 1)
        PROVE  Typed'
    <3>1. /\ mon' \in [Sentinels -> RedisAddress \cup {Nobody, Loop}]
          /\ auth' \subseteq Sentinels
          /\ slaves' \in [Sentinels -> SUBSET RedisAddress]
          /\ peers' \in [Sentinels -> SUBSET SentinelAddress]
      BY <1>a, <2>2, MonitorType DEF TypeOK
    <3>2. budget' \in 0 .. Disturbances
      BY <1>a, <2>2, BudgetType
    <3> QED BY <1>8, <1>a, <2>2, <3>1, <3>2, SameLoop DEF CheckSentinelMonitor, Reach, TypeOK, Typed
  <2> QED BY <1>8, <2>1, <2>2 DEF CheckSentinelMonitor
<1>9. CASE MonitorRedisFails
  <2>1. PICK s \in Sentinels :
            /\ mon' = [mon EXCEPT ![s] = Nobody] \/ mon' = [mon EXCEPT ![s] = master]
            /\ auth' = auth \ {s} /\ ResetSentinel(s)
    BY <1>9 DEF MonitorRedisFails
  <2>2. mon' \in [Sentinels -> RedisAddress \cup {Nobody, Loop}] /\ auth' \subseteq Sentinels
    BY <1>a, <2>1 DEF TypeOK
  <2>3. budget' \in 0 .. Disturbances
    BY <1>9, <1>a, BudgetType DEF MonitorRedisFails
  <2> QED BY <1>9, <1>a, <2>1, <2>2, <2>3, ResetType, NewRoundType
          DEF MonitorRedisFails, TypeOK, Typed
<1>10. CASE CheckSentinelSlaves
  <2>1. CASE Goto("peers", AddrsOf(Sentinels)) /\ UNCHANGED <<sentinelVars, budget>>
    BY <1>10, <1>a, <1>b, <1>c, <2>1, GotoType DEF CheckSentinelSlaves, TypeOK, Typed
  <2>2. ASSUME NEW s \in Sentinels, Reach(s), UNCHANGED <<sentinelVars, pc, found, budget>>
        PROVE  Typed'
    BY <1>10, <1>a, <2>2, SameLoop DEF CheckSentinelSlaves, Reach, TypeOK, Typed
  <2>3. ASSUME NEW s \in Sentinels, Reach(s), ResetSentinel(s), pc' = "wait",
               found' = {Addr(s)}, UNCHANGED <<mon, auth>>,
               UNCHANGED budget \/ (budget > 0 /\ budget' = budget - 1)
        PROVE  Typed'
    <3>1. budget' \in 0 .. Disturbances
      BY <1>a, <2>3, BudgetType
    <3>2. FoundOk'
      BY <2>3, FS_Singleton DEF FoundOk
    <3> QED BY <1>10, <1>a, <1>b, <1>c, <2>3, <3>1, <3>2, ResetType
            DEF CheckSentinelSlaves, Reach, TypeOK, Typed
  <2> QED BY <1>10, <2>1, <2>2, <2>3 DEF CheckSentinelSlaves
<1>11. CASE WaitRestoreOk
  BY <1>11, <1>a, <1>b, <1>c, GotoType DEF WaitRestoreOk, TypeOK, Typed
<1>12. CASE WaitRestoreTimeout
  BY <1>12, <1>a, NewRoundType DEF WaitRestoreTimeout, TypeOK, Typed
<1>13. CASE CheckSentinelPeers
  <2>1. CASE Goto("done", {}) /\ UNCHANGED <<sentinelVars, budget>>
    BY <1>13, <1>a, <1>b, <1>c, <2>1, GotoType DEF CheckSentinelPeers, TypeOK, Typed
  <2>2. ASSUME NEW s \in Sentinels, Reach(s), UNCHANGED <<pc, found, mon, auth>>,
               ResetSentinel(s) \/ UNCHANGED <<slaves, peers>>,
               UNCHANGED budget \/ (budget > 0 /\ budget' = budget - 1)
        PROVE  Typed'
    <3>1. budget' \in 0 .. Disturbances
      BY <1>a, <2>2, BudgetType
    <3>2. /\ slaves' \in [Sentinels -> SUBSET RedisAddress]
          /\ peers' \in [Sentinels -> SUBSET SentinelAddress]
      BY <1>a, <2>2, ResetType DEF TypeOK
    <3> QED BY <1>13, <1>a, <2>2, <3>1, <3>2, SameLoop DEF CheckSentinelPeers, Reach, TypeOK, Typed
  <2> QED BY <1>13, <2>1, <2>2 DEF CheckSentinelPeers
<1>14. CASE RoundOk
  BY <1>14, <1>a, NewRoundType DEF RoundOk, TypeOK, Typed
<1>15. CASE CallFailed
  <2>1. budget' \in 0 .. Disturbances
    BY <1>15, <1>a, BudgetType DEF CallFailed, Fails
  <2> QED BY <1>15, <1>a, <2>1, NewRoundType DEF CallFailed, TypeOK, Typed
<1>16. ASSUME NEW s \in Sentinels, DiscoverSlaves(s) PROVE Typed'
  <2>1. slaves' \in [Sentinels -> SUBSET RedisAddress]
    BY <1>16, <1>a, <1>b DEF DiscoverSlaves, AddrsOf, TypeOK
  <2> QED BY <1>16, <1>a, <2>1 DEF DiscoverSlaves, TypeOK, FoundOk, Typed
<1>17. ASSUME NEW s \in Sentinels, DiscoverPeers(s) PROVE Typed'
  <2>1. peers' \in [Sentinels -> SUBSET SentinelAddress]
    BY <1>17, <1>a, <1>b DEF DiscoverPeers, AddrsOf, TypeOK
  <2> QED BY <1>17, <1>a, <2>1 DEF DiscoverPeers, TypeOK, FoundOk, Typed
<1>18. ASSUME NEW s \in Sentinels, RestartSentinel(s) PROVE Typed'
  <2>1. /\ born' \in [Pods -> 0 .. Disturbances] /\ born'[s] \in 0 .. Disturbances
        /\ budget' \in 0 .. Disturbances /\ quiet' \in BOOLEAN
    BY <1>18, <1>a, RebornType DEF RestartSentinel, Pods, Disturb
  <2>2. peers' \in [Sentinels -> SUBSET SentinelAddress]
    BY <1>18, <1>a, <2>1 DEF RestartSentinel, TypeOK, SentinelAddress
  <2> QED BY <1>18, <1>a, <2>1, <2>2 DEF RestartSentinel, TypeOK, FoundOk, Typed
<1>19. ASSUME NEW r \in Redises, RestartRedis(r) PROVE Typed'
  <2>1. /\ born' \in [Pods -> 0 .. Disturbances]
        /\ budget' \in 0 .. Disturbances /\ quiet' \in BOOLEAN
    BY <1>19, <1>a, RebornType DEF RestartRedis, Pods, Disturb
  <2> QED BY <1>19, <1>a, <2>1 DEF RestartRedis, TypeOK, FoundOk, Typed
<1>20. ASSUME NEW r \in Redises, NEW a \in Address, Failover(a, r) PROVE Typed'
  <2>1. UNCHANGED <<born, auth, peers, localVars, budget>> /\ quiet' \in BOOLEAN /\ promoted' \in BOOLEAN
    BY <1>20 DEF Failover
  <2> QED BY <1>20, <1>a, <2>1, FailoverType DEF TypeOK, FoundOk, Typed
<1>21. CASE UNCHANGED vars
  BY <1>21, <1>a DEF vars, TypeOK, FoundOk, Typed
<1> QED
  BY <1>1, <1>2, <1>3, <1>4, <1>5, <1>6, <1>7, <1>8, <1>9, <1>10, <1>11, <1>12, <1>13,
     <1>14, <1>15, <1>16, <1>17, <1>18, <1>19, <1>20, <1>21 DEF Next, Operator, Nodes

\* Every reachable state is well typed: no loop takes a sentinel for a redis,
\* and no redis follows and no sentinel monitors what is not a redis.
THEOREM TypeCorrect == Spec => []TypeOK
<1>1. Init => Typed
  BY TypeInit DEF Typed
<1>2. Typed /\ [Next]_vars => Typed'
  BY TypeStep
<1>3. Typed => TypeOK
  BY DEF Typed
<1> QED BY <1>1, <1>2, <1>3, PTL DEF Spec
----------------------------------------------------------------------------
(***************************************************************************)
(* Undisturbed rounds.                                                     *)
(***************************************************************************)
\* A new round has found nothing and visited nobody.
LEMMA RoundStart ==
    ASSUME NewRound, UNCHANGED born
    PROVE  RoundInv'
<1>1. pc' = "count" /\ found' = {} /\ \A r \in Redises : Addr(r)' \in todo'
  BY DEF NewRound, Goto, AddrsOf, Addr
<1>2. FoundMasters'
  BY <1>1 DEF FoundMasters, AddrsOf, Masters, Visited
<1> QED BY <1>1, <1>2 DEF RoundInv

\* A step that changes nothing the round has looked at.
LEMMA RoundFrame ==
    ASSUME RoundInv, UNCHANGED <<born, link, mon, localVars>>
    PROVE  RoundInv'
  BY DEF RoundInv, FoundMasters, MasterIs, Follows, Visited, Lost, Masters, AddrsOf, Addr, localVars

\* Reaching a pod visits it, and no other one.
LEMMA ReachVisits ==
    ASSUME NEW p, Reach(p), UNCHANGED born
    PROVE  /\ Visited(p)' /\ ~Visited(p)
           /\ \A q : q # p => (Visited(q)' <=> Visited(q))
           /\ \A q : Addr(q)' = Addr(q)
  BY DEF Reach, Visited, Addr

\* With nobody left to visit, the masters found are all masters.
LEMMA AllFound ==
    ASSUME FoundMasters, todo = {}
    PROVE  found = AddrsOf(Masters)
  BY DEF FoundMasters, Visited, AddrsOf

\* GetNumberMasters and GetMasterIP look at one more redis.
LEMMA RoundIsMaster ==
    ASSUME RoundInv, IsMaster
    PROVE  RoundInv'
<1>1. UNCHANGED <<born, link, mon, pc, master>>
  BY DEF IsMaster, nodeVars
<1>2. PICK r \in Redises :
          Reach(r) /\ found' = IF link[r] = Nobody THEN found \cup {Addr(r)} ELSE found
  BY DEF IsMaster
<1>3. Masters' = Masters
  BY <1>1 DEF Masters
<1>4. FoundMasters
  BY DEF IsMaster, RoundInv
<1>5. {q \in Masters : Visited(q)'} =
          IF link[r] = Nobody THEN {q \in Masters : Visited(q)} \cup {r}
          ELSE {q \in Masters : Visited(q)}
  BY <1>1, <1>2, ReachVisits DEF Masters
<1>6. FoundMasters'
  BY <1>1, <1>2, <1>3, <1>4, <1>5, ReachVisits DEF FoundMasters, AddrsOf
<1> QED BY <1>1, <1>3, <1>6 DEF IsMaster, RoundInv

\* The count decides what the round does next.
LEMMA RoundCount ==
    ASSUME FoundOk, RoundInv, GetNumberMasters
    PROVE  RoundInv'
<1>1. UNCHANGED <<born, link, mon>>
  BY DEF GetNumberMasters, nodeVars
<1>2. Masters' = Masters /\ found = AddrsOf(Masters) /\ IsFiniteSet(found)
  BY <1>1, AllFound DEF Masters, GetNumberMasters, RoundInv, FoundOk
<1>3. CASE NewRound
  BY <1>1, <1>3, RoundStart
<1>4. CASE Goto("oldest", AddrsOf(Redises))
  BY <1>4 DEF Goto, RoundInv
<1>5. CASE Cardinality(found) = 1 /\ Goto("find", AddrsOf(Redises))
  <2>1. PICK a : found = {a}
    BY <1>2, <1>5, FS_Singleton
  <2>2. PICK m \in Redises : m \in Masters /\ a = Addr(m)
    BY <1>2, <2>1 DEF AddrsOf, Masters
  <2>3. Masters = {m}
    BY <1>2, <2>1, <2>2, AddrInjective DEF AddrsOf
  <2>4. \A r \in Redises : ~Visited(r)'
    BY <1>1, <1>5 DEF Goto, Visited, AddrsOf, Addr
  <2>5. FoundMasters'
    BY <1>5, <2>4 DEF Goto, FoundMasters, AddrsOf, Masters
  <2> QED BY <1>2, <1>5, <2>3, <2>5 DEF Goto, RoundInv
<1> QED BY <1>3, <1>4, <1>5 DEF GetNumberMasters

\* The address GetMasterIP returns is that of the only master.
LEMMA RoundFind ==
    ASSUME RoundInv, GetMasterIP
    PROVE  RoundInv'
<1>1. UNCHANGED <<born, link, mon>>
  BY DEF GetMasterIP, nodeVars
<1>2. CASE NewRound
  BY <1>1, <1>2, RoundStart
<1>3. CASE master' \in found /\ Goto("check", AddrsOf(Redises))
  <2>1. found = AddrsOf(Masters)
    BY AllFound DEF GetMasterIP, RoundInv
  <2>2. PICK m \in Redises : Masters = {m}
    BY DEF GetMasterIP, RoundInv
  <2>3. MasterIs(m)'
    BY <1>1, <1>3, <2>1, <2>2 DEF MasterIs, Masters, AddrsOf, Addr
  <2>4. \A r \in Redises : ~Visited(r)'
    BY <1>1, <1>3 DEF Goto, Visited, AddrsOf, Addr
  <2> QED BY <1>3, <2>3, <2>4 DEF Goto, RoundInv
<1> QED BY <1>2, <1>3 DEF GetMasterIP
\* Whatever happened before, SetOldestAsMaster makes one of the redises it has
\* listed the master, and has the others still to visit.
LEMMA RoundOldest ==
    ASSUME TypeOK, AllListed, MakeOldestMaster
    PROVE  RoundInv'
<1>1. UNCHANGED born /\ pc' = "others" /\ pc = "oldest"
  BY DEF MakeOldestMaster
<1>2. PICK m \in Redises :
          Reach(m) /\ link' = [link EXCEPT ![m] = Nobody] /\ master' = Addr(m)
  BY DEF MakeOldestMaster
<1>3. link'[m] = Nobody /\ master' = Addr(m)' /\ master' \notin todo'
  BY <1>1, <1>2 DEF TypeOK, Addr, Reach
<1>4. ASSUME NEW r \in Redises, r # m PROVE Lost(r)'
  <2>1. PICK a \in todo : a[1] = r
    BY <1>1 DEF AllListed
  <2>2. a # Addr(m)
    BY <1>4, <2>1 DEF Addr
  <2> QED BY <1>2, <2>1, <2>2 DEF Reach, Lost
<1> QED BY <1>1, <1>3, <1>4 DEF RoundInv, Follows

\* SetMasterOnAll tells a redis which master to follow.
LEMMA RoundFollow ==
    ASSUME TypeOK, RoundInv, pc = "setAll", UNCHANGED <<born, pc, master>>,
           NEW r \in Redises, Reach(r),
           link' = [link EXCEPT ![r] = IF Addr(r) = master THEN Nobody ELSE master]
    PROVE  RoundInv'
<1>1. PICK m \in Redises : MasterIs(m) /\ \A q \in Redises : Visited(q) => Follows(q, m)
  BY DEF RoundInv
<1>2. Addr(m) # Nobody /\ master = Addr(m)
  BY <1>1, AddrType, AddressKinds DEF MasterIs
<1>3. /\ link'[r] = IF r = m THEN Nobody ELSE Addr(m)
      /\ \A q \in Redises \ {r} : link'[q] = link[q]
  BY <1>2, AddrInjective DEF TypeOK
<1>4. Masters' = Masters
  BY <1>1, <1>2, <1>3 DEF MasterIs, Masters
<1>5. MasterIs(m)'
  BY <1>1, <1>4, ReachVisits DEF MasterIs
<1>6. \A q \in Redises : Visited(q)' => Follows(q, m)'
  BY <1>1, <1>3, ReachVisits DEF Follows
<1> QED BY <1>5, <1>6 DEF RoundInv

\* Once all redises were visited they follow the master, and a loop over the
\* sentinels begins.
LEMMA RoundToMonitor ==
    ASSUME RoundInv, pc \in {"check", "setAll"}, todo = {}, UNCHANGED <<born, link, mon, master>>,
           Goto("monitor", AddrsOf(Sentinels))
    PROVE  RoundInv'
<1>1. PICK m \in Redises : MasterIs(m) /\ \A r \in Redises : Follows(r, m)
  BY DEF RoundInv, Visited
<1>2. MasterIs(m)' /\ \A r \in Redises : Follows(r, m)'
  BY <1>1 DEF MasterIs, Masters, Follows, Addr
<1>3. \A s \in Sentinels : ~Visited(s)'
  BY DEF Goto, Visited, AddrsOf, Addr
<1> QED BY <1>2, <1>3 DEF Goto, RoundInv

\* SetOldestAsMaster makes the others slaves, those included that were promoted
\* in the meantime.  When all were visited only its own choice is a master.
LEMMA RoundOthers ==
    ASSUME TypeOK, RoundInv, MakeOthersSlaves
    PROVE  RoundInv'
<1>1. UNCHANGED <<born, master>> /\ pc = "others"
  BY DEF MakeOthersSlaves
<1>2. PICK m \in Redises : /\ master = Addr(m) /\ link[m] = Nobody
                           /\ \A r \in Redises : Visited(r) => Follows(r, m) \/ Lost(r)
  BY <1>1 DEF RoundInv
<1>3. Addr(m) # Nobody
  BY AddrType, AddressKinds
<1>4. CASE todo = {} /\ Goto("find", AddrsOf(Redises)) /\ UNCHANGED link
  <2>1. \A r \in Redises : Follows(r, m)
    BY <1>2, <1>4 DEF Visited, Lost
  <2>2. Masters = {m}
    BY <1>2, <1>3, <2>1 DEF Masters, Follows
  <2>3. \A r \in Redises : ~Visited(r)'
    BY <1>1, <1>4 DEF Goto, Visited, AddrsOf, Addr
  <2>4. FoundMasters' /\ Masters' = Masters
    BY <1>4, <2>3 DEF Goto, FoundMasters, AddrsOf, Masters
  <2> QED BY <1>4, <2>2, <2>4 DEF Goto, RoundInv
<1>5. ASSUME NEW r \in Redises, Reach(r), link' = [link EXCEPT ![r] = master], UNCHANGED pc
      PROVE  RoundInv'
  <2>1. r # m /\ master' \notin todo'
    BY <1>1, <1>2, <1>5 DEF RoundInv, Reach
  <2>2. link'[r] = Addr(m) /\ \A q \in Redises \ {r} : link'[q] = link[q]
    BY <1>2, <1>5 DEF TypeOK
  <2>3. ASSUME NEW q \in Redises, q # r, Lost(q) PROVE Lost(q)'
    <3>1. PICK a \in todo : a[1] = q
      BY <2>3 DEF Lost
    <3>2. a # Addr(r)
      BY <2>3, <3>1 DEF Addr
    <3> QED BY <1>5, <3>1, <3>2 DEF Reach, Lost
  <2>4. \A q \in Redises : Visited(q)' => Follows(q, m)' \/ Lost(q)'
    BY <1>1, <1>2, <1>5, <2>2, <2>3, ReachVisits DEF Follows
  <2>5. master' = Addr(m)' /\ link'[m] = Nobody
    BY <1>1, <1>2, <2>1, <2>2 DEF Addr
  <2> QED BY <1>1, <1>5, <2>1, <2>4, <2>5 DEF RoundInv
<1> QED BY <1>4, <1>5 DEF MakeOthersSlaves

\* SetMasterOnAll tells one more redis, or has told all of them.
LEMMA RoundSetAll ==
    ASSUME TypeOK, RoundInv, SetMasterOnAll
    PROVE  RoundInv'
<1>1. UNCHANGED <<born, mon, master>> /\ pc = "setAll"
  BY DEF SetMasterOnAll, sentinelVars
<1>2. CASE todo = {} /\ Goto("monitor", AddrsOf(Sentinels)) /\ UNCHANGED link
  BY <1>1, <1>2, RoundToMonitor
<1>3. ASSUME NEW r \in Redises, Reach(r), UNCHANGED pc,
             link' = [link EXCEPT ![r] = IF Addr(r) = master THEN Nobody ELSE master]
      PROVE  RoundInv'
  BY <1>1, <1>3, RoundFollow
<1> QED BY <1>2, <1>3 DEF SetMasterOnAll

\* The check of the redises visits one, or ends, or asks for SetMasterOnAll.
LEMMA RoundCheck ==
    ASSUME RoundInv, CheckAllSlavesFromMaster
    PROVE  RoundInv'
<1>1. UNCHANGED <<born, link, mon, master>> /\ pc = "check"
  BY DEF CheckAllSlavesFromMaster, nodeVars
<1>2. PICK m \in Redises : MasterIs(m) /\ \A r \in Redises : Visited(r) => Follows(r, m)
  BY <1>1 DEF RoundInv
<1>3. MasterIs(m)' /\ \A r \in Redises : Follows(r, m)' <=> Follows(r, m)
  BY <1>1, <1>2 DEF MasterIs, Masters, Follows, Addr
<1>4. CASE todo = {} /\ Goto("monitor", AddrsOf(Sentinels))
  BY <1>1, <1>4, RoundToMonitor
<1>5. ASSUME NEW r \in Redises, Reach(r), link[r] \in {Nobody, master}, UNCHANGED pc
      PROVE  RoundInv'
  <2>1. Follows(r, m)
    BY <1>2, <1>5 DEF MasterIs, Masters, Follows
  <2>2. \A q \in Redises : Visited(q)' => Follows(q, m)'
    BY <1>1, <1>2, <1>3, <1>5, <2>1, ReachVisits
  <2> QED BY <1>1, <1>3, <1>5, <2>2 DEF RoundInv
<1>6. CASE Goto("setAll", AddrsOf(Redises))
  <2>1. \A q \in Redises : ~Visited(q)'
    BY <1>1, <1>6 DEF Goto, Visited, AddrsOf, Addr
  <2> QED BY <1>3, <1>6, <2>1 DEF Goto, RoundInv
<1> QED BY <1>4, <1>5, <1>6 DEF CheckAllSlavesFromMaster

\* A sentinel visited monitors the master.
LEMMA RoundMonitor ==
    ASSUME TypeOK, RoundInv, CheckSentinelMonitor
    PROVE  RoundInv'
<1>1. UNCHANGED <<born, link, master>> /\ pc = "monitor"
  BY DEF CheckSentinelMonitor
<1>2. PICK m \in Redises :
          /\ MasterIs(m) /\ \A r \in Redises : Follows(r, m)
          /\ \A s \in Sentinels : Visited(s) => mon[s] = Addr(m)
  BY <1>1 DEF RoundInv
<1>3. MasterIs(m)' /\ (\A r \in Redises : Follows(r, m)') /\ Addr(m)' = Addr(m)
  BY <1>1, <1>2 DEF MasterIs, Masters, Follows, Addr
<1>4. CASE todo = {} /\ Goto("slaves", AddrsOf(Sentinels)) /\ UNCHANGED mon
  <2>1. \A s \in Sentinels : mon'[s] = Addr(m)'
    BY <1>2, <1>3, <1>4 DEF Visited
  <2> QED BY <1>3, <1>4, <2>1 DEF Goto, RoundInv
<1>5. ASSUME NEW s \in Sentinels, Reach(s), UNCHANGED pc,
             (mon[s] = master /\ UNCHANGED mon) \/ MonitorRedis(s)
      PROVE  RoundInv'
  <2>1. mon'[s] = Addr(m) /\ \A t \in Sentinels \ {s} : mon'[t] = mon[t]
    BY <1>2, <1>5 DEF MasterIs, MonitorRedis, TypeOK
  <2>2. \A t \in Sentinels : Visited(t)' => mon'[t] = Addr(m)'
    BY <1>1, <1>2, <1>3, <1>5, <2>1, ReachVisits
  <2> QED BY <1>1, <1>3, <1>5, <2>2 DEF RoundInv
<1> QED BY <1>4, <1>5 DEF CheckSentinelMonitor, sentinelVars

\* The last loops leave redises and monitored masters alone.
LEMMA RoundEnd ==
    ASSUME RoundInv, UNCHANGED <<born, link, mon, master>>,
           pc \in {"slaves", "wait", "peers", "done"}, pc' \in {"slaves", "wait", "peers", "done"}
    PROVE  RoundInv'
<1>1. PICK m \in Redises : /\ MasterIs(m) /\ \A r \in Redises : Follows(r, m)
                           /\ \A s \in Sentinels : mon[s] = Addr(m)
  BY DEF RoundInv
<1>2. /\ MasterIs(m)' /\ (\A r \in Redises : Follows(r, m)')
      /\ \A s \in Sentinels : mon'[s] = Addr(m)'
  BY <1>1 DEF MasterIs, Masters, Follows, Addr
<1> QED BY <1>2 DEF RoundInv
\* Every step of an undisturbed round.
LEMMA RoundStep ==
    ASSUME IInv, [Next]_vars, quiet'
    PROVE  RoundInv'
<1> USE DEF nodeVars, sentinelVars, localVars, historyVars
<1>a. TypeOK /\ FoundOk /\ AllListed /\ (quiet => RoundInv)
  BY DEF IInv
<1>b. ASSUME NewRound, UNCHANGED born PROVE RoundInv'
  BY <1>b, RoundStart
<1>c. ASSUME UNCHANGED quiet, RoundInv => RoundInv' PROVE RoundInv'
  BY <1>a, <1>c
<1>1. CASE IsMaster
  BY <1>1, <1>c, RoundIsMaster DEF IsMaster
<1>2. CASE GetNumberMasters
  BY <1>2, <1>a, <1>b, <1>c, RoundCount DEF GetNumberMasters
<1>3. CASE GetMasterIP
  BY <1>3, <1>b, <1>c, RoundFind DEF GetMasterIP
<1>4. CASE MakeOldestMaster
  BY <1>4, <1>a, RoundOldest
<1>5. CASE MakeOthersSlaves
  BY <1>5, <1>a, <1>c, RoundOthers DEF MakeOthersSlaves
<1>6. CASE CheckAllSlavesFromMaster
  BY <1>6, <1>c, RoundCheck DEF CheckAllSlavesFromMaster
<1>7. CASE SetMasterOnAll
  BY <1>7, <1>a, <1>c, RoundSetAll DEF SetMasterOnAll
<1>8. CASE CheckSentinelMonitor
  BY <1>8, <1>a, <1>c, RoundMonitor DEF CheckSentinelMonitor
<1>9. CASE MonitorRedisFails \/ WaitRestoreTimeout \/ RoundOk \/ CallFailed
  BY <1>9, <1>b DEF MonitorRedisFails, WaitRestoreTimeout, RoundOk, CallFailed
<1>10. CASE CheckSentinelSlaves
  <2>1. UNCHANGED <<born, link, mon, master, quiet>> /\ pc = "slaves"
        /\ pc' \in {"slaves", "wait", "peers", "done"}
    BY <1>10 DEF CheckSentinelSlaves, Goto
  <2> QED BY <1>c, <2>1, RoundEnd
<1>11. CASE WaitRestoreOk
  <2>1. UNCHANGED <<born, link, mon, master, quiet>> /\ pc = "wait" /\ pc' = "slaves"
    BY <1>11 DEF WaitRestoreOk, Waiting, Goto
  <2> QED BY <1>c, <2>1, RoundEnd
<1>12. CASE CheckSentinelPeers
  <2>1. UNCHANGED <<born, link, mon, master, quiet>> /\ pc = "peers"
        /\ pc' \in {"slaves", "wait", "peers", "done"}
    BY <1>12 DEF CheckSentinelPeers, Goto
  <2> QED BY <1>c, <2>1, RoundEnd
<1>13. ASSUME NEW s \in Sentinels, DiscoverSlaves(s) \/ DiscoverPeers(s) PROVE RoundInv'
  <2>1. UNCHANGED <<born, link, mon, localVars, quiet>>
    BY <1>13 DEF DiscoverSlaves, DiscoverPeers
  <2> QED BY <1>c, <2>1, RoundFrame
<1>14. ASSUME NEW s \in Sentinels, RestartSentinel(s) PROVE RoundInv'
  BY <1>14 DEF RestartSentinel, Disturb
<1>15. ASSUME NEW r \in Redises, RestartRedis(r) PROVE RoundInv'
  BY <1>15 DEF RestartRedis, Disturb
<1>16. ASSUME NEW r \in Redises, NEW a \in Address, Failover(a, r) PROVE RoundInv'
  BY <1>16 DEF Failover
<1>17. CASE UNCHANGED vars
  <2>1. UNCHANGED <<born, link, mon, localVars, quiet>>
    BY <1>17 DEF vars
  <2> QED BY <1>c, <2>1, RoundFrame
<1> QED
  BY <1>1, <1>2, <1>3, <1>4, <1>5, <1>6, <1>7, <1>8, <1>9, <1>10, <1>11, <1>12, <1>13,
     <1>14, <1>15, <1>16, <1>17 DEF Next, Operator, Nodes

----------------------------------------------------------------------------
(***************************************************************************)
(* Rounds in which nobody is promoted.                                     *)
(***************************************************************************)
\* A new round has visited nobody.
LEMMA CountedStart ==
    ASSUME NewRound, UNCHANGED born
    PROVE  CountedInv'
<1>1. pc' = "count" /\ \A r \in Redises : ~Visited(r)'
  BY DEF NewRound, Goto, AddrsOf, Addr, Visited
<1> QED BY <1>1 DEF CountedInv, Masters

\* A step that looks at the sentinels, or is one of theirs.
LEMMA CountedFrame ==
    ASSUME CountedInv, UNCHANGED link, \A r \in Redises : Addr(r)' = Addr(r),
           UNCHANGED localVars \/ pc' \notin {"count", "find", "oldest", "others", "check", "setAll"}
    PROVE  CountedInv'
  BY DEF CountedInv, Masters, Visited, localVars

\* GetNumberMasters and GetMasterIP: what they have found is what is left.
LEMMA CountedMasters ==
    ASSUME FoundOk, CountedInv, IsMaster \/ GetNumberMasters \/ GetMasterIP
    PROVE  CountedInv'
<1>1. UNCHANGED <<born, link>> /\ Masters' = Masters /\ \A r : Addr(r)' = Addr(r)
  BY DEF IsMaster, GetNumberMasters, GetMasterIP, nodeVars, Masters, Addr
<1>2. CASE IsMaster
  <2>1. PICK r \in Redises :
            Reach(r) /\ found' = IF link[r] = Nobody THEN found \cup {Addr(r)} ELSE found
    BY <1>2 DEF IsMaster
  <2>2. pc \in {"count", "find"} /\ pc' = pc /\ \A q \in Masters : Visited(q) => Addr(q) \in found
    BY <1>2 DEF IsMaster, CountedInv
  <2>3. \A q \in Masters : Visited(q)' => Addr(q) \in found'
    BY <1>1, <2>1, <2>2, ReachVisits DEF Masters
  <2> QED BY <1>1, <2>2, <2>3 DEF CountedInv
<1>3. CASE NewRound
  BY <1>1, <1>3, CountedStart
<1>4. CASE GetNumberMasters /\ Cardinality(found) = 0 /\ Goto("oldest", AddrsOf(Redises))
  <2>1. found = {}
    BY <1>4, FS_EmptySet DEF FoundOk
  <2>2. Masters = {}
    BY <1>4, <2>1 DEF GetNumberMasters, CountedInv, Visited
  <2> QED BY <1>1, <1>4, <2>2 DEF Goto, CountedInv
<1>5. CASE Goto("find", AddrsOf(Redises))
  <2>1. \A r \in Redises : ~Visited(r)'
    BY <1>1, <1>5 DEF Goto, Visited, AddrsOf
  <2> QED BY <1>5, <2>1 DEF Goto, CountedInv, Masters
<1>6. ASSUME NEW a \in found, GetMasterIP, found = {a}, master' = a, Goto("check", AddrsOf(Redises))
      PROVE  CountedInv'
  <2>1. \A r \in Masters : Addr(r) = a
    BY <1>6 DEF GetMasterIP, CountedInv, Visited
  <2> QED BY <1>1, <1>6, <2>1 DEF Goto, CountedInv
<1> QED BY <1>2, <1>3, <1>4, <1>5, <1>6 DEF GetNumberMasters, GetMasterIP

\* The healer's writes to redises: only the chosen one becomes a master.
LEMMA CountedWrites ==
    ASSUME TypeOK, MasterKnown, CountedInv, MakeOldestMaster \/ MakeOthersSlaves \/ SetMasterOnAll
    PROVE  CountedInv' /\ (Masters # {} => Masters' \subseteq Masters)
<1>1. UNCHANGED born /\ \A r : Addr(r)' = Addr(r)
  BY DEF MakeOldestMaster, MakeOthersSlaves, SetMasterOnAll, Addr
<1>2. CASE MakeOldestMaster
  <2>1. PICK m \in Redises : link' = [link EXCEPT ![m] = Nobody] /\ master' = Addr(m)
    BY <1>2 DEF MakeOldestMaster
  <2>2. Masters = {} /\ pc' = "others"
    BY <1>2 DEF MakeOldestMaster, CountedInv
  <2>3. Masters' \subseteq {m}
    BY <2>1, <2>2 DEF Masters, TypeOK
  <2> QED BY <1>1, <2>1, <2>2, <2>3 DEF CountedInv
<1>3. CASE MakeOthersSlaves \/ SetMasterOnAll
  <2>1. pc \in {"others", "setAll"} /\ master' = master /\ master \in RedisAddress
    BY <1>3 DEF MakeOthersSlaves, SetMasterOnAll, MasterKnown
  <2>2. \A r \in Masters : Addr(r) = master
    BY <2>1 DEF CountedInv
  <2>3. CASE UNCHANGED link /\ Goto("find", AddrsOf(Redises))
    <3>1. \A r \in Redises : ~Visited(r)'
      BY <1>1, <2>3 DEF Goto, Visited, AddrsOf
    <3> QED BY <2>3, <3>1 DEF Goto, CountedInv, Masters
  <2>4. CASE UNCHANGED link /\ Goto("monitor", AddrsOf(Sentinels))
    BY <2>4 DEF Goto, CountedInv, Masters
  <2>5. ASSUME NEW r \in Redises, NEW a \in RedisAddress \cup {Nobody}, UNCHANGED pc,
               link' = [link EXCEPT ![r] = a], a = Nobody => Addr(r) = master
        PROVE  CountedInv' /\ (Masters # {} => Masters' \subseteq Masters)
    <3>1. link'[r] = a /\ \A q \in Redises \ {r} : link'[q] = link[q]
      BY <2>5 DEF TypeOK
    <3>2. \A q \in Masters' : Addr(q) = master
      BY <2>2, <2>5, <3>1 DEF Masters
    <3>3. Masters # {} => Masters' \subseteq Masters
      BY <2>2, <3>2, AddrInjective
    <3> QED BY <1>1, <2>1, <2>5, <3>2, <3>3 DEF CountedInv
  <2>6. CASE \E r \in Redises : UNCHANGED pc /\ link' = [link EXCEPT ![r] = master]
    BY <2>1, <2>5, <2>6, AddressKinds
  <2>7. CASE \E r \in Redises :
                 UNCHANGED pc /\ link' = [link EXCEPT ![r] = IF Addr(r) = master THEN Nobody ELSE master]
    <3>1. PICK r \in Redises :
              UNCHANGED pc /\ link' = [link EXCEPT ![r] = IF Addr(r) = master THEN Nobody ELSE master]
      BY <2>7
    <3> DEFINE a == IF Addr(r) = master THEN Nobody ELSE master
    <3>2. a \in RedisAddress \cup {Nobody} /\ (a = Nobody => Addr(r) = master)
      BY <2>1, AddressKinds
    <3>3. link' = [link EXCEPT ![r] = a]
      BY <3>1
    <3> HIDE DEF a
    <3> QED BY <2>5, <3>1, <3>2, <3>3
  <2> QED BY <1>3, <2>3, <2>4, <2>6, <2>7 DEF MakeOthersSlaves, SetMasterOnAll
<1> QED BY <1>2, <1>3

\* A redis that is replaced is no master, and the addresses of the others stay.
LEMMA CountedRestart ==
    ASSUME TypeOK, CountedInv, NEW r \in Redises, RestartRedis(r)
    PROVE  CountedInv' /\ Masters' \subseteq Masters
<1>1. UNCHANGED <<pc, todo, found, master>>
  BY DEF RestartRedis, localVars
<1>2. link' = [link EXCEPT ![r] = Loop] /\ Reborn(r)
  BY DEF RestartRedis
<1>3. Masters' \subseteq Masters \ {r}
  BY <1>2, AddressAssumption DEF Masters, TypeOK
<1>4. \A q \in Redises \ {r} : Addr(q)' = Addr(q)
  BY <1>2 DEF Reborn, Addr, TypeOK, Pods
<1> QED BY <1>1, <1>3, <1>4 DEF CountedInv, Visited, Masters

\* Every step of a round in which nobody was promoted, and what it does to the
\* masters.
LEMMA CountedStep ==
    ASSUME IInv, [Next]_vars, ~promoted'
    PROVE  CountedInv' /\ (Masters # {} => Masters' \subseteq Masters)
<1> USE DEF nodeVars, sentinelVars, historyVars
<1>a. TypeOK /\ FoundOk /\ MasterKnown /\ (~promoted => CountedInv)
  BY DEF IInv
<1> DEFINE Goal == CountedInv' /\ (Masters # {} => Masters' \subseteq Masters)
<1> SUFFICES Goal
  OBVIOUS
<1> HIDE DEF Goal
<1>b. ASSUME NewRound, UNCHANGED <<born, link>> PROVE Goal
  BY <1>b, CountedStart DEF Goal, Masters
<1>c. ASSUME UNCHANGED promoted, UNCHANGED link, CountedInv => CountedInv' PROVE Goal
  BY <1>a, <1>c DEF Goal, Masters
<1>1. CASE IsMaster \/ GetNumberMasters \/ GetMasterIP
  BY <1>1, <1>a, <1>b, <1>c, CountedMasters DEF IsMaster, GetNumberMasters, GetMasterIP
<1>2. CASE MakeOldestMaster \/ MakeOthersSlaves \/ SetMasterOnAll
  <2>1. UNCHANGED promoted
    BY <1>2 DEF MakeOldestMaster, MakeOthersSlaves, SetMasterOnAll
  <2> QED BY <1>2, <1>a, <2>1, CountedWrites DEF Goal
<1>3. CASE CheckAllSlavesFromMaster
  <2>1. UNCHANGED <<born, link, master, promoted>> /\ pc = "check"
    BY <1>3 DEF CheckAllSlavesFromMaster
  <2>2. pc' \in {"check", "setAll", "monitor"}
    BY <1>3, <2>1 DEF CheckAllSlavesFromMaster, Goto
  <2>3. CountedInv => CountedInv'
    BY <2>1, <2>2 DEF CountedInv, Masters, Addr
  <2> QED BY <1>c, <2>1, <2>3
<1>4. CASE MonitorRedisFails \/ WaitRestoreTimeout \/ RoundOk \/ CallFailed
  BY <1>4, <1>b DEF MonitorRedisFails, WaitRestoreTimeout, RoundOk, CallFailed
<1>5. CASE CheckSentinelMonitor \/ CheckSentinelSlaves \/ WaitRestoreOk \/ CheckSentinelPeers
  <2>1. UNCHANGED <<born, link, promoted>>
    BY <1>5 DEF CheckSentinelMonitor, CheckSentinelSlaves, WaitRestoreOk, CheckSentinelPeers
  <2>2. pc' \in {"monitor", "slaves", "wait", "peers", "done"}
    BY <1>5 DEF CheckSentinelMonitor, CheckSentinelSlaves, WaitRestoreOk, CheckSentinelPeers, Goto
  <2>3. \A r \in Redises : Addr(r)' = Addr(r)
    BY <2>1 DEF Addr
  <2> QED BY <1>c, <2>1, <2>2, <2>3, CountedFrame
<1>6. ASSUME NEW s \in Sentinels, DiscoverSlaves(s) \/ DiscoverPeers(s) PROVE Goal
  <2>1. UNCHANGED <<born, link, localVars, promoted>>
    BY <1>6 DEF DiscoverSlaves, DiscoverPeers
  <2>2. \A r \in Redises : Addr(r)' = Addr(r)
    BY <2>1 DEF Addr
  <2> QED BY <1>c, <2>1, <2>2, CountedFrame
<1>7. ASSUME NEW s \in Sentinels, RestartSentinel(s) PROVE Goal
  <2>1. UNCHANGED <<link, localVars, promoted>> /\ Reborn(s)
    BY <1>7 DEF RestartSentinel
  <2>2. \A r \in Redises : Addr(r)' = Addr(r)
    BY <1>a, <2>1, NodesAssumption DEF Addr, Reborn, TypeOK, Pods
  <2> QED BY <1>c, <2>1, <2>2, CountedFrame
<1>8. ASSUME NEW r \in Redises, RestartRedis(r) PROVE Goal
  BY <1>8, <1>a, CountedRestart DEF RestartRedis, Goal
<1>9. ASSUME NEW r \in Redises, NEW a \in Address, Failover(a, r) PROVE Goal
  BY <1>9 DEF Failover
<1>10. CASE UNCHANGED vars
  <2>1. UNCHANGED <<born, link, localVars, promoted>>
    BY <1>10 DEF vars, localVars
  <2>2. \A r \in Redises : Addr(r)' = Addr(r)
    BY <2>1 DEF Addr
  <2> QED BY <1>c, <2>1, <2>2, CountedFrame
<1>11. Goal
  BY <1>1, <1>2, <1>3, <1>4, <1>5, <1>6, <1>7, <1>8, <1>9, <1>10 DEF Next, Operator, Nodes
<1> QED BY <1>11

\* Every step keeps the list of SetOldestAsMaster complete and the master known.
LEMMA KnownStep ==
    ASSUME IInv, [Next]_vars
    PROVE  AllListed' /\ MasterKnown'
<1> USE DEF nodeVars, sentinelVars, localVars, historyVars
<1>a. TypeOK /\ FoundOk /\ AllListed /\ MasterKnown
  BY DEF IInv
<1>b. ASSUME NewRound PROVE AllListed' /\ MasterKnown'
  BY <1>b DEF NewRound, Goto, AllListed, MasterKnown
<1>c. ASSUME UNCHANGED localVars PROVE AllListed' /\ MasterKnown'
  BY <1>a, <1>c DEF AllListed, MasterKnown
<1>1. CASE IsMaster
  BY <1>1 DEF IsMaster, AllListed, MasterKnown
<1>2. CASE GetNumberMasters
  <2>1. CASE Goto("oldest", AddrsOf(Redises))
    <3>1. \A r \in Redises : Addr(r) \in todo' /\ Addr(r)[1] = r
      BY <2>1 DEF Goto, AddrsOf, Addr
    <3> QED BY <2>1, <3>1 DEF Goto, AllListed, MasterKnown
  <2>2. CASE Goto("find", AddrsOf(Redises))
    BY <2>2 DEF Goto, AllListed, MasterKnown
  <2> QED BY <1>2, <1>b, <2>1, <2>2 DEF GetNumberMasters
<1>3. CASE GetMasterIP
  BY <1>3, <1>a, <1>b DEF GetMasterIP, Goto, FoundOk, AllListed, MasterKnown
<1>4. CASE MakeOldestMaster
  BY <1>4, <1>a, AddrType DEF MakeOldestMaster, AllListed, MasterKnown
<1>5. CASE MakeOthersSlaves \/ CheckAllSlavesFromMaster \/ SetMasterOnAll
  <2>1. master' = master /\ pc \in {"others", "check", "setAll"} /\ pc' # "oldest"
    BY <1>5 DEF MakeOthersSlaves, CheckAllSlavesFromMaster, SetMasterOnAll, Goto
  <2> QED BY <1>a, <2>1 DEF AllListed, MasterKnown
<1>6. CASE MonitorRedisFails \/ WaitRestoreTimeout \/ RoundOk \/ CallFailed
  BY <1>6, <1>b DEF MonitorRedisFails, WaitRestoreTimeout, RoundOk, CallFailed
<1>7. CASE CheckSentinelMonitor \/ CheckSentinelSlaves \/ WaitRestoreOk \/ CheckSentinelPeers
  <2>1. pc' \in {"monitor", "slaves", "wait", "peers", "done"}
    BY <1>7 DEF CheckSentinelMonitor, CheckSentinelSlaves, WaitRestoreOk, CheckSentinelPeers, Goto
  <2> QED BY <2>1 DEF AllListed, MasterKnown
<1>8. CASE Nodes
  BY <1>8, <1>c DEF Nodes, DiscoverSlaves, DiscoverPeers, RestartSentinel, RestartRedis, Failover
<1>9. CASE UNCHANGED vars
  BY <1>9, <1>c DEF vars
<1> QED
  BY <1>1, <1>2, <1>3, <1>4, <1>5, <1>6, <1>7, <1>8, <1>9 DEF Next, Operator
----------------------------------------------------------------------------
(***************************************************************************)
(* The theorems.                                                           *)
(***************************************************************************)
\* The invariant of the rounds.
LEMMA Invariance == Spec => []IInv
<1>1. Init => IInv
  <2> SUFFICES ASSUME Init PROVE RoundInv /\ CountedInv /\ AllListed /\ MasterKnown
    BY TypeInit DEF IInv
  <2>1. Masters = {} /\ pc = "count" /\ found = {}
    BY AddressAssumption DEF Init, Masters
  <2>2. FoundMasters
    BY <2>1 DEF FoundMasters, AddrsOf
  <2> QED BY <2>1, <2>2 DEF RoundInv, CountedInv, AllListed, MasterKnown
<1>2. IInv /\ [Next]_vars => IInv'
  BY TypeStep, KnownStep, RoundStep, CountedStep DEF IInv, Typed
<1> QED BY <1>1, <1>2, PTL DEF Spec

\* A round that goes on to look for its master finds exactly one, whatever the
\* sentinels did before SetOldestAsMaster chose it, as long as nobody changes a
\* node afterwards: GetMasterIP does not fail of its own accord.
THEOREM QuietRoundsHaveOneMaster == Spec => []QuietRoundHasOneMaster
<1>1. IInv => QuietRoundHasOneMaster
  <2> SUFFICES ASSUME RoundInv, pc \in Steps, pc \notin {"count", "oldest", "others"}
               PROVE  \E m \in Redises : Masters = {m}
    BY DEF IInv, TypeOK, QuietRoundHasOneMaster
  <2> QED BY DEF Steps, RoundInv, MasterIs
<1> QED BY <1>1, Invariance, PTL

\* A round that CheckAndHeal ends without an error, and in which nobody else
\* changed a node (or only before SetOldestAsMaster), leaves one master, all other
\* redises following it and all sentinels monitoring it, whatever it started from.
THEOREM QuietRoundsConverge == Spec => []QuietRoundConverges
<1>1. IInv => QuietRoundConverges
  BY DEF IInv, RoundInv, QuietRoundConverges, Converged, MasterIs, Masters, Follows
<1> QED BY <1>1, Invariance, PTL

\* MakeMaster acts on a count and on an address the healer read earlier: unless
\* the sentinels promote a redis in the same round, it never adds a second
\* master, whichever pods are replaced and whichever calls fail.
THEOREM HealerAddsNoMaster == Spec => NoSecondMaster
<1>1. IInv /\ [Next]_vars => (Masters # {} /\ ~promoted' => Masters' \subseteq Masters)
  BY CountedStep
<1>2. IInv /\ [Next]_vars => [Masters # {} /\ ~promoted' => Masters' \subseteq Masters]_vars
  BY <1>1
<1> QED BY <1>2, Invariance, PTL DEF Spec, NoSecondMaster
============================================================================
