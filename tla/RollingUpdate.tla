--------------------------- MODULE RollingUpdate ---------------------------
(***************************************************************************)
(* What becomes of the data of a RedisSentinel while its pods are stopped  *)
(* and created again: the StatefulSet as the generator configures it       *)
(* (rolling update, readiness probe, preStop script, emptyDir volume), the *)
(* script, the sentinels, and CheckAndHeal.                                *)
(*                                                                         *)
(* The calls of CheckAndHeal and the single sentinels are in SentinelHeal. *)
(* Here its reads of all redises are one step each, its writes one step    *)
(* per redis, and the sentinels one group.                                 *)
(***************************************************************************)
EXTENDS Naturals, FiniteSets

CONSTANTS
    Size,      \* spec.size
    Nobody,    \* no address: the master of a master
    Loop,      \* 127.0.0.1, what redises are started with
    Evictable, \* the ordinals of the pods that others than the update may stop
    Stops      \* how many pods are stopped, by the update or by others

ASSUME SizeAssumption ==
    Size \in Nat \ {0} /\ Stops \in Nat /\ Evictable \subseteq 0 .. Size - 1

Ordinals == 0 .. Size - 1
Births == 0 .. Size + Stops - 1
Address == Ordinals \X Births

ASSUME AddressAssumption == Nobody \notin Address /\ Loop \notin Address /\ Nobody # Loop

VARIABLES
    pod,      \* up, running its preStop script (ask, failover), or gone
    born,     \* the pods in the order of their creation timestamps
    ready,    \* the pods whose readiness probe succeeds
    link,     \* the address each redis replicates from
    copy,     \* what each redis holds
    updating, \* the StatefulSet has a new template
    updated,  \* the pods created from it
    mon,      \* the address the sentinels monitor
    slaves,   \* the slaves they know
    forced,   \* a SENTINEL failover is in progress
    counted,  \* the informer says that all replicas are ready
    pc,       \* the step of CheckAndHeal
    todo,     \* the addresses its loop has still to visit
    master,   \* its local variable master
    stops     \* pods that may still be stopped

podVars == <<pod, born, ready, updating, updated>>
redisVars == <<link, copy>>
sentinelVars == <<mon, slaves, forced>>
operatorVars == <<pc, todo, master>>
vars == <<pod, born, ready, updating, updated, link, copy, mon, slaves, forced,
          counted, pc, todo, master, stops>>

Addr(r) == <<r, born[r]>>
Running == {r \in Ordinals : pod[r] # "gone"}
RunningAddrs == {Addr(r) : r \in Running}
Live(a) == a \in RunningAddrs
Masters == {r \in Running : link[r] = Nobody}

\* A cluster that has converged and holds data.
Init ==
    /\ pod = [r \in Ordinals |-> "up"] /\ born = [r \in Ordinals |-> r]
    /\ ready = Ordinals /\ updating = FALSE /\ updated = {}
    /\ copy = [r \in Ordinals |-> "data"]
    /\ \E m \in Ordinals :
           /\ link = [r \in Ordinals |-> IF r = m THEN Nobody ELSE <<m, m>>]
           /\ mon = <<m, m>> /\ slaves = {<<r, r>> : r \in Ordinals \ {m}}
    /\ forced = FALSE /\ counted = TRUE
    /\ pc = "idle" /\ todo = {} /\ master = Nobody
    /\ stops = Stops

(***************************************************************************)
(* The StatefulSet controller and the kubelet.                             *)
(***************************************************************************)
\* EnsureRedisStatefulset writes another template.
UpdateStatefulSet ==
    /\ ~updating /\ updating' = TRUE
    /\ UNCHANGED <<pod, born, ready, updated, redisVars, sentinelVars, counted, operatorVars, stops>>

\* A pod is deleted and its preStop hook begins; its redis keeps running.
Stop(r) ==
    /\ stops > 0 /\ stops' = stops - 1
    /\ pod[r] = "up" /\ pod' = [pod EXCEPT ![r] = "ask"]
    /\ UNCHANGED <<born, ready, updating, updated, redisVars, sentinelVars, counted, operatorVars>>

\* RollingUpdate: from the highest ordinal, one pod at a time, the next one as
\* soon as the one before it is ready.
RollPod(r) ==
    /\ updating /\ r \notin updated
    /\ \A q \in Ordinals : q > r => q \in updated
    /\ \A q \in Ordinals : pod[q] = "up" /\ q \in ready
    /\ Stop(r)

\* An eviction, a deletion by hand, a lost node.
Evict(r) == r \in Evictable /\ Stop(r)

\* The end of a pod takes its volume with it.
End(r) ==
    /\ pod' = [pod EXCEPT ![r] = "gone"] /\ ready' = ready \ {r}
    /\ link' = [link EXCEPT ![r] = Loop] /\ copy' = [copy EXCEPT ![r] = "fresh"]

\* Pods are created in order, each once those before it are ready.
CreatePod(r) ==
    /\ pod[r] = "gone" /\ \A q \in Ordinals : q < r => pod[q] = "up" /\ q \in ready
    /\ pod' = [pod EXCEPT ![r] = "up"]
    /\ \E b \in Births :
           /\ (\A q \in Ordinals : born[q] < b) /\ (\E q \in Ordinals : born[q] = b - 1)
           /\ born' = [born EXCEPT ![r] = b]
    /\ updated' = IF updating THEN updated \cup {r} ELSE updated
    /\ UNCHANGED <<ready, updating, redisVars, sentinelVars, counted, operatorVars, stops>>

\* The readiness probe is a ping: it does not wait for a master or for data.
PodReady(r) ==
    /\ pod[r] = "up" /\ r \notin ready /\ ready' = ready \cup {r}
    /\ UNCHANGED <<pod, born, updating, updated, redisVars, sentinelVars, counted, operatorVars, stops>>

\* A redis loads the data of the master it is linked to, or of a slave that has it.
Replicate(r) ==
    /\ r \in Running /\ Live(link[r])
    /\ LET q == link[r][1] IN
           /\ q # r /\ copy[q] # "fresh"
           /\ link[q] = Nobody \/ Live(link[q])
           /\ copy[r] # copy[q] /\ copy' = [copy EXCEPT ![r] = copy[q]]
    /\ UNCHANGED <<podVars, link, sentinelVars, counted, operatorVars, stops>>

(***************************************************************************)
(* The shutdown script, until it ends or the grace period does.            *)
(***************************************************************************)
\* The script asks once who is master, saves, and ends unless it is its own redis.
AskMaster(r) ==
    /\ pod[r] = "ask"
    /\ \/ mon = Addr(r) /\ pod' = [pod EXCEPT ![r] = "failover"] /\ UNCHANGED <<ready, redisVars>>
       \/ mon # Addr(r) /\ End(r)
    /\ UNCHANGED <<born, updating, updated, sentinelVars, counted, operatorVars, stops>>

\* A slave the sentinels may promote: it answers, and has once been in sync.
Good(r) == r \in Running /\ Addr(r) \in slaves /\ copy[r] # "fresh"

\* SENTINEL failover answers OK; until then the loop goes on.
ForceFailover(r) ==
    /\ pod[r] = "failover" /\ ~forced /\ \E q \in Ordinals : Good(q)
    /\ forced' = TRUE /\ End(r)
    /\ UNCHANGED <<born, updating, updated, mon, slaves, counted, operatorVars, stops>>

\* The grace period is over.
Kill(r) ==
    /\ pod[r] \in {"ask", "failover"} /\ End(r)
    /\ UNCHANGED <<born, updating, updated, sentinelVars, counted, operatorVars, stops>>

(***************************************************************************)
(* The sentinels.                                                          *)
(***************************************************************************)
DiscoverSlaves ==
    /\ Live(mon) /\ link[mon[1]] = Nobody
    /\ slaves' = slaves \cup {Addr(r) : r \in {q \in Running : link[q] = mon}}
    /\ UNCHANGED <<podVars, redisVars, mon, forced, counted, operatorVars, stops>>

\* On request, or because the master is gone.
Failover(r) ==
    /\ forced \/ ~Live(mon)
    /\ Good(r)
    /\ link' = [link EXCEPT ![r] = Nobody]
    /\ mon' = Addr(r) /\ slaves' = (slaves \ {Addr(r)}) \cup {mon} /\ forced' = FALSE
    /\ UNCHANGED <<podVars, copy, counted, operatorVars, stops>>

AbortFailover ==
    /\ forced /\ forced' = FALSE
    /\ ~\E r \in Ordinals : Good(r)
    /\ UNCHANGED <<podVars, redisVars, mon, slaves, counted, operatorVars, stops>>

\* Known redises, an old master among them, are pointed to a sane master.
Reconfigure(r) ==
    /\ Live(mon) /\ link[mon[1]] = Nobody
    /\ r \in Running /\ Addr(r) \in slaves /\ link[r] # mon
    /\ link' = [link EXCEPT ![r] = mon]
    /\ UNCHANGED <<podVars, copy, sentinelVars, counted, operatorVars, stops>>

(***************************************************************************)
(* CheckAndHeal.                                                           *)
(***************************************************************************)
EndRound == pc' = "idle" /\ todo' = {} /\ master' = Nobody

\* The informer on the StatefulSet; a pod that is stopping still counts as ready.
SyncStatefulSet ==
    /\ counted # (ready = Ordinals) /\ counted' = (ready = Ordinals)
    /\ UNCHANGED <<podVars, redisVars, sentinelVars, operatorVars, stops>>

CheckRedisNumber ==
    /\ pc = "idle" /\ counted
    /\ pc' = "count"
    /\ UNCHANGED <<podVars, redisVars, sentinelVars, counted, todo, master, stops>>

GetNumberMasters ==
    /\ pc = "count"
    /\ \/ Masters = {} /\ pc' = "oldest" /\ UNCHANGED <<todo, master>>
       \/ Cardinality(Masters) = 1 /\ pc' = "find" /\ UNCHANGED <<todo, master>>
       \/ Cardinality(Masters) > 1 /\ EndRound
    /\ UNCHANGED <<podVars, redisVars, sentinelVars, counted, stops>>

\* Faulty variant: the newest first.
BeforeNewest(r, q) == born[r] > born[q]

\* r comes before q in the sort of SetOldestAsMaster.
Before(r, q) == born[r] < born[q]

\* SetOldestAsMaster
MakeOldestMaster ==
    /\ pc = "oldest"
    /\ IF Running = {} THEN EndRound /\ UNCHANGED redisVars
       ELSE \E r \in Running :
                /\ \A q \in Running \ {r} : Before(r, q)
                /\ link' = [link EXCEPT ![r] = Nobody]
                /\ copy' = [copy EXCEPT ![r] = IF @ = "fresh" THEN "empty" ELSE @]
                /\ master' = Addr(r) /\ todo' = RunningAddrs \ {Addr(r)}
                /\ pc' = "others"
    /\ UNCHANGED <<podVars, sentinelVars, counted, stops>>

\* Its other redises, or the loop of SetMasterOnAll.
MakeSlaveOf ==
    /\ pc \in {"others", "setAll"}
    /\ \/ todo = {} /\ pc' = (IF pc = "others" THEN "find" ELSE "monitor") /\ UNCHANGED <<link, todo>>
       \/ \E r \in Running :
              /\ Addr(r) \in todo /\ todo' = todo \ {Addr(r)}
              /\ link' = [link EXCEPT ![r] = IF Addr(r) = master THEN Nobody ELSE master]
              /\ UNCHANGED pc
    /\ UNCHANGED <<podVars, copy, sentinelVars, counted, master, stops>>

\* Faulty variant: goes on without a master.
GetMasterIPAny ==
    /\ pc = "find"
    /\ master' = IF Masters = {} THEN Nobody ELSE Addr(CHOOSE r \in Masters : TRUE)
    /\ pc' = "check" /\ UNCHANGED todo
    /\ UNCHANGED <<podVars, redisVars, sentinelVars, counted, stops>>

GetMasterIP ==
    /\ pc = "find"
    /\ \/ Cardinality(Masters) # 1 /\ EndRound
       \/ \E r \in Ordinals :
              /\ Masters = {r} /\ master' = Addr(r) /\ pc' = "check" /\ UNCHANGED todo
    /\ UNCHANGED <<podVars, redisVars, sentinelVars, counted, stops>>

\* Faulty variant: a redis that still has the address it was started with passes.
CheckAllSlavesFromMasterLax ==
    /\ pc = "check"
    /\ IF \A r \in Running : link[r] \in {Nobody, master, Loop}
       THEN pc' = "monitor" /\ UNCHANGED todo
       ELSE pc' = "setAll" /\ todo' = RunningAddrs
    /\ UNCHANGED <<podVars, redisVars, sentinelVars, counted, master, stops>>

CheckAllSlavesFromMaster ==
    /\ pc = "check"
    /\ IF \A r \in Running : link[r] \in {Nobody, master}
       THEN pc' = "monitor" /\ UNCHANGED todo
       ELSE pc' = "setAll" /\ todo' = RunningAddrs
    /\ UNCHANGED <<podVars, redisVars, sentinelVars, counted, master, stops>>

\* The loops over the sentinels: another master to monitor, ...
CheckSentinelMonitor ==
    /\ pc = "monitor" /\ pc' = "slaves"
    /\ IF mon = master THEN UNCHANGED sentinelVars
       ELSE mon' = master /\ slaves' = {} /\ forced' = FALSE
    /\ UNCHANGED <<podVars, redisVars, counted, todo, master, stops>>

\* ... and SENTINEL RESET when the number of slaves is wrong.
CheckSentinelSlaves ==
    /\ pc = "slaves" /\ EndRound
    /\ IF Cardinality(slaves) = Size - 1 THEN UNCHANGED sentinelVars
       ELSE slaves' = {} /\ forced' = FALSE /\ UNCHANGED mon
    /\ UNCHANGED <<podVars, redisVars, counted, stops>>

\* A call to a pod that is gone fails.
CallFailed ==
    /\ \E a \in todo : ~Live(a)
    /\ EndRound
    /\ UNCHANGED <<podVars, redisVars, sentinelVars, counted, stops>>

Operator ==
    \/ CheckRedisNumber \/ GetNumberMasters \/ MakeOldestMaster \/ MakeSlaveOf
    \/ GetMasterIP \/ CheckAllSlavesFromMaster
    \/ CheckSentinelMonitor \/ CheckSentinelSlaves \/ CallFailed

Next ==
    \/ UpdateStatefulSet \/ SyncStatefulSet \/ Operator \/ DiscoverSlaves \/ AbortFailover
    \/ \E r \in Ordinals :
           \/ RollPod(r) \/ Evict(r) \/ CreatePod(r) \/ PodReady(r) \/ Replicate(r)
           \/ AskMaster(r) \/ ForceFailover(r) \/ Kill(r)
           \/ Failover(r) \/ Reconfigure(r)

Spec == Init /\ [][Next]_vars

(***************************************************************************)
(* Rounds, informer, controller, kubelet, replication and the sentinels'   *)
(* periodic work go on.  Nothing forces an update, an eviction or a        *)
(* failover.                                                               *)
(***************************************************************************)
Fairness ==
    /\ WF_vars(Operator) /\ WF_vars(SyncStatefulSet) /\ WF_vars(DiscoverSlaves)
    /\ \A r \in Ordinals :
           /\ WF_vars(CreatePod(r)) /\ WF_vars(PodReady(r)) /\ WF_vars(Replicate(r))
           /\ WF_vars(Kill(r)) /\ WF_vars(Reconfigure(r))
FairSpec == Spec /\ Fairness
----------------------------------------------------------------------------
(***************************************************************************)
(* Properties.                                                             *)
(***************************************************************************)
\* Every variable has the shape the code gives it.
TypeOK ==
    /\ pod \in [Ordinals -> {"up", "ask", "failover", "gone"}]
    /\ born \in [Ordinals -> Births]
    /\ ready \subseteq Ordinals /\ updating \in BOOLEAN /\ updated \subseteq Ordinals
    /\ link \in [Ordinals -> Address \cup {Nobody, Loop}]
    /\ copy \in [Ordinals -> {"fresh", "data", "empty"}]
    /\ mon \in Address /\ slaves \subseteq Address /\ forced \in BOOLEAN
    /\ counted \in BOOLEAN
    /\ pc \in {"idle", "count", "oldest", "others", "find", "check", "setAll", "monitor", "slaves"}
    /\ todo \subseteq Address /\ master \in Address \cup {Nobody}
    /\ stops \in 0 .. Stops

\* Some redis holds the data, however scripts, failovers, the sentinels and the
\* operator's choice of a master interleave with pods that come and go.
DataSurvives == \E r \in Running : copy[r] = "data"

\* A redis is only ever made master with the data in it, by the sentinels, by
\* SetOldestAsMaster, or by SetMasterOnAll from an address read some steps ago;
\* an empty master would wipe the copies of all that follow it.
MastersHoldData == \A r \in Masters : copy[r] = "data"

\* Once pods are no longer stopped, all of them come to hold the data again and
\* follow one master, or more than one master is left to be fixed by hand.
EventuallyReplicated ==
    <>[](\/ Cardinality(Masters) > 1
         \/ /\ Running = Ordinals /\ \A r \in Ordinals : copy[r] = "data"
            /\ \E m \in Ordinals : /\ Masters = {m} /\ mon = Addr(m)
                                   /\ \A r \in Ordinals \ {m} : link[r] = Addr(m))
============================================================================
