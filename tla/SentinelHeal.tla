---------------------------- MODULE SentinelHeal ----------------------------
(***************************************************************************)
(* SentinelHandler.CheckAndHeal, from the count of masters to the last     *)
(* check of the sentinels, against live redises and sentinels.             *)
(*                                                                         *)
(* Every call to a node is a step of its own, so restarts of pods,         *)
(* failovers and the discovery of the sentinels happen between any two of  *)
(* them.  A restarted pod has a new address.  An address is the pod and    *)
(* the moment it was born, which is also its creation timestamp.           *)
(***************************************************************************)
EXTENDS Naturals, FiniteSets

CONSTANTS
    Redises, Sentinels,
    Nobody,      \* no address: the "master" of a master, or a removed monitor
    Loop,        \* 127.0.0.1, what redises and sentinels are started with
    Password,    \* whether the CR has a password
    Disturbances \* how many restarts and failed calls may happen

ASSUME NodesAssumption ==
    /\ IsFiniteSet(Redises) /\ Redises # {}
    /\ IsFiniteSet(Sentinels) /\ Sentinels # {}
    /\ Redises \cap Sentinels = {}
ASSUME SettingAssumption == Password \in BOOLEAN /\ Disturbances \in Nat

Pods == Redises \cup Sentinels
Address == Pods \X (0 .. Disturbances)

ASSUME AddressAssumption ==
    Nobody \notin Address /\ Loop \notin Address /\ Nobody # Loop

VARIABLES
    born,    \* when each pod was created
    link,    \* the address each redis replicates from
    mon,     \* the address each sentinel monitors
    auth,    \* the sentinels that have auth-pass set for what they monitor
    slaves,  \* the slaves each sentinel has in memory
    peers,   \* the sentinels each sentinel has in memory, itself included
    pc,      \* the loop of CheckAndHeal that is running
    todo,    \* the addresses this loop has still to visit
    found,   \* the masters this loop has found, or the sentinel it waits for
    master,  \* the local variable master (newMasterIP in SetOldestAsMaster)
    quiet,   \* nobody else has changed a node since this round began or chose a master
    promoted,\* the sentinels have promoted a redis in this round
    budget   \* disturbances left

sentinelVars == <<mon, auth, slaves, peers>>
nodeVars == <<born, link, mon, auth, slaves, peers>>
localVars == <<pc, todo, found, master>>
historyVars == <<quiet, promoted>>
vars == <<born, link, mon, auth, slaves, peers, pc, todo, found, master,
          quiet, promoted, budget>>

Steps == {"count", "oldest", "others", "find", "check", "setAll",
          "monitor", "slaves", "wait", "peers", "done"}

Addr(p) == <<p, born[p]>>
Live(a) == a \in Address /\ a = Addr(a[1])
AddrsOf(pods) == {Addr(p) : p \in pods}

Masters == {r \in Redises : link[r] = Nobody}

Init ==
    /\ born = [p \in Pods |-> 0]
    /\ link = [r \in Redises |-> Loop]
    /\ mon = [s \in Sentinels |-> Loop]
    /\ auth = Sentinels
    /\ slaves = [s \in Sentinels |-> {}]
    /\ peers = [s \in Sentinels |-> {Addr(s)}]
    /\ pc = "count" /\ todo = AddrsOf(Redises) /\ found = {} /\ master = Nobody
    /\ quiet = TRUE /\ promoted = FALSE
    /\ budget = Disturbances

(***************************************************************************)
(* Control of the loops.  A loop lists the pods once, then visits them.    *)
(***************************************************************************)
Goto(step, addrs) == pc' = step /\ todo' = addrs /\ found' = {}

\* CheckAndHeal ends; the next round starts from the beginning.
NewRound == Goto("count", AddrsOf(Redises)) /\ master' = Nobody /\ quiet' = TRUE /\ promoted' = FALSE

\* A call to the next address of the list reaches the node p.
Reach(p) == Addr(p) \in todo /\ todo' = todo \ {Addr(p)}

\* A call fails: its pod is gone, or for another reason.
Fails ==
    \/ (\E a \in todo : ~Live(a)) /\ UNCHANGED budget
    \/ budget > 0 /\ budget' = budget - 1

(***************************************************************************)
(* GetNumberMasters, the switch on its result, and GetMasterIP, which asks *)
(* every redis again.                                                      *)
(***************************************************************************)
IsMaster ==
    /\ pc \in {"count", "find"}
    /\ \E r \in Redises :
           /\ Reach(r)
           /\ found' = IF link[r] = Nobody THEN found \cup {Addr(r)} ELSE found
    /\ UNCHANGED <<nodeVars, pc, master, historyVars, budget>>

\* Faulty variant: one master is treated like none.
GetNumberMastersOffByOne ==
    /\ pc = "count" /\ todo = {}
    /\ \/ /\ Cardinality(found) <= 1
          /\ Goto("oldest", AddrsOf(Redises)) /\ UNCHANGED <<master, historyVars>>
       \/ /\ Cardinality(found) > 1
          /\ NewRound
    /\ UNCHANGED <<nodeVars, budget>>

GetNumberMasters ==
    /\ pc = "count" /\ todo = {}
    /\ \/ /\ Cardinality(found) = 0
          /\ Goto("oldest", AddrsOf(Redises)) /\ UNCHANGED <<master, historyVars>>
       \/ /\ Cardinality(found) = 1
          /\ Goto("find", AddrsOf(Redises)) /\ UNCHANGED <<master, historyVars>>
       \/ /\ Cardinality(found) > 1     \* "more than one master, fix manually"
          /\ NewRound
    /\ UNCHANGED <<nodeVars, budget>>

\* Faulty variant: takes the first of several masters, or none.
GetMasterIPAny ==
    /\ pc = "find" /\ todo = {}
    /\ master' = IF found = {} THEN Loop ELSE CHOOSE a \in found : TRUE
    /\ Goto("check", AddrsOf(Redises)) /\ UNCHANGED historyVars
    /\ UNCHANGED <<nodeVars, budget>>

GetMasterIP ==
    /\ pc = "find" /\ todo = {}
    /\ \/ \E a \in found :
              /\ found = {a} /\ master' = a
              /\ Goto("check", AddrsOf(Redises)) /\ UNCHANGED historyVars
       \/ Cardinality(found) # 1 /\ NewRound
    /\ UNCHANGED <<nodeVars, budget>>

(***************************************************************************)
(* SetOldestAsMaster.  Creation timestamps may be equal, and the sort is   *)
(* not stable.                                                             *)
(***************************************************************************)
MakeOldestMaster ==
    /\ pc = "oldest"
    /\ \E r \in Redises :
           /\ Reach(r)
           /\ \A a \in todo : born[r] <= a[2]
           /\ link' = [link EXCEPT ![r] = Nobody]
           /\ master' = Addr(r)
    /\ pc' = "others"
    /\ quiet' = TRUE
    /\ UNCHANGED <<born, sentinelVars, found, promoted, budget>>

\* Faulty variant: a redis that is a master by now is left alone.
MakeOthersSlavesSkips ==
    /\ pc = "others"
    /\ \/ /\ todo = {} /\ Goto("find", AddrsOf(Redises)) /\ UNCHANGED link
       \/ /\ \E r \in Redises :
                 Reach(r) /\ link' = [link EXCEPT ![r] = IF @ = Nobody THEN @ ELSE master]
          /\ UNCHANGED <<pc, found>>
    /\ UNCHANGED <<born, sentinelVars, master, historyVars, budget>>

MakeOthersSlaves ==
    /\ pc = "others"
    /\ \/ /\ todo = {} /\ Goto("find", AddrsOf(Redises)) /\ UNCHANGED link
       \/ /\ \E r \in Redises : Reach(r) /\ link' = [link EXCEPT ![r] = master]
          /\ UNCHANGED <<pc, found>>
    /\ UNCHANGED <<born, sentinelVars, master, historyVars, budget>>

(***************************************************************************)
(* CheckAllSlavesFromMaster stops at the first redis with another master,  *)
(* or at the first error; both are answered by SetMasterOnAll.             *)
(***************************************************************************)
CheckAllSlavesFromMaster ==
    /\ pc = "check"
    /\ \/ todo = {} /\ Goto("monitor", AddrsOf(Sentinels)) /\ UNCHANGED budget
       \/ /\ \E r \in Redises : Reach(r) /\ link[r] \in {Nobody, master}
          /\ UNCHANGED <<pc, found, budget>>
       \/ /\ \E r \in Redises : Addr(r) \in todo /\ link[r] \notin {Nobody, master}
          /\ Goto("setAll", AddrsOf(Redises)) /\ UNCHANGED budget
       \/ Fails /\ Goto("setAll", AddrsOf(Redises))
    /\ UNCHANGED <<nodeVars, master, historyVars>>

\* Faulty variant: only the redises that already are slaves are told.
SetMasterOnAllSkips ==
    /\ pc = "setAll"
    /\ \/ /\ todo = {} /\ Goto("monitor", AddrsOf(Sentinels)) /\ UNCHANGED link
       \/ /\ \E r \in Redises :
                 /\ Reach(r)
                 /\ link' = [link EXCEPT ![r] = IF @ \in Address THEN master ELSE @]
          /\ UNCHANGED <<pc, found>>
    /\ UNCHANGED <<born, sentinelVars, master, historyVars, budget>>

SetMasterOnAll ==
    /\ pc = "setAll"
    /\ \/ /\ todo = {} /\ Goto("monitor", AddrsOf(Sentinels)) /\ UNCHANGED link
       \/ /\ \E r \in Redises :
                 /\ Reach(r)
                 /\ link' = [link EXCEPT ![r] = IF Addr(r) = master THEN Nobody ELSE master]
          /\ UNCHANGED <<pc, found>>
    /\ UNCHANGED <<born, sentinelVars, master, historyVars, budget>>

(***************************************************************************)
(* The three loops over the sentinels.  An error of a check is answered    *)
(* like a mismatch.                                                        *)
(***************************************************************************)
\* SENTINEL RESET drops what the sentinel has learnt about its master.
ResetSentinel(s) ==
    /\ slaves' = [slaves EXCEPT ![s] = {}]
    /\ peers' = [peers EXCEPT ![s] = {Addr(s)}]

\* INFO sentinel says status=ok: the monitored master answers.
IsSentinelReady(s) == Live(mon[s]) /\ (Password => s \in auth)

\* MonitorRedis: SENTINEL REMOVE, SENTINEL MONITOR, then the SETs.
MonitorRedis(s) ==
    /\ mon' = [mon EXCEPT ![s] = master]
    /\ auth' = auth \cup {s}
    /\ ResetSentinel(s)

CheckSentinelMonitor ==
    /\ pc = "monitor"
    /\ \/ /\ todo = {} /\ Goto("slaves", AddrsOf(Sentinels))
          /\ UNCHANGED <<sentinelVars, budget>>
       \/ /\ \E s \in Sentinels :
                 /\ Reach(s)
                 /\ \/ mon[s] = master /\ UNCHANGED <<sentinelVars, budget>>
                    \/ mon[s] # master /\ MonitorRedis(s) /\ UNCHANGED budget
                    \/ MonitorRedis(s) /\ budget > 0 /\ budget' = budget - 1
          /\ UNCHANGED <<pc, found>>
    /\ UNCHANGED <<born, link, master, historyVars>>

\* MonitorRedis fails after REMOVE, or after MONITOR and before SET auth-pass.
MonitorRedisFails ==
    /\ pc = "monitor" /\ budget > 0 /\ budget' = budget - 1
    /\ \E s \in Sentinels :
           /\ Addr(s) \in todo /\ mon[s] # master
           /\ mon' = [mon EXCEPT ![s] = Nobody] \/ mon' = [mon EXCEPT ![s] = master]
           /\ auth' = auth \ {s}
           /\ ResetSentinel(s)
    /\ NewRound
    /\ UNCHANGED <<born, link>>

\* Faulty variant: counts the master as one of its slaves.
SlavesNumberOffByOne(s) == IsSentinelReady(s) /\ Cardinality(slaves[s]) = Cardinality(Redises)

\* CheckSentinelSlavesNumberInMemory
SlavesNumberOk(s) == IsSentinelReady(s) /\ Cardinality(slaves[s]) = Cardinality(Redises) - 1

\* A sentinel with a wrong number of slaves is reset and then waited for.
CheckSentinelSlaves ==
    /\ pc = "slaves"
    /\ \/ /\ todo = {} /\ Goto("peers", AddrsOf(Sentinels))
          /\ UNCHANGED <<sentinelVars, budget>>
       \/ \E s \in Sentinels :
              /\ Reach(s) /\ SlavesNumberOk(s)
              /\ UNCHANGED <<sentinelVars, pc, found, budget>>
       \/ \E s \in Sentinels :
              /\ Reach(s)
              /\ \/ ~SlavesNumberOk(s) /\ UNCHANGED budget
                 \/ budget > 0 /\ budget' = budget - 1
              /\ ResetSentinel(s) /\ pc' = "wait" /\ found' = {Addr(s)}
              /\ UNCHANGED <<mon, auth>>
    /\ UNCHANGED <<born, link, master, historyVars>>

\* waitRestoreSentinelSlavesOK
Waiting(s) == pc = "wait" /\ found = {Addr(s)}

WaitRestoreOk ==
    /\ \E s \in Sentinels : Waiting(s) /\ SlavesNumberOk(s)
    /\ Goto("slaves", todo)
    /\ UNCHANGED <<nodeVars, master, historyVars, budget>>

WaitRestoreTimeout ==
    /\ pc = "wait" /\ ~\E s \in Sentinels : Waiting(s) /\ SlavesNumberOk(s)
    /\ NewRound
    /\ UNCHANGED <<nodeVars, budget>>

\* CheckSentinelNumberInMemory
PeersNumberOk(s) == IsSentinelReady(s) /\ Cardinality(peers[s]) = Cardinality(Sentinels)

\* A wrong number of sentinels is answered with a reset, and nobody waits.
CheckSentinelPeers ==
    /\ pc = "peers"
    /\ \/ todo = {} /\ Goto("done", {}) /\ UNCHANGED <<sentinelVars, budget>>
       \/ /\ \E s \in Sentinels :
                 /\ Reach(s)
                 /\ \/ PeersNumberOk(s) /\ UNCHANGED <<sentinelVars, budget>>
                    \/ /\ \/ ~PeersNumberOk(s) /\ UNCHANGED budget
                          \/ budget > 0 /\ budget' = budget - 1
                       /\ ResetSentinel(s) /\ UNCHANGED <<mon, auth>>
          /\ UNCHANGED <<pc, found>>
    /\ UNCHANGED <<born, link, master, historyVars>>

\* CheckAndHeal has returned nil; the next round begins.
RoundOk ==
    /\ pc = "done" /\ NewRound
    /\ UNCHANGED <<nodeVars, budget>>

\* A call fails whose error is returned.
CallFailed ==
    /\ pc \notin {"check", "wait", "done"} /\ Fails
    /\ NewRound
    /\ UNCHANGED nodeVars

Operator ==
    \/ IsMaster \/ GetNumberMasters \/ GetMasterIP
    \/ MakeOldestMaster \/ MakeOthersSlaves
    \/ CheckAllSlavesFromMaster \/ SetMasterOnAll
    \/ CheckSentinelMonitor \/ MonitorRedisFails
    \/ CheckSentinelSlaves \/ WaitRestoreOk \/ WaitRestoreTimeout
    \/ CheckSentinelPeers \/ RoundOk \/ CallFailed

(***************************************************************************)
(* The nodes themselves.                                                   *)
(***************************************************************************)
\* A sentinel that reaches its master learns the master's slaves from it...
DiscoverSlaves(s) ==
    /\ IsSentinelReady(s) /\ mon[s] \in AddrsOf(Masters)
    /\ slaves' = [slaves EXCEPT ![s] = @ \cup AddrsOf({r \in Redises : link[r] = mon[s]})]
    /\ UNCHANGED <<born, link, mon, auth, peers, localVars, historyVars, budget>>

\* ... and the other sentinels of that master.
DiscoverPeers(s) ==
    /\ IsSentinelReady(s)
    /\ peers' = [peers EXCEPT ![s] = @ \cup AddrsOf({t \in Sentinels : mon[t] = mon[s]})]
    /\ UNCHANGED <<born, link, mon, auth, slaves, localVars, historyVars, budget>>

Disturb == budget > 0 /\ budget' = budget - 1 /\ quiet' = FALSE
Reborn(p) == born' = [born EXCEPT ![p] = 1 + Disturbances - budget]

RestartRedis(r) ==
    /\ Disturb /\ Reborn(r)
    /\ link' = [link EXCEPT ![r] = Loop]
    /\ UNCHANGED <<sentinelVars, localVars, promoted>>

RestartSentinel(s) ==
    /\ Disturb /\ Reborn(s)
    /\ mon' = [mon EXCEPT ![s] = Loop]
    /\ auth' = auth \cup {s}
    /\ slaves' = [slaves EXCEPT ![s] = {}]
    /\ peers' = [peers EXCEPT ![s] = {<<s, born'[s]>>}]
    /\ UNCHANGED <<link, localVars, promoted>>

\* getQuorum
Quorum == Cardinality(Sentinels) \div 2 + 1

\* A quorum of the sentinels has lost the master a and promotes a slave they know.
Failover(a, r) ==
    LET voters == {s \in Sentinels : mon[s] = a /\ Addr(r) \in slaves[s]} IN
    /\ Cardinality(voters) >= Quorum
    /\ link' = [q \in Redises |->
                   IF q = r THEN Nobody
                   ELSE IF \E s \in voters : Addr(q) \in slaves[s] THEN Addr(r) ELSE link[q]]
    /\ mon' = [s \in Sentinels |-> IF s \in voters THEN Addr(r) ELSE mon[s]]
    /\ slaves' = [s \in Sentinels |->
                     IF s \in voters THEN (slaves[s] \ {Addr(r)}) \cup {a} ELSE slaves[s]]
    /\ quiet' = FALSE /\ promoted' = TRUE
    /\ UNCHANGED <<born, auth, peers, localVars, budget>>

Nodes ==
    \/ \E s \in Sentinels : DiscoverSlaves(s) \/ DiscoverPeers(s) \/ RestartSentinel(s)
    \/ \E r \in Redises : RestartRedis(r)
    \/ \E r \in Redises, a \in Address : ~Live(a) /\ Failover(a, r)

Next == Operator \/ Nodes

Spec == Init /\ [][Next]_vars

(***************************************************************************)
(* The reconcile loop starts a round after every round, and sentinels keep *)
(* asking their master and listening to each other.  Nothing forces a      *)
(* failover, a restart or a failed call.                                   *)
(***************************************************************************)
Fairness ==
    /\ WF_vars(Operator)
    /\ \A s \in Sentinels : WF_vars(DiscoverSlaves(s)) /\ WF_vars(DiscoverPeers(s))
FairSpec == Spec /\ Fairness
----------------------------------------------------------------------------
(***************************************************************************)
(* Properties.                                                             *)
(***************************************************************************)
RedisAddress == Redises \X (0 .. Disturbances)
SentinelAddress == Sentinels \X (0 .. Disturbances)

\* Every variable has the shape the code gives it.
TypeOK ==
    /\ born \in [Pods -> 0 .. Disturbances]
    /\ link \in [Redises -> RedisAddress \cup {Nobody, Loop}]
    /\ mon \in [Sentinels -> RedisAddress \cup {Nobody, Loop}]
    /\ auth \subseteq Sentinels
    /\ slaves \in [Sentinels -> SUBSET RedisAddress]
    /\ peers \in [Sentinels -> SUBSET SentinelAddress]
    /\ pc \in Steps
    /\ todo \subseteq Address
    /\ found \subseteq Address
    /\ master \in RedisAddress \cup {Nobody}
    /\ quiet \in BOOLEAN /\ promoted \in BOOLEAN
    /\ budget \in 0 .. Disturbances

\* One master that all other redises replicate from and all sentinels monitor.
Converged ==
    \E m \in Redises :
        /\ link[m] = Nobody
        /\ \A r \in Redises \ {m} : link[r] = Addr(m)
        /\ \A s \in Sentinels : mon[s] = Addr(m)

\* A round that goes on to look for its master finds exactly one, and keeps it,
\* if nobody else changes a node.  When SetOldestAsMaster has chosen a master, only
\* what happens afterwards counts: a redis that the sentinels promoted between the
\* count and the choice is made a slave by the loop over the others.
QuietRoundHasOneMaster ==
    quiet /\ pc \notin {"count", "oldest", "others"} => \E m \in Redises : Masters = {m}

\* If such a round returns nil, all other redises follow this master and all
\* sentinels monitor it, however many calls failed in it and in earlier rounds.
QuietRoundConverges == pc = "done" /\ quiet => Converged

\* The healer adds a master to one that is there only in a round in which the
\* sentinels have promoted one: MakeMaster acts on a count and on a master's
\* address, and pods that are replaced in between never make it harmful.
NoSecondMaster == [][Masters # {} /\ ~promoted' => Masters' \subseteq Masters]_vars

\* Once disturbances end, the nodes converge for good, or the operator leaves
\* more than one master to be fixed by hand.
EventuallyConverged == <>[](Converged \/ Cardinality(Masters) > 1)

\* Rounds keep succeeding, or there is more than one master to be fixed by
\* hand.  MonitorRedis: "the priority is to have the redises monitored".
RoundsKeepSucceeding == []<>(pc = "done" \/ Cardinality(Masters) > 1)
============================================================================
