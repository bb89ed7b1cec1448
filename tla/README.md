# Verification of the cndb-redis operator

cndb-redis is a Kubernetes operator. It watches `RedisSentinel` and
`RedisStandalone` custom resources (CRs), creates the StatefulSets, services and
config maps they need, and repairs the replication of the running redises and
what the sentinels know about it. This directory holds TLA+ models of the
operator, TLC configurations that check them on small instances, and TLAPS
proofs. `PROJECT.json` maps every definition to source lines and lists the
runs, mutants, hazards and theorems.

## 1. The system

| component | state | operations | interacts with |
|---|---|---|---|
| `RedisSentinelReconciler`, `SentinelHandler` | none between rounds; per round: the fetched object `rc`, `meta` | `Reconcile`, `Do`, `updateStatus`, `Ensure`, `CheckAndHeal` | called by the work queue (one round per key at a time); reads informers, writes the API server |
| `MetaMap` | per CR: last object, state (create/update/check), status, password | `Cache`, `Update`, `Del` | shares pointers with the fetched object |
| resources (`service/client.go`, `generator.go`) | StatefulSets, services, config maps, disruption budgets at the API server | `Ensure...` | compared in informer copies, replaced at the server |
| healer and checker (`service/check.go`, `heal.go`) | none | counts, `SetOldestAsMaster`, `SetMasterOnAll`, `NewSentinelMonitor`, `RestoreSentinel` | calls to redises and sentinels, which change on their own |
| status conditions | list in the CR; stamps only in memory | `Set...Condition`, `DescConditionsByTime`, `UpdateSentinelStatus` | its head steers `Do` and the e2e tests |
| validation | none | `Validate` | writes defaults back through `UpdateSentinelSpec` |
| `RedisStandalone` loop | its own MetaMap; the services, config maps and StatefulSet of one redis | as above, and `setRedisConfig` in every round | as above; CONFIG GET and SET at the redis |
| scripts and probes in the generated StatefulSets | the data of the redises, on emptyDir volumes | preStop: ask the sentinels, save, SENTINEL failover; readiness: ping | run by the kubelet while the healer and the sentinels act |
| predicates and metrics | one health gauge per namespace and name, for both kinds | `SetClusterOK`, `SetClusterError`, `DeleteCluster` | set by rounds, removed by the delete event in another goroutine |
| `ParseRedisMemConf` | none | amount of memory to bytes | must agree with what redis computes, or every round sends CONFIG SET |
| recorded events, other utilities, `main` | none | | output, wiring |

What is hard here: a round is a sequence of calls, and a user, a failover, the
StatefulSet controller, the garbage collector, the informers and a crash act
between any two of them; two loops share names, and a StatefulSet stops pods by
rules that know nothing of replication; reads come from caches that lag behind the operator's
own writes; objects are shared by pointer and overwritten by the answers to
writes; calls fail half way; the healer and Redis Sentinel both promote masters.
`PROJECT.json` lists these hazards at their lines.

What makes each component correct: the reconcile loop must never overwrite a
user's edit, never act on or report about another version than it fetched, never
deploy what `Validate` refuses, and in the end deploy the last valid spec
and report it; the MetaMap must not go back in time; the healer must converge to one
master and never add one, and its choices must not destroy the last copy of the
data; two CRs in one namespace must not take each other's objects away for good;
the list of conditions must be ordered by recency; a
standalone redis must come to run with its configuration, whichever of the two
ways (config map, CONFIG SET) brings it.

## 2. Modules

| module | models | built on |
|---|---|---|
| `SentinelReconcile` | `Reconcile`, `Do`, MetaMap, the API server, informers, users, Kubernetes | |
| `SentinelHeal` | `CheckAndHeal`, call by call, against redises and sentinels | |
| `StandaloneReconcile` | `RedisStandalone`: `Reconcile`, `Do`, `Ensure` object by object, the configuration of the redis | `RedisMemory` |
| `RedisMemory` | `ParseRedisMemConf` and the redis function it imitates | |
| `SharedNamespace` | both loops in one namespace: objects by name, owners, events, queue, gauge | |
| `RollingUpdate` | rolling update, scripts, failover and `CheckAndHeal` against the data | |
| `StatusRecency` | abstract list of conditions | |
| `StatusConditions` | the list with its stamps; implements `StatusRecency` | `StatusRecency` |
| `...Proofs` | theorems about the module of that name (section 4); `StandaloneReconcileProofs` has those about `RedisMemory`, too | the module |
| `MC...` | instances for TLC | |

**SentinelReconcile.** `pc` is the step of the one worker that has the key.
`ReconcileNotFound` ... `SetReady` are the steps of `Do` in their order; every
call to the API server or to the nodes is one step, since that is where others
interleave. `rc` is the fetched object, `meta` the MetaMap entry, `aliased` says
that `meta.Obj` and `rc` are one pointer, which decides what the answer to a
status write overwrites (`Status().Update` decodes into the object it was
given). A resourceVersion is only ever compared with the server's, so a copy
carries `fresh` instead of a number. Generations and UIDs are kept, as the code
compares (or fails to compare) them. `Refused` is a conflict, a missing object
or a fault; `...Lost` is a write whose answer is lost. `queued` stays true after
every result but "not found", because `Reconcile` requeues in all other cases.
Of `CheckAndHeal` this module keeps the pod counts, the password and
`setSentinelConfig`; the calls in between are the module `SentinelHeal`.

**SentinelHeal.** One loop of `CheckAndHeal` lists the pods and then visits them
in any order (`todo`). An address is a pod and its time of birth, so a restarted
pod has a new address and calls to the old one fail. Errors of the checks are
answered like mismatches, as in the code; errors of the heal calls end the round
(`CallFailed`), half-way failures of `MonitorRedis` included
(`MonitorRedisFails`). The nodes act on their own: `DiscoverSlaves`,
`DiscoverPeers`, `Failover`, restarts. A pod that is not running is modelled as
already replaced; `setRedisConfig` changes nothing these properties speak of and
is left out; the special case of one running redis is the same step as
`SetOldestAsMaster` with no others. Two history variables record what happened in the
round: `quiet`, that nobody but the healer changed a node (since the choice of a
master, if the round made one), and `promoted`, that the sentinels promoted a redis.
No action depends on them.

**StandaloneReconcile.** The copies of the CR are modelled as in
`SentinelReconcile`; here the CR is never deleted and has no password. `Ensure`
is one step per object (`Order`, `at`): an object the informer has is left as it
is, so the config map (`file`) keeps the configuration it was created with.
`CheckRedisConfig` lists the redis, which may be missing from the informer
(`podInf = "none"`, the code then does nothing) or already be gone (the error is
answered like a mismatch), and compares the amounts of memory after
`ParseRedisMemConf`; `SetCustomRedisConfig` sets one parameter per step in any
order and stops at the first error. `conn` remembers that the redis of this
round still lives. `Bad` are the words a redis refuses; amounts are
those of `RedisMemory`. The exporter stands for all fields
`EnsureRedisStatefulset` compares. A shutdown config map named by the user is
only read and is left out.

**RedisMemory.** A value is a word or a number with its unit. The operator
multiplies in int64, which wraps, and so does redis; the two units of each power
(`k` is 1000, `kb` 1024) are the trap. TLC computes with 32 bits, so the run scales
the machine down: `Kilo` 10, `Kibi` 16, `Modulus` 65536 instead of 1000, 1024 and
2^64; the products still wrap, to negative amounts, too, which redis refuses.
Digits that do not fit an int64 are left out (`ParseInt` fails on them).

**SharedNamespace.** The objects of `Ensure` are pairs of kind and generated name,
in three parts: those before the shared ones, the shared one, those after.
`PartsAssumption` states what makes it sound to take the first and the last part
in one step. `objs` carries owner references, which is all the garbage collector
looks at; `seen` is the informer, kept for shared objects only, as no other actor
creates the rest. Publishing a verdict and setting the gauge are two steps; the
predicates of the informer (`CreateEvent`, `DeleteEvent`) run between them. A
deletion that the watch missed arrives as a tombstone, which the predicate
refuses. Field comparison, specs and validation are in the two modules above;
here a CR has no fields but its kind, its name and its exporter. The contents of
a shared object are those of its creator and are not modelled.

**RollingUpdate.** A pod is up, in its preStop script (`ask`, `failover`) or gone;
its redis runs until the script ends or the grace period does (`Kill`). A redis
holds `data`, nothing yet (`fresh`), or has been made master without data
(`empty`), and loads what its master holds. `Good` is a slave the
sentinels may promote: known, answering, once in sync. The reads of `CheckAndHeal`
are one step each and its writes one per redis; the sentinels are one group that
agrees (`SentinelHeal` has them one by one). Creation timestamps are distinct,
because pods are created one after another and readiness takes 30 seconds. The
pods the operator lists are taken to be those that exist. Not modelled: claimed
volumes (the defaults are emptyDir), restarts of a container in its pod,
replication lag, the disruption budget.

**StatusConditions.** Two objects in memory, each with its list; a fetch loses
all stamps; the decoder of a write answer may keep or lose them (both are
allowed). The list implements `StatusRecency`, in which setting a condition
moves it to the front and what was before it back by one: that justifies that `SentinelReconcile` keeps only the
head.

## 3. Runs

Passing runs (every action and disjunct fires in them):

| run | question | instance |
|---|---|---|
| `ReconcileEdit` | copies in order, no lost edit, current verdicts, minima; the numbers of redises and sentinels of the last valid spec come to run, and Healthy is reported | 4 specs (one that needs defaults, two that scale, one invalid), one edit, one fault |
| `ReconcileLife` | nothing is left of a deleted CR | 2 specs, one delete and re-creation, one restart of the operator |
| `Heal` | a failover between the count and the choice of a master is made good; an undisturbed successful round converges; no second master; convergence, rounds keep succeeding | 3 redises, 2 sentinels, 2 disturbances (restarts or failed calls), no password |
| `Rolling` | the data survives, every master holds it, and all redises hold it again in the end | 3 redises, 2 stops by update or eviction, at any time and at once |
| `Namespace` | a namesake's deletion takes nothing that is not shared; all objects there, nothing else left, the gauge tells the truth in the end | a RedisSentinel and a RedisStandalone of one name, one with exporter; one deletion, one fault |
| `StandaloneLive` | objects complete, configuration reaches the redis and is then left alone, Healthy is true and is reached | one spec that needs defaults, one edit of any field (to a refused value, an invalid size and amounts that wrap, too), one fault, pod failure, deletion of the StatefulSet or restart |
| `Conditions` | refinement of `StatusRecency`, one entry per type | 3 types, 2 objects, 5 writes |

The bounds: one edit suffices to race with every step of a round, and the spec
before it needs defaults, so the operator's own spec write is a second
generation; one fault may hit any call. Two disturbances let a failover follow
a restart and a call fail on top. `SentinelHeal` has no arithmetic beyond
counting nodes; two sentinels already form a quorum that can lose one member.
`Stops` is one below `Size`, the number of losses N copies should bear; that
N losses are too many even in an orderly update is the run `RollingData`. In
`Namespace` one deletion suffices, since a deleted CR does not come back there
(`ReconcileLife` has that case) and the other one must stay for there to be
anything to observe.
`EventuallyScaled`, `EventuallyHealthy` and `NoLostUserEdit` speak of specs that
`Validate` accepts. `EventuallyScaled` is about the numbers of redises and sentinels
only: the run also edits the image, and an image edited alone, or together with
sizes that are already there, is never deployed (see the smaller disagreements). `EventuallyConverged`, `RoundsKeepSucceeding` and
`EventuallyReplicated` except more than one master, where the code says "fix
manually" and does nothing: that state can be reached and can last. A failover
between the count of masters and `SetOldestAsMaster` does not lead there if it comes
before the loop over the other redises visits the promoted one
(`QuietRoundHasOneMaster`); if it comes after, two masters remain.

Violation runs: each shows on a smallest instance that the code does not do what
a comment or a test of it says (see `findings`).

| run | shows |
|---|---|
| `ReconcilePassword` | a password change reaches the pods through the answer to a status write |
| `ReconcileConfig` | the sentinels' custom configuration is lost when an Update round ends early |
| `ReconcileRecreate` | a re-created CR keeps the numbers of redises and sentinels of the deleted one |
| `RollingData` | a rolling update without any fault loses the data: a new pod is ready when it answers a ping, and the operator makes it a slave only when all pods are ready |
| `HealAuth` | a failed `SET auth-pass` is never repeated and blocks all rounds |

Smaller disagreements that follow from single lines and have no run:
`CheckSentinelNumber` failing ends a round with `return nil`
(`redissentinel_handler.go:177`), so Healthy is said with a wrong number of
sentinels; persistence disabled once stays disabled, because `Validate` writes its
defaults into the user's configuration and does not replace them
(`api/v1alpha1/util.go:15`); `GetStatefulSetPods` selects by labels that a
RedisSentinel and a RedisStandalone of one name share, so the healer counts and
relinks the other's redis; the gauge of a deleted CR can be set again by the round
that is under way, and the RedisStandalone loop never removes its own; the shared
shutdown config map has the script of whichever kind came first; a CR name with a
"-" does not give the environment variable that the script reads; after as many
stops as there are pods `SetOldestAsMaster` may prefer an older, empty redis to a
newer one with the data; the disruption budget asks for two ready pods, not for
two in sync; the e2e test that changes resources changes copies of the
quantities; the MetaMap announces "Upgrading to %s"
(`redissentinel/cache/cahce.go:123`) for an edited image, which
`EnsureRedisStatefulset` does not compare (`redissentinel/service/client.go:121`),
so that it waits for the next change of the number, the resources or the exporter;
`Validate` "set[s] the values by default if not defined"
(`api/v1alpha1/redissentinel_validate.go:16`) but overwrites a `slave-priority` of
the user (line 51); a first condition whose write
fails is not sent again; `CheckAndHeal` compares only the numbers of slaves and
sentinels in memory and may return right after a reset; conditions are never
cleared, so the printed column HEALTHY stays True after a failure;
`LastTransitionTime` changes with the message; after an edit and an edit back a
stale informer copy can match the spec, so Healthy is said with another number
of redises at the server; a value redis refuses that gets into the config map at
creation stays there, so correcting the spec does not let the pod start
(`StandaloneLive` therefore starts from a spec redis can run with and has one
edit).

Deadlock is checked in all runs but `ReconcileLife`, `ReconcileRecreate` and
`Namespace`, where deleted CRs leave nothing to do.

**Fairness.** `SentinelReconcile`: weak fairness of the operator's next step (the
queue hands out every key again, all results requeue), of each informer, of the
StatefulSet controller and of the garbage collector. `SentinelHeal`: weak
fairness of the operator (rounds follow rounds) and of the discovery of each
sentinel, which is periodic in Redis Sentinel. Users, faults, restarts and
failovers are never forced. `StandaloneReconcile`: as for `SentinelReconcile`.
`SharedNamespace`: the same, for the worker of each key, and each event handler.
`RollingUpdate`: weak fairness of the operator, the informer, the StatefulSet
controller and kubelet (pods are created, become ready, and are killed when the
grace period ends), of replication and of the sentinels' periodic discovery and
reconfiguration; not of updates, evictions or failovers, nor of the success of a
script.

## 4. Proofs

Six modules hold theorems. They hold for every value of the constants that
satisfies the named assumptions of the modules; the runs check the same
definitions on small instances.

| theorem | of | states |
|---|---|---|
| `TypeCorrect` | all but `StatusConditions` | `TypeOK` |
| `MinimumAlwaysDeployed`, `CopiesStayInOrder`, `RoundsActOnFetchedSpec`, `CacheStaysComplete` | `SentinelReconcile` | `MinimumDeployed`, `CopiesInOrder`, `RoundActsOnFetchedSpec`, `CacheComplete` |
| `UserEditsSurvive`, `VerdictsAreCurrent`, `CacheNeverGoesBack` | `SentinelReconcile` | the action properties `NoLostUserEdit`, `VerdictForCurrentSpec`, `NoSpecRollback` |
| `QuietRoundsHaveOneMaster`, `QuietRoundsConverge`, `HealerAddsNoMaster` | `SentinelHeal` | `QuietRoundHasOneMaster`, `QuietRoundConverges`, and the action property `NoSecondMaster` |
| `DataAlwaysSurvives`, `MastersAlwaysHoldData` | `RollingUpdate` | `DataSurvives`, `MastersHoldData` |
| `HealthyMeansConfigured` | `StandaloneReconcile` | the action property `HealthyIsConfigured` |
| `ParseIsMemtoll` | `RedisMemory` | `ParseRedisMemConf` and redis agree on every amount |
| `OneEntryAlways`, `ListImplementsRecency` | `StatusConditions` | `OneEntryPerType`, and the refinement `ListedByRecency` |
| `LiveObjectsAlwaysStay` | `SharedNamespace` | the action property `LiveObjectsStay` |

Every proof has the same frame: an inductive invariant `IInv`, a lemma that the
initial states satisfy it, lemmas for the actions of one kind, one lemma with a
case for each action, and a last step by temporal logic.

**SentinelReconcileProofs**, for all sets of specs, images and passwords, all
minima and all budgets (`SpecsAssumption`, `ImagesAssumption`, `MinAssumption`,
`BudgetAssumption`). No property is inductive alone. `IInv` adds what each rests
on: `FreshCopies` (an object whose resourceVersion matches is the server's
generation, and an object about to be written back has the server's spec with
defaults), `AliasedCopies` (a shared object is one version) and `Blank` (the
object that stands for none). For example, that the cache never goes back needs
that no copy is ahead of the server and that the cache is not ahead of the
informer, which needs that a status write was accepted only from a fresh object.

**SentinelHealProofs**, for all finite, disjoint, nonempty sets of redises and
sentinels, with and without a password, and any number of disturbances
(`NodesAssumption`, `SettingAssumption`, `AddressAssumption`). What an undisturbed
round has established depends on the loop it is in and on the pods that loop has
visited; `RoundInv` says it loop by loop (masters found so far, who follows the
master, which sentinels monitor it) and each loop's last step hands it on to the
next. It is only required while `quiet`, since a disturbance may undo anything.
That the number of masters found is the number of masters needs that distinct
pods have distinct addresses. `HealerAddsNoMaster` is not restricted to quiet rounds,
so pods may be replaced at any step: `CountedInv` says what survives that (a master
the count has passed was counted, a round that counted none has none, and one that
chose a master has no other), because a restarted redis follows nobody real and is
not a master. `AllListed` (`SetOldestAsMaster` begins with all redises listed, so that its
loop can only end well if it visited each of them, one promoted in the meantime
included) and `MasterKnown` (redises are only told to follow a known address) hold in
every round.

**RollingUpdateProofs**, for every `Size` (`SizeAssumption`, `AddressAssumption`).
The two theorems about data assume `Stops < Size`; `RollingData` shows that they are
false without it. `StopsCounted` pays for every pod that was stopped, so one pod
from the beginning is always up. `OldHoldData` and `BirthsGoOn` say that such pods
hold the data and are older than those created later: the oldest redis, which
`SetOldestAsMaster` takes, has the data, and `NobodyEmpty` follows. For
`MastersHoldData` the address that `CheckAndHeal` carries from step to step matters:
`MasterWasBorn` and `MasterHoldsData` say that it is of a pod that is gone for good
or of one with the data, and `StartedAsSlave` that a new redis is not a master.

**StandaloneReconcileProofs**, for all parameters, values, specs, images, budgets
and widths (`ParamsAssumption`, `SpecsAssumption`, `BudgetAssumption`,
`MemoryAssumption`). `TypeOK` is not inductive: a parameter that
`SetCustomRedisConfig` still has to set must be in the cached spec (`TodoListed`).
`HealthyIsConfigured` needs `CopiesOk` (the cached object is of the fetched
generation, and a fresh one of the server's), `SetSoFar` (what redis
understands of the cached spec is set, but for what the loop has still to do) and `ConnOk` (the redis it was set
on still lives). It speaks of status writes, which leave the generation alone: with
two edits a user's write can leave an old Healthy in place, and the theorem does
not hold of that. `ParseIsMemtoll` holds for 1000, 1024 and 2^64 in particular,
where TLC can only check a machine of 16 bits.

**StatusConditionsProofs**, for every set of types and of copies, and any clock
(`ClockAssumption`). `IInv` says that every list, whichever stamps it has kept, is
sorted by them, and that none is ahead of the clock. Then the condition just set
is the only one out of place, and the sort, which leaves equal stamps in their
order, brings it to the front and moves nothing else: setting a condition is `Set`
of `StatusRecency`, and a fetch is a fetch.

**SharedNamespaceProofs**, for every set of CRs of the two kinds (`CRsAssumption`,
`BudgetAssumption`, `PartsAssumption`). `Owned` says that a stored object is owned by
a CR that needs it; the garbage collector, which looks at owners only, therefore
takes from a live CR nothing but what it shares with a deleted one.

Only model-checked: the liveness properties (`Eventually...`, `ConfigSettles`,
`RoundsKeepSucceeding`), which are out of the prover's reach, and the violation
runs. Every invariant and action property of the passing runs is proved.

## 5. Not modelled, and the plan

What remains for proofs:

1. Safety halves of the liveness properties: what a step on the way to
   `EventuallyRunsConfig` or `EventuallyAllPresent` never undoes.
2. `SharedNamespace`: that the entries of the MetaMap and the gauge have a CR or an
   event that will remove them, the safety part of `EventuallyNothingElse`.
3. `RollingUpdate`, beyond the bound: which stops lose the data, as an invariant
   that names the redises in sync.

Not modelled: claimed volumes; names that collide by their suffixes (a CR called
`x-standalone`); `ShouldManage` and the namespaces of the manager, which select what
is watched at all; `SENTINEL SET` of single parameters; `pkg/client/k8s` wrappers
no controller calls (deployments, namespaces, deletes), `ClearCondition`,
`EnsureRedisConfigMap` and `EnsureNotPresentRedisService`, which are unused.
Left out for good: generated deep copies, labels, affinity and security
contexts (passed through), logging, recorded events (output only), manager flags
(the manifests run one replica with leader election).
