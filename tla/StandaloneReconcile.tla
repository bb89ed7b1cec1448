------------------------ MODULE StandaloneReconcile ------------------------
(***************************************************************************)
(* The reconcile loop of one RedisStandalone custom resource (CR): a       *)
(* single redis, the objects Ensure creates for it, and its configuration, *)
(* which reaches the redis on two ways: through the config map its pod     *)
(* starts from, and through CONFIG SET in every round.                     *)
(*                                                                         *)
(* The copies of the CR are modelled as in SentinelReconcile: fresh says   *)
(* whether a write with the copy's resourceVersion would be accepted, and  *)
(* head is the first element of status.conditions.  The CR is there   *)
(* from the start and stays: deletion, re-creation and passwords are in    *)
(* SentinelReconcile, whose code for them is the same.                     *)
(***************************************************************************)
EXTENDS RedisMemory, Sequences

CONSTANTS
    Params, Values,   \* parameters of redis, and how their values are written
    MemParams,        \* ParseConfigMap: parameters that are amounts of memory
    Bad,              \* the words the other parameters refuse
    BuiltIn,          \* what redis has where spec.config says nothing
    EnableConf,       \* what enablePersistence adds
    DisableConf,      \* what disablePersistence sets
    Images, Sizes,
    Configs,          \* the spec.config a user may write
    Specs,            \* the specs a user may create the CR with
    Budget            \* how often the environment may interfere

Config == UNION {[S -> Values] : S \in SUBSET Params}

ConfType == [Params -> Values \cup Amounts]

SpecType == [size : Nat, image : Images, config : Config,
             persist : BOOLEAN, exporter : BOOLEAN]
BudgetType == [edits : Nat, faults : Nat]

ASSUME ParamsAssumption ==
    /\ MemParams \subseteq Params /\ Bad \subseteq Values
    /\ \A v \in Values : Len(v) = 1 \/ v \in Amounts
    /\ BuiltIn \in ConfType
    /\ EnableConf \in Config /\ DOMAIN EnableConf # {}
    /\ DisableConf \in Config /\ DOMAIN DisableConf # {}
ASSUME SpecsAssumption ==
    /\ Sizes \subseteq Nat /\ Configs \subseteq Config
    /\ Specs \subseteq SpecType /\ Specs # {}
ASSUME BudgetAssumption == Budget \in BudgetType

VARIABLES
    api,      \* the CR at the API server
    inf,      \* the operator's informer copy of the CR
    objs,     \* the services and config maps at the API server
    objsInf,  \* ... in the informers
    file,     \* redis.conf in the config map
    sts,      \* the StatefulSet at the API server
    stsInf,   \* ... in the informer
    pod,      \* the redis
    podInf,   \* the address of the redis in the informer
    queued,   \* the key of the CR is in the work queue
    pc,       \* the step the reconcile worker is at
    at,       \* the object Ensure is at
    todo,     \* the parameters SetCustomRedisConfig has left
    conn,     \* the redis of this round has answered and still lives
    rc,       \* the object this round fetched
    aliased,  \* meta.Obj and rc are one pointer in this round
    meta,     \* the MetaMap entry of the CR
    budget    \* interference left

crVars == <<api, inf, queued>>
kubeVars == <<objs, objsInf, file, sts, stsInf, pod, podInf>>
roundVars == <<pc, at, todo, conn, rc, aliased>>
vars == <<crVars, kubeVars, roundVars, meta, budget>>

(***************************************************************************)
(* Values.                                                                 *)
(***************************************************************************)
\* The condition types the Set...Condition methods put in the list.
Conditions == {"Creating", "Upgrading", "Updating", "Healthy", "Failed"}
Heads == Conditions \cup {"None"}

\* What Ensure goes through, in its order.
Order == <<"service", "headless", "config", "shutdown", "monitor", "redis">>

\* The services and config maps; a shutdown config map named by the user, which
\* is only read, is not among them.
Objects == {"service", "headless", "config", "shutdown", "monitor"}

\* The objects a pod needs to start.
Mounted == {"config", "shutdown"}

AnySpec == CHOOSE s \in Specs : TRUE
ApiType == [gen : Nat, spec : SpecType, head : Heads]
ObjType == [gen : Nat, spec : SpecType, head : Heads, fresh : BOOLEAN]
MetaType == [present : BOOLEAN, state : {"create", "update", "check"},
             status : {"Creating", "Upgrading", "Updating"}, obj : ObjType]
StsType == [exists : BOOLEAN, exporter : BOOLEAN, ready : BOOLEAN]
PodType == [up : BOOLEAN, exporter : BOOLEAN, conf : ConfType]
Steps == {"idle", "updateSpec", "updateStatus", "ensure", "checkNumber",
          "checkConfig", "setConfig", "requeue", "failed", "ready"}

NoObj == [gen |-> 0, spec |-> AnySpec, head |-> "None", fresh |-> FALSE]
NoMeta == [present |-> FALSE, state |-> "create", status |-> "Creating", obj |-> NoObj]
NoSts == [exists |-> FALSE, exporter |-> FALSE, ready |-> FALSE]
NoPod == [up |-> FALSE, exporter |-> FALSE, conf |-> BuiltIn]

Stale(obj) == [obj EXCEPT !.fresh = FALSE]

\* What a read or a successful write of the CR returns.
ServerCopy(a) == [gen |-> a.gen, spec |-> a.spec, head |-> a.head, fresh |-> TRUE]

(***************************************************************************)
(* RedisStandalone.Validate.                                               *)
(***************************************************************************)
\* Its check of the name's length is left out: the name of a CR never changes.
Invalid(s) == s.size \notin {0, 1}

\* c where the user wrote something, d elsewhere: setConfigMapIfNotExist.
IfNotExist(c, d) ==
    [p \in DOMAIN c \cup DOMAIN d |-> IF p \in DOMAIN c THEN c[p] ELSE d[p]]

\* enablePersistence keeps what is there; disablePersistence overwrites it.
PersistenceConf(s) ==
    IF s.persist THEN IfNotExist(s.config, EnableConf) ELSE IfNotExist(DisableConf, s.config)

\* The defaults of the two images are left out: every spec here names its image.
Defaulted(s) == [s EXCEPT !.size = 1, !.config = PersistenceConf(s)]

(***************************************************************************)
(* The MetaMap.                                                            *)
(***************************************************************************)
NewStandalone(obj) ==
    [present |-> TRUE, state |-> "create", status |-> "Creating", obj |-> obj]

\* isImagesChanged compares with ==; the sizes of two valid specs are equal.
UpdateStatusOf(old, new) == IF old.image = new.image THEN "Upgrading" ELSE "Updating"

\* Faulty variant: an unchanged generation leaves the state as it was.
MetaUpdateNeverChecks(m, obj) ==
    IF m.obj.gen = obj.gen
    THEN m
    ELSE [m EXCEPT !.state = "update", !.obj = obj,
                   !.status = UpdateStatusOf(m.obj.spec, obj.spec)]

MetaUpdate(m, obj) ==
    IF m.obj.gen = obj.gen
    THEN [m EXCEPT !.state = IF m.obj.head = "None" THEN "create" ELSE "check"]
    ELSE [m EXCEPT !.state = "update", !.obj = obj,
                   !.status = UpdateStatusOf(m.obj.spec, obj.spec)]

Cache(m, obj) == IF m.present THEN MetaUpdate(m, obj) ELSE NewStandalone(obj)

\* Cache stored the object it was given, so meta.Obj and rc are one pointer.
Adopted(m, obj) == ~m.present \/ m.obj.gen # obj.gen
----------------------------------------------------------------------------
Init ==
    /\ \E s \in Specs : api = [gen |-> 1, spec |-> s, head |-> "None"]
    /\ inf = [known |-> FALSE, obj |-> NoObj]
    /\ objs = {} /\ objsInf = {} /\ file = BuiltIn
    /\ sts = NoSts /\ stsInf = NoSts
    /\ pod = NoPod /\ podInf = "none"
    /\ queued = FALSE
    /\ pc = "idle" /\ at = 1 /\ todo = {} /\ conn = FALSE
    /\ rc = NoObj /\ aliased = FALSE
    /\ meta = NoMeta
    /\ budget = Budget

\* A round ends; whatever it returns, the key goes back to the queue.
EndRound ==
    /\ pc' = "idle" /\ at' = 1 /\ todo' = {} /\ conn' = FALSE
    /\ rc' = NoObj /\ aliased' = FALSE

Goto(step) == pc' = step /\ UNCHANGED <<at, todo, conn, rc, aliased>>

Spend(kind) ==
    /\ budget[kind] > 0
    /\ budget' = [budget EXCEPT ![kind] = @ - 1]

\* One call to the API server or to the redis fails.
Fault == Spend("faults")

\* A write of obj is refused: a conflict, NotFound, or a fault.
Refused(obj) == (~obj.fresh /\ UNCHANGED budget) \/ Fault

InfBehind == inf' = [inf EXCEPT !.obj = Stale(@)]

(***************************************************************************)
(* Reconcile fetches the CR from the informer cache and calls Do.          *)
(***************************************************************************)
\* Validate refuses the spec: the error is returned, nothing is written.
ReconcileInvalid ==
    /\ pc = "idle" /\ queued /\ inf.known
    /\ Invalid(inf.obj.spec)
    /\ EndRound
    /\ UNCHANGED <<crVars, kubeVars, meta, budget>>

\* Validate changed the object: write the spec back before anything else.
ReconcileModified ==
    /\ pc = "idle" /\ queued /\ inf.known
    /\ ~Invalid(inf.obj.spec) /\ Defaulted(inf.obj.spec) # inf.obj.spec
    /\ pc' = "updateSpec"
    /\ rc' = [inf.obj EXCEPT !.spec = Defaulted(@)]
    /\ UNCHANGED <<crVars, kubeVars, at, todo, conn, aliased, meta, budget>>

\* The object is valid and complete: Cache it and go on with the round.
ReconcileDo ==
    /\ pc = "idle" /\ queued /\ inf.known
    /\ ~Invalid(inf.obj.spec) /\ Defaulted(inf.obj.spec) = inf.obj.spec
    /\ meta' = Cache(meta, inf.obj)
    /\ aliased' = Adopted(meta, inf.obj)
    /\ rc' = inf.obj
    /\ pc' = IF meta'.state = "check" THEN "ensure" ELSE "updateStatus"
    /\ UNCHANGED <<crVars, kubeVars, at, todo, conn, budget>>

(***************************************************************************)
(* UpdateStandaloneSpec, then return ErrNeedRequeueImmediately.            *)
(***************************************************************************)
UpdateSpecOk ==
    /\ pc = "updateSpec" /\ rc.fresh
    /\ api' = [api EXCEPT !.gen = @ + 1, !.spec = rc.spec]
    /\ meta' = [meta EXCEPT !.obj = Stale(@)]
    /\ InfBehind
    /\ EndRound
    /\ UNCHANGED <<queued, kubeVars, budget>>

UpdateSpecRefused ==
    /\ pc = "updateSpec" /\ Refused(rc)
    /\ EndRound
    /\ UNCHANGED <<crVars, kubeVars, meta>>

(***************************************************************************)
(* StandaloneHandler.updateStatus sets the condition on meta.Obj before it *)
(* sends it; the answer is decoded into meta.Obj, spec included.           *)
(***************************************************************************)
UpdateStatusOk ==
    /\ pc = "updateStatus" /\ meta.obj.fresh
    /\ api' = [api EXCEPT !.head = meta.status]
    /\ meta' = [meta EXCEPT !.obj = ServerCopy(api')]
    /\ rc' = IF aliased THEN meta'.obj ELSE Stale(rc)
    /\ InfBehind
    /\ pc' = "ensure"
    /\ UNCHANGED <<queued, kubeVars, at, todo, conn, aliased, budget>>

UpdateStatusRefused ==
    /\ pc = "updateStatus" /\ Refused(meta.obj)
    /\ meta' = [meta EXCEPT !.obj.head = meta.status]
    /\ EndRound
    /\ UNCHANGED <<crVars, kubeVars>>

\* The write is applied, but its answer is lost.
UpdateStatusLost ==
    /\ pc = "updateStatus" /\ meta.obj.fresh /\ Fault
    /\ api' = [api EXCEPT !.head = meta.status]
    /\ meta' = [meta EXCEPT !.obj.head = meta.status, !.obj.fresh = FALSE]
    /\ InfBehind
    /\ EndRound
    /\ UNCHANGED <<queued, kubeVars>>

(***************************************************************************)
(* Ensure.                                                                 *)
(***************************************************************************)
\* Faulty variant: the index runs past the last object.
AdvancePastEnd ==
    /\ at' = at + 1
    /\ pc' = IF at = Len(Order) THEN "checkNumber" ELSE "ensure"
    /\ UNCHANGED <<todo, conn, rc, aliased>>

\* The next object, or on to CheckAndHeal after the last one.
Advance ==
    /\ at' = IF at = Len(Order) THEN at ELSE at + 1
    /\ pc' = IF at = Len(Order) THEN "checkNumber" ELSE "ensure"
    /\ UNCHANGED <<todo, conn, rc, aliased>>

\* generateRedisConfigMap: redis.conf sets what spec.config sets.
GenerateRedisConfigMap(s) ==
    [p \in Params |-> IF p \in DOMAIN s.config THEN s.config[p] ELSE BuiltIn[p]]

\* generateRedisStatefulSet, with the status the server keeps.
GenerateRedisStatefulSet(s, ready) ==
    [exists |-> TRUE, exporter |-> s.exporter, ready |-> ready]

\* Only an enabled exporter needs its service.
Needed(o, s) == o = "monitor" => s.exporter

\* Faulty variant: an object is taken for present if another one is.
CreateIfNotExistsAny ==
    /\ pc = "ensure" /\ Order[at] \in Objects
    /\ LET o == Order[at]
       IN  \/ /\ Needed(o, meta.obj.spec) /\ objsInf = {} /\ o \notin objs
              /\ objs' = objs \cup {o}
              /\ file' = IF o = "config" THEN GenerateRedisConfigMap(meta.obj.spec) ELSE file
           \/ /\ ~Needed(o, meta.obj.spec) \/ objsInf # {}
              /\ UNCHANGED <<objs, file>>
    /\ Advance
    /\ UNCHANGED <<crVars, objsInf, sts, stsInf, pod, podInf, meta, budget>>

\* CreateIfNotExistsService, CreateIfNotExistsConfigMap: what the informer has
\* is left as it is, whatever its content.
CreateIfNotExists ==
    /\ pc = "ensure" /\ Order[at] \in Objects
    /\ LET o == Order[at]
       IN  \/ /\ Needed(o, meta.obj.spec) /\ o \notin objsInf /\ o \notin objs
              /\ objs' = objs \cup {o}
              /\ file' = IF o = "config" THEN GenerateRedisConfigMap(meta.obj.spec) ELSE file
           \/ /\ ~Needed(o, meta.obj.spec) \/ o \in objsInf
              /\ UNCHANGED <<objs, file>>
    /\ Advance
    /\ UNCHANGED <<crVars, objsInf, sts, stsInf, pod, podInf, meta, budget>>

\* The StatefulSet is created, or replaced if a compared field differs (the
\* exporter stands for them; the image is not one), or left alone.
EnsureRedisStatefulset ==
    /\ pc = "ensure" /\ Order[at] = "redis"
    /\ \/ /\ ~stsInf.exists /\ ~sts.exists
          /\ sts' = GenerateRedisStatefulSet(meta.obj.spec, FALSE)
       \/ /\ stsInf.exists /\ stsInf.exporter # meta.obj.spec.exporter /\ sts.exists
          /\ sts' = GenerateRedisStatefulSet(meta.obj.spec, sts.ready)
       \/ /\ stsInf.exists /\ stsInf.exporter = meta.obj.spec.exporter
          /\ UNCHANGED sts
    /\ Advance
    /\ UNCHANGED <<crVars, objs, objsInf, file, stsInf, pod, podInf, meta, budget>>

\* A create meets an object the informer has not seen, an update meets one
\* that is gone, or a call fails.
EnsureFailed ==
    /\ pc = "ensure"
    /\ LET o == Order[at]
       IN  \/ /\ o \in Objects /\ Needed(o, meta.obj.spec)
              /\ o \notin objsInf /\ o \in objs
              /\ UNCHANGED budget
           \/ /\ o = "redis" /\ ~stsInf.exists /\ sts.exists
              /\ UNCHANGED budget
           \/ /\ o = "redis" /\ stsInf.exists /\ ~sts.exists
              /\ stsInf.exporter # meta.obj.spec.exporter
              /\ UNCHANGED budget
           \/ Needed(o, meta.obj.spec) /\ Fault
    /\ Goto("failed")
    /\ UNCHANGED <<crVars, kubeVars, meta>>

(***************************************************************************)
(* CheckAndHeal.                                                           *)
(***************************************************************************)
\* CheckRedisNumber: every error of it asks for a requeue.
CheckRedisNumber ==
    /\ pc = "checkNumber"
    /\ Goto(IF stsInf.exists /\ stsInf.ready THEN "checkConfig" ELSE "requeue")
    /\ UNCHANGED <<crVars, kubeVars, meta, budget>>

\* The redis does not take v for p, neither from CONFIG SET nor when it starts.
RedisRefuses(p, v) == IF p \in MemParams THEN RedisRefusesAmount(v) ELSE v \in Bad

\* What CONFIG GET answers after CONFIG SET p v.
Reported(p, v) == IF p \in MemParams THEN <<Memtoll(v), "">> ELSE v

\* CheckRedisConfig passes over amounts of memory it cannot parse.
ConfigMatches(config, conf) ==
    \A p \in DOMAIN config :
        \/ p \in MemParams /\ ParseFails(config[p])
        \/ conf[p] = IF p \in MemParams THEN ParseRedisMemConf(config[p]) ELSE config[p]

\* Faulty variant: like setSentinelConfig, only in rounds that are not Check.
CheckRedisConfigOnUpdate ==
    /\ pc = "checkConfig"
    /\ IF podInf = "none" \/ meta.state = "check"
       THEN pc' = "ready" /\ UNCHANGED <<todo, conn>>
       ELSE /\ conn' = (podInf = "running")
            /\ pc' = IF conn' /\ ConfigMatches(meta.obj.spec.config, pod.conf)
                     THEN "ready" ELSE "setConfig"
            /\ todo' = IF pc' = "setConfig" THEN DOMAIN meta.obj.spec.config ELSE {}
    /\ UNCHANGED <<crVars, kubeVars, at, rc, aliased, meta, budget>>

\* setRedisConfig: with no running redis in the list there is nothing to do; a
\* dead address is an error, which is answered like a mismatch.
CheckRedisConfig ==
    /\ pc = "checkConfig"
    /\ IF podInf = "none"
       THEN pc' = "ready" /\ UNCHANGED <<todo, conn>>
       ELSE /\ conn' = (podInf = "running")
            /\ pc' = IF conn' /\ ConfigMatches(meta.obj.spec.config, pod.conf)
                     THEN "ready" ELSE "setConfig"
            /\ todo' = IF pc' = "setConfig" THEN DOMAIN meta.obj.spec.config ELSE {}
    /\ UNCHANGED <<crVars, kubeVars, at, rc, aliased, meta, budget>>

\* CONFIG GET fails at a redis that is there.
CheckRedisConfigFails ==
    /\ pc = "checkConfig" /\ podInf = "running" /\ Fault
    /\ conn' = TRUE /\ pc' = "setConfig" /\ todo' = DOMAIN meta.obj.spec.config
    /\ UNCHANGED <<crVars, kubeVars, at, rc, aliased, meta>>

\* The pods cannot be listed, since the StatefulSet is gone or a call fails.
GetRedisesIPsFailed ==
    /\ pc = "checkConfig"
    /\ (~stsInf.exists /\ UNCHANGED budget) \/ Fault
    /\ Goto("failed")
    /\ UNCHANGED <<crVars, kubeVars, meta>>

\* SetCustomRedisConfig ranges over a Go map: any parameter may be next.
SetCustomRedisConfig ==
    /\ pc = "setConfig" /\ conn
    /\ \E p \in todo :
        /\ ~RedisRefuses(p, meta.obj.spec.config[p])
        /\ pod' = [pod EXCEPT !.conf[p] = Reported(p, meta.obj.spec.config[p])]
        /\ todo' = todo \ {p}
    /\ pc' = IF todo' = {} THEN "ready" ELSE "setConfig"
    /\ UNCHANGED <<crVars, objs, objsInf, file, sts, stsInf, podInf,
                   at, conn, rc, aliased, meta, budget>>

\* The redis refuses a value, its address is dead, or a call fails.
SetCustomRedisConfigFailed ==
    /\ pc = "setConfig"
    /\ \/ ~conn /\ UNCHANGED budget
       \/ (\E p \in todo : RedisRefuses(p, meta.obj.spec.config[p])) /\ UNCHANGED budget
       \/ Fault
    /\ Goto("failed")
    /\ UNCHANGED <<crVars, kubeVars, meta>>

(***************************************************************************)
(* The end of Do: the verdict is set on rc and written with its status.    *)
(***************************************************************************)
\* Faulty variant: the verdict is written without a resourceVersion.
PublishForced(head) ==
    /\ api' = [api EXCEPT !.head = head]
    /\ meta' = [meta EXCEPT !.obj = IF aliased THEN ServerCopy(api') ELSE Stale(@)]
    /\ InfBehind
    /\ EndRound
    /\ UNCHANGED <<queued, kubeVars, budget>>

\* The write is applied; if rc is meta.Obj, the answer is decoded into it.
PublishOk(head) ==
    /\ rc.fresh
    /\ api' = [api EXCEPT !.head = head]
    /\ meta' = [meta EXCEPT !.obj = IF aliased THEN ServerCopy(api') ELSE Stale(@)]
    /\ InfBehind
    /\ EndRound
    /\ UNCHANGED <<queued, kubeVars, budget>>

\* The write is refused, but the condition stays on the cached object.
PublishRefused(head) ==
    /\ Refused(rc)
    /\ meta' = [meta EXCEPT !.obj.head = IF aliased THEN head ELSE @]
    /\ EndRound
    /\ UNCHANGED <<crVars, kubeVars>>

\* The write is applied, but its answer is lost.
PublishLost(head) ==
    /\ rc.fresh /\ Fault
    /\ api' = [api EXCEPT !.head = head]
    /\ meta' = [meta EXCEPT !.obj.head = IF aliased THEN head ELSE @, !.obj.fresh = FALSE]
    /\ InfBehind
    /\ EndRound
    /\ UNCHANGED <<queued, kubeVars>>

Publish(head) == PublishOk(head) \/ PublishRefused(head) \/ PublishLost(head)

\* ErrNeedRequeue: only a CR that was Healthy gets a new condition.
Requeue ==
    /\ pc = "requeue"
    /\ IF rc.head = "Healthy"
       THEN Publish("Creating")
       ELSE EndRound /\ UNCHANGED <<crVars, kubeVars, meta, budget>>

SetFailed == pc = "failed" /\ Publish("Failed")

SetReady == pc = "ready" /\ Publish("Healthy")

Operator ==
    \/ ReconcileInvalid \/ ReconcileModified \/ ReconcileDo
    \/ UpdateSpecOk \/ UpdateSpecRefused
    \/ UpdateStatusOk \/ UpdateStatusRefused \/ UpdateStatusLost
    \/ CreateIfNotExists \/ EnsureRedisStatefulset \/ EnsureFailed
    \/ CheckRedisNumber \/ CheckRedisConfig \/ CheckRedisConfigFails
    \/ GetRedisesIPsFailed \/ SetCustomRedisConfig \/ SetCustomRedisConfigFailed
    \/ Requeue \/ SetFailed \/ SetReady

\* A restart (a fault, too) loses what is in memory; the informers list
\* everything anew.
Restart ==
    /\ Fault
    /\ EndRound
    /\ meta' = NoMeta
    /\ inf' = [known |-> TRUE, obj |-> ServerCopy(api)]
    /\ queued' = TRUE
    /\ objsInf' = objs /\ stsInf' = sts
    /\ podInf' = IF pod.up THEN "running" ELSE "none"
    /\ UNCHANGED <<api, objs, file, sts, pod>>

(***************************************************************************)
(* The users of the CR and the rest of Kubernetes.                         *)
(***************************************************************************)
\* The server took a write of somebody else: every copy is behind.
CopiesBehind ==
    /\ InfBehind
    /\ meta' = [meta EXCEPT !.obj = Stale(@)]
    /\ rc' = Stale(rc)

\* The user changes one field; the config is the one Validate wrote back.
Edits(s) ==
    {[s EXCEPT !.persist = ~@], [s EXCEPT !.exporter = ~@]}
        \cup {[s EXCEPT !.size = n] : n \in Sizes}
        \cup {[s EXCEPT !.image = i] : i \in Images}
        \cup {[s EXCEPT !.config = c] : c \in Configs}

UserEdit ==
    /\ Spend("edits")
    /\ \E s \in Edits(api.spec) \ {api.spec} :
           api' = [api EXCEPT !.gen = @ + 1, !.spec = s]
    /\ CopiesBehind
    /\ UNCHANGED <<queued, kubeVars, pc, at, todo, conn, aliased>>

\* The informer catches up.  The event filter queues the key when the CR
\* appears or has a new generation, not for a status change.
SyncCR ==
    /\ ~inf.obj.fresh
    /\ inf' = [known |-> TRUE, obj |-> ServerCopy(api)]
    /\ queued' = (queued \/ ~inf.known \/ inf.obj.gen # api.gen)
    /\ UNCHANGED <<api, kubeVars, roundVars, meta, budget>>

\* Services and config maps, the StatefulSet and the pod each have an informer.
SyncObjects ==
    /\ objsInf # objs
    /\ objsInf' = objs
    /\ UNCHANGED <<crVars, objs, file, sts, stsInf, pod, podInf, roundVars, meta, budget>>

SyncSts ==
    /\ stsInf # sts
    /\ stsInf' = sts
    /\ UNCHANGED <<crVars, objs, objsInf, file, sts, pod, podInf, roundVars, meta, budget>>

SyncPod ==
    /\ podInf # (IF pod.up THEN "running" ELSE "none")
    /\ podInf' = IF pod.up THEN "running" ELSE "none"
    /\ UNCHANGED <<crVars, objs, objsInf, file, sts, stsInf, pod, roundVars, meta, budget>>

\* A pod mounts both config maps; a redis does not start with a value it refuses.
PodStarts ==
    /\ sts.exists /\ ~pod.up /\ Mounted \subseteq objs
    /\ \A p \in Params : ~RedisRefuses(p, file[p])
    /\ pod' = [up |-> TRUE, exporter |-> sts.exporter,
               conf |-> [p \in Params |-> Reported(p, file[p])]]
    /\ sts' = [sts EXCEPT !.ready = TRUE]
    /\ UNCHANGED <<crVars, objs, objsInf, file, stsInf, podInf, roundVars, meta, budget>>

\* The redis ends, and its address with it.
PodStops ==
    /\ pod' = NoPod
    /\ podInf' = IF podInf = "running" THEN "gone" ELSE podInf
    /\ conn' = FALSE
    /\ UNCHANGED <<crVars, objs, objsInf, file, stsInf, pc, at, todo, rc, aliased, meta>>

RollingUpdate ==
    /\ pod.up /\ pod.exporter # sts.exporter
    /\ sts' = [sts EXCEPT !.ready = FALSE]
    /\ PodStops
    /\ UNCHANGED budget

\* The pod fails, or somebody deletes the StatefulSet and with it the pod.
Disruption ==
    /\ Fault
    /\ \/ pod.up /\ sts' = [sts EXCEPT !.ready = FALSE]
       \/ sts.exists /\ sts' = NoSts
    /\ PodStops

Users == UserEdit \/ Disruption
Informers == SyncCR \/ SyncObjects \/ SyncSts \/ SyncPod
Kubernetes == PodStarts \/ RollingUpdate

Next == Operator \/ Restart \/ Users \/ Informers \/ Kubernetes

Spec == Init /\ [][Next]_vars

\* As in SentinelReconcile: rounds follow rounds, informers and controllers go
\* on; nothing forces a user, a fault or a restart.
Fairness ==
    /\ WF_vars(Operator)
    /\ WF_vars(SyncCR) /\ WF_vars(SyncObjects) /\ WF_vars(SyncSts) /\ WF_vars(SyncPod)
    /\ WF_vars(PodStarts) /\ WF_vars(RollingUpdate)

FairSpec == Spec /\ Fairness
----------------------------------------------------------------------------
(***************************************************************************)
(* Properties.                                                             *)
(***************************************************************************)
\* Every variable has the shape the code gives it.
TypeOK ==
    /\ api \in ApiType
    /\ inf \in [known : BOOLEAN, obj : ObjType]
    /\ objs \subseteq Objects /\ objsInf \subseteq Objects /\ file \in ConfType
    /\ sts \in StsType /\ stsInf \in StsType
    /\ pod \in PodType /\ podInf \in {"none", "running", "gone"}
    /\ queued \in BOOLEAN
    /\ pc \in Steps /\ at \in 1..Len(Order) /\ todo \subseteq Params /\ conn \in BOOLEAN
    /\ rc \in ObjType /\ aliased \in BOOLEAN
    /\ meta \in MetaType
    /\ budget \in BudgetType

\* A spec that Validate accepts and redis can run with.
Sound(s) == ~Invalid(s) /\ \A p \in DOMAIN s.config : ~RedisRefuses(p, s.config[p])

\* The redis runs with all that the spec asks for and redis understands.
Configured(s) ==
    \A p \in DOMAIN s.config :
        RedisRefuses(p, s.config[p]) \/ pod.conf[p] = Reported(p, s.config[p])

\* A CR turns Healthy only with the configuration of the spec the server has,
\* if the redis answered in this round and has not been replaced since: an edit
\* in between makes the write of the verdict fail, however the round got there.
HealthyIsConfigured ==
    [][pc = "ready" /\ conn /\ api' # api /\ api'.gen = api.gen /\ api'.head = "Healthy"
         => Configured(api.spec)]_vars

Complete(s) ==
    /\ {o \in Objects : Needed(o, s)} \subseteq objs
    /\ sts = [exists |-> TRUE, exporter |-> s.exporter, ready |-> TRUE]

\* Once users and faults are done, all objects exist and the redis is up with
\* the exporter as wished, although Ensure reads stale informers and may be
\* interrupted between any two objects.
EventuallyComplete == <>[](Sound(api.spec) => Complete(api.spec))

\* ... the redis runs with the configuration of the last spec, although the
\* config map it starts from may hold an older one, ...
EventuallyRunsConfig == <>[](Sound(api.spec) => Configured(api.spec))

\* ... rounds stop sending CONFIG SET, since the bytes ParseRedisMemConf expects
\* are the bytes the redis answers, also where the product wraps, ...
ConfigSettles == <>[](Sound(api.spec) => pc # "setConfig")

\* ... and the CR says Healthy.
EventuallyReady == <>[](Sound(api.spec) => api.head = "Healthy")
============================================================================
