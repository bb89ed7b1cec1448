------------------------- MODULE SentinelReconcile -------------------------
(***************************************************************************)
(* The reconcile loop of one RedisSentinel custom resource (CR):           *)
(* RedisSentinelReconciler.Reconcile and SentinelHandler.Do, the MetaMap   *)
(* they keep between rounds, the API server they write to, and the         *)
(* informer copies they read from.                                         *)
(*                                                                         *)
(* The work queue never runs two rounds of one key at the same time, so    *)
(* the operator is one program counter; a user, the garbage collector, the *)
(* StatefulSet controller, the informers and a restart of the operator     *)
(* take steps between any two of its steps.                                *)
(*                                                                         *)
(* A resourceVersion is only ever compared with the server's current one,  *)
(* so each in-memory copy carries the outcome of that comparison, fresh,   *)
(* instead of a number.  Of the list status.conditions only its head is    *)
(* kept, the one element the code reads (status[0].Type): module           *)
(* StatusConditions shows that the list implements that head.              *)
(***************************************************************************)
EXTENDS Naturals

CONSTANTS
    Specs,            \* the specs a user may write
    Images, Passwords,
    NoImage,          \* spec.image left empty
    DefaultImage,     \* defaultRedisImage
    MinRedis,         \* defaultRedisNumber
    MinSentinels,     \* defaultSentinelNumber
    Budget            \* how often the environment may interfere

SpecType == [size : Nat, sentinel : Nat, image : Images, password : Passwords]

ASSUME SpecsAssumption == Specs \subseteq SpecType /\ Specs # {}
ASSUME ImagesAssumption ==
    {NoImage, DefaultImage} \subseteq Images /\ NoImage # DefaultImage
ASSUME MinAssumption == MinRedis \in Nat \ {0} /\ MinSentinels \in Nat \ {0}
BudgetType == [edits : Nat, deletes : Nat, crashes : Nat, faults : Nat]

ASSUME BudgetAssumption == Budget \in BudgetType

VARIABLES
    api,        \* the CR at the API server
    inf,        \* the operator's informer copy of the CR
    redis,      \* the redis StatefulSet at the API server
    sentinel,   \* the sentinel StatefulSet at the API server
    redisInf,   \* the informer copy of the redis StatefulSet
    sentinelInf,\* the informer copy of the sentinel StatefulSet
    queued,     \* the key of the CR is in the work queue
    pc,         \* the step the reconcile worker is at
    rc,         \* the object this round fetched
    aliased,    \* meta.Obj and rc are one pointer in this round
    meta,       \* the MetaMap entry of the CR
    budget      \* interference left

stsVars == <<redis, sentinel, redisInf, sentinelInf>>
vars == <<api, inf, redis, sentinel, redisInf, sentinelInf,
          queued, pc, rc, aliased, meta, budget>>

(***************************************************************************)
(* Values.                                                                 *)
(***************************************************************************)
Conditions == {"Creating", "Scaling", "Upgrading", "Updating", "Healthy", "Failed"}
NoCondition == "None"
Heads == Conditions \cup {NoCondition}

AnySpec == CHOOSE s \in Specs : TRUE

ApiType == [alive : BOOLEAN, uid : Nat, gen : Nat, spec : SpecType, head : Heads]
ObjType == [uid : Nat, gen : Nat, spec : SpecType, head : Heads, fresh : BOOLEAN]
InfType == [known : BOOLEAN, obj : ObjType]
MetaStates == {"create", "update", "check"}
MetaStatuses == {"Creating", "Scaling", "ScalingDown", "Upgrading", "Updating"}
MetaType == [present : BOOLEAN, state : MetaStates, status : MetaStatuses,
             auth : Passwords, obj : ObjType]
\* replicas = 0 stands for a StatefulSet that does not exist.
RedisType == [replicas : Nat, image : Images, password : Passwords,
              ready : Nat, owner : Nat]
\* conf: the generation whose sentinel.customConfig was last sent to the sentinels.
SentinelType == [replicas : Nat, ready : Nat, owner : Nat, conf : Nat]

NoObj == [uid |-> 0, gen |-> 0, spec |-> AnySpec, head |-> NoCondition, fresh |-> FALSE]
NoMeta == [present |-> FALSE, state |-> "create", status |-> "Creating",
           auth |-> AnySpec.password, obj |-> NoObj]
NoRedis == [replicas |-> 0, image |-> NoImage, password |-> AnySpec.password,
            ready |-> 0, owner |-> 0]
NoSentinel == [replicas |-> 0, ready |-> 0, owner |-> 0, conf |-> 0]

Steps == {"idle", "updateSpec", "updateStatus", "ensureRedis", "ensureSentinel",
          "checkNumbers", "heal", "sentinelReady", "requeue", "failed", "ready"}

Stale(obj) == [obj EXCEPT !.fresh = FALSE]

\* What a read or a successful write of the CR returns.
ServerCopy(a) == [uid |-> a.uid, gen |-> a.gen, spec |-> a.spec,
                  head |-> a.head, fresh |-> TRUE]

(***************************************************************************)
(* RedisSentinel.Validate.                                                 *)
(***************************************************************************)
\* Faulty variant: accepts one redis less than the minimum.
InvalidLax(s) ==
    \/ s.size # 0 /\ s.size + 1 < MinRedis
    \/ s.sentinel # 0 /\ s.sentinel < MinSentinels

\* The specs Validate refuses.  Its check of the name's length is left out: the
\* name of a CR never changes.
Invalid(s) ==
    \/ s.size # 0 /\ s.size < MinRedis
    \/ s.sentinel # 0 /\ s.sentinel < MinSentinels

\* What Validate makes of a spec.  It also fills in the image and the resources
\* of the sentinels, the persistence parameters and the exporter's image, and it
\* sets slave-priority whatever the user wrote; none of them is a field here.
Defaulted(s) ==
    [s EXCEPT !.size = IF @ = 0 THEN MinRedis ELSE @,
              !.sentinel = IF @ = 0 THEN MinSentinels ELSE @,
              !.image = IF @ = NoImage THEN DefaultImage ELSE @]

(***************************************************************************)
(* The MetaMap.                                                            *)
(***************************************************************************)
\* newCluster: the entry of a CR seen for the first time.
NewCluster(obj) ==
    [present |-> TRUE, state |-> "create", status |-> "Creating",
     auth |-> obj.spec.password, obj |-> obj]

\* isImagesChanged compares with ==, so it answers whether they are equal.
IsImagesChanged(old, new) == old.image = new.image

\* The status Update derives from the two specs; later tests overwrite earlier ones.
UpdateStatusOf(old, new) ==
    CASE old.size < new.size -> "Scaling"
      [] old.size > new.size -> "ScalingDown"
      [] old.size = new.size /\ IsImagesChanged(old, new) -> "Upgrading"
      [] OTHER -> "Updating"

\* Faulty variant: the new object is not stored.
MetaUpdateForgetsObj(m, obj) ==
    IF m.obj.gen = obj.gen
    THEN [m EXCEPT !.state = IF m.obj.head = NoCondition THEN "create" ELSE "check"]
    ELSE [m EXCEPT !.state = "update",
                   !.status = UpdateStatusOf(m.obj.spec, obj.spec),
                   !.auth = m.obj.spec.password]

\* Faulty variant: an unchanged generation leaves the state as it was.
MetaUpdateNeverChecks(m, obj) ==
    IF m.obj.gen = obj.gen
    THEN m
    ELSE [m EXCEPT !.state = "update",
                   !.status = UpdateStatusOf(m.obj.spec, obj.spec),
                   !.auth = m.obj.spec.password,
                   !.obj = [obj EXCEPT !.spec.password = m.obj.spec.password]]

\* MetaMap.Update drops the new object when the generation is unchanged and
\* otherwise installs it with the old password.
MetaUpdate(m, obj) ==
    IF m.obj.gen = obj.gen
    THEN [m EXCEPT !.state = IF m.obj.head = NoCondition THEN "create" ELSE "check"]
    ELSE [m EXCEPT !.state = "update",
                   !.status = UpdateStatusOf(m.obj.spec, obj.spec),
                   !.auth = m.obj.spec.password,
                   !.obj = [obj EXCEPT !.spec.password = m.obj.spec.password]]

\* MetaMap.Cache.
Cache(m, obj) == IF m.present THEN MetaUpdate(m, obj) ELSE NewCluster(obj)

\* Cache stored the object it was given, so meta.Obj and rc are one pointer.
Adopted(m, obj) == ~m.present \/ m.obj.gen # obj.gen

\* Faulty variant: the status is used as the condition type.
ConditionAsStatus(status) == status

\* The condition type updateStatus sets: scaling down also sets Scaling.
ConditionOf(status) == IF status = "ScalingDown" THEN "Scaling" ELSE status
----------------------------------------------------------------------------
Init ==
    /\ api = [alive |-> FALSE, uid |-> 0, gen |-> 0, spec |-> AnySpec, head |-> NoCondition]
    /\ inf = [known |-> FALSE, obj |-> NoObj]
    /\ redis = NoRedis /\ redisInf = NoRedis
    /\ sentinel = NoSentinel /\ sentinelInf = NoSentinel
    /\ queued = FALSE
    /\ pc = "idle"
    /\ rc = NoObj
    /\ aliased = FALSE
    /\ meta = NoMeta
    /\ budget = Budget

(***************************************************************************)
(* A round ends.  Whatever it returns (an error, a Result with Requeue or  *)
(* RequeueAfter), the key goes back to the queue.                          *)
(***************************************************************************)
EndRound ==
    /\ pc' = "idle"
    /\ rc' = NoObj
    /\ aliased' = FALSE

\* One call to the API server or to a redis fails.
Fault ==
    /\ budget.faults > 0
    /\ budget' = [budget EXCEPT !.faults = @ - 1]

\* A write of obj is refused: a conflict, NotFound, or a fault.
Refused(obj) == (~obj.fresh /\ UNCHANGED budget) \/ Fault

InfBehind == inf' = [inf EXCEPT !.obj = Stale(@)]

(***************************************************************************)
(* Reconcile fetches the CR from the informer cache and calls Do.          *)
(***************************************************************************)
\* Faulty variant: the entry of a deleted CR stays in the MetaMap.
NotFoundKeepsMeta ==
    /\ pc = "idle" /\ queued /\ ~inf.known
    /\ queued' = FALSE
    /\ UNCHANGED <<api, inf, pc, rc, aliased, meta, budget, stsVars>>

\* Not found: forget the CR and do not requeue.
ReconcileNotFound ==
    /\ pc = "idle" /\ queued /\ ~inf.known
    /\ meta' = NoMeta
    /\ queued' = FALSE
    /\ UNCHANGED <<api, inf, pc, rc, aliased, budget, stsVars>>

\* Validate refuses the spec: the error is returned, nothing is written.
ReconcileInvalid ==
    /\ pc = "idle" /\ queued /\ inf.known
    /\ Invalid(inf.obj.spec)
    /\ EndRound
    /\ UNCHANGED <<api, inf, queued, meta, budget, stsVars>>

\* Validate changed the object: write the spec back before anything else.
ReconcileModified ==
    /\ pc = "idle" /\ queued /\ inf.known
    /\ ~Invalid(inf.obj.spec)
    /\ Defaulted(inf.obj.spec) # inf.obj.spec
    /\ pc' = "updateSpec"
    /\ rc' = [inf.obj EXCEPT !.spec = Defaulted(@)]
    /\ UNCHANGED <<api, inf, queued, aliased, meta, budget, stsVars>>

\* The object is valid and complete: Cache it and go on with the round.
ReconcileDo ==
    /\ pc = "idle" /\ queued /\ inf.known
    /\ ~Invalid(inf.obj.spec)
    /\ Defaulted(inf.obj.spec) = inf.obj.spec
    /\ meta' = Cache(meta, inf.obj)
    /\ aliased' = Adopted(meta, inf.obj)
    /\ rc' = [inf.obj EXCEPT !.spec.password = IF aliased' THEN meta'.obj.spec.password ELSE @]
    /\ pc' = IF meta'.state = "check" THEN "ensureRedis" ELSE "updateStatus"
    /\ UNCHANGED <<api, inf, queued, budget, stsVars>>

(***************************************************************************)
(* UpdateSentinelSpec, then return ErrNeedRequeueImmediately.              *)
(***************************************************************************)
\* Faulty variant: the spec is written without a resourceVersion.
UpdateSpecForced ==
    /\ pc = "updateSpec" /\ api.alive
    /\ api' = [api EXCEPT !.gen = @ + 1, !.spec = rc.spec]
    /\ meta' = [meta EXCEPT !.obj = Stale(@)]
    /\ InfBehind
    /\ EndRound
    /\ UNCHANGED <<queued, budget, stsVars>>

UpdateSpecOk ==
    /\ pc = "updateSpec" /\ rc.fresh
    /\ api' = [api EXCEPT !.gen = @ + 1, !.spec = rc.spec]
    /\ meta' = [meta EXCEPT !.obj = Stale(@)]
    /\ InfBehind
    /\ EndRound
    /\ UNCHANGED <<queued, budget, stsVars>>

UpdateSpecRefused ==
    /\ pc = "updateSpec" /\ Refused(rc)
    /\ EndRound
    /\ UNCHANGED <<api, inf, queued, meta, stsVars>>

(***************************************************************************)
(* SentinelHandler.updateStatus: the condition is set on meta.Obj before   *)
(* it is sent, and a successful Status().Update decodes the server's       *)
(* answer, spec included, into meta.Obj.                                   *)
(***************************************************************************)
\* Faulty variant: the status is written without a resourceVersion.
UpdateStatusForced ==
    /\ pc = "updateStatus" /\ api.alive
    /\ api' = [api EXCEPT !.head = ConditionOf(meta.status)]
    /\ meta' = [meta EXCEPT !.obj = ServerCopy(api')]
    /\ rc' = IF aliased THEN meta'.obj ELSE Stale(rc)
    /\ InfBehind
    /\ pc' = "ensureRedis"
    /\ UNCHANGED <<queued, aliased, budget, stsVars>>

UpdateStatusOk ==
    /\ pc = "updateStatus" /\ meta.obj.fresh
    /\ api' = [api EXCEPT !.head = ConditionOf(meta.status)]
    /\ meta' = [meta EXCEPT !.obj = ServerCopy(api')]
    /\ rc' = IF aliased THEN meta'.obj ELSE Stale(rc)
    /\ InfBehind
    /\ pc' = "ensureRedis"
    /\ UNCHANGED <<queued, aliased, budget, stsVars>>

UpdateStatusRefused ==
    /\ pc = "updateStatus" /\ Refused(meta.obj)
    /\ meta' = [meta EXCEPT !.obj.head = ConditionOf(meta.status)]
    /\ EndRound
    /\ UNCHANGED <<api, inf, queued, stsVars>>

\* The write is applied, but its answer is lost.
UpdateStatusLost ==
    /\ pc = "updateStatus" /\ meta.obj.fresh /\ Fault
    /\ api' = [api EXCEPT !.head = ConditionOf(meta.status)]
    /\ meta' = [meta EXCEPT !.obj.head = ConditionOf(meta.status), !.obj.fresh = FALSE]
    /\ InfBehind
    /\ EndRound
    /\ UNCHANGED <<queued, stsVars>>

(***************************************************************************)
(* Ensure: each StatefulSet is created if the informer has none, replaced  *)
(* if the compared fields differ (the number of replicas stands for them), *)
(* and left alone otherwise.  The services, config maps and disruption     *)
(* budgets before it can only fail here.                                   *)
(***************************************************************************)
\* What generateRedisStatefulSet puts in the object.
RedisFrom(spec, owner, ready) ==
    [replicas |-> spec.size, image |-> spec.image, password |-> spec.password,
     ready |-> ready, owner |-> owner]

\* Faulty variant: an existing StatefulSet is never updated.
EnsureRedisCreateOnly ==
    /\ pc = "ensureRedis"
    /\ redisInf.replicas = 0 => redis.replicas = 0
    /\ redis' = IF redisInf.replicas = 0 THEN RedisFrom(meta.obj.spec, rc.uid, 0) ELSE redis
    /\ pc' = "ensureSentinel"
    /\ UNCHANGED <<api, inf, queued, rc, aliased, meta, budget,
                   sentinel, redisInf, sentinelInf>>

EnsureRedisStatefulset ==
    /\ pc = "ensureRedis"
    /\ \/ /\ redisInf.replicas = 0 /\ redis.replicas = 0
          /\ redis' = RedisFrom(meta.obj.spec, rc.uid, 0)
          /\ pc' = "ensureSentinel"
       \/ /\ redisInf.replicas # 0 /\ redis.replicas # 0
          /\ redisInf.replicas # meta.obj.spec.size
          /\ redis' = RedisFrom(meta.obj.spec, rc.uid, redis.ready)
          /\ pc' = "ensureSentinel"
       \/ /\ redisInf.replicas # 0
          /\ redisInf.replicas = meta.obj.spec.size
          /\ pc' = "ensureSentinel"
          /\ UNCHANGED redis
    /\ UNCHANGED <<api, inf, queued, rc, aliased, meta, budget,
                   sentinel, redisInf, sentinelInf>>

\* AlreadyExists for a create, NotFound for an update, or a fault.
EnsureRedisFailed ==
    /\ pc = "ensureRedis"
    /\ \/ (redisInf.replicas = 0 /\ redis.replicas # 0) /\ UNCHANGED budget
       \/ /\ redisInf.replicas # 0 /\ redis.replicas = 0
          /\ redisInf.replicas # meta.obj.spec.size
          /\ UNCHANGED budget
       \/ Fault
    /\ pc' = "failed"
    /\ UNCHANGED <<api, inf, queued, rc, aliased, meta, stsVars>>

\* An update keeps the pods, and with them the configuration they were sent.
SentinelFrom(spec, owner, old) ==
    [old EXCEPT !.replicas = spec.sentinel, !.owner = owner]

EnsureSentinelStatefulset ==
    /\ pc = "ensureSentinel"
    /\ \/ /\ sentinelInf.replicas = 0 /\ sentinel.replicas = 0
          /\ sentinel' = SentinelFrom(meta.obj.spec, rc.uid, NoSentinel)
          /\ pc' = "checkNumbers"
       \/ /\ sentinelInf.replicas # 0 /\ sentinel.replicas # 0
          /\ sentinelInf.replicas # meta.obj.spec.sentinel
          /\ sentinel' = SentinelFrom(meta.obj.spec, rc.uid, sentinel)
          /\ pc' = "checkNumbers"
       \/ /\ sentinelInf.replicas # 0
          /\ sentinelInf.replicas = meta.obj.spec.sentinel
          /\ pc' = "checkNumbers"
          /\ UNCHANGED sentinel
    /\ UNCHANGED <<api, inf, queued, rc, aliased, meta, budget,
                   redis, redisInf, sentinelInf>>

EnsureSentinelFailed ==
    /\ pc = "ensureSentinel"
    /\ \/ (sentinelInf.replicas = 0 /\ sentinel.replicas # 0) /\ UNCHANGED budget
       \/ /\ sentinelInf.replicas # 0 /\ sentinel.replicas = 0
          /\ sentinelInf.replicas # meta.obj.spec.sentinel
          /\ UNCHANGED budget
       \/ Fault
    /\ pc' = "failed"
    /\ UNCHANGED <<api, inf, queued, rc, aliased, meta, stsVars>>

(***************************************************************************)
(* CheckAndHeal.                                                           *)
(***************************************************************************)
\* CheckRedisNumber
RedisNumberOk ==
    /\ redisInf.replicas = meta.obj.spec.size
    /\ redisInf.ready = meta.obj.spec.size

\* CheckSentinelNumber
SentinelNumberOk == sentinelInf.replicas = meta.obj.spec.sentinel

\* A wrong number of redises asks for a requeue; a wrong number of sentinels
\* ends CheckAndHeal with "return nil", as if all were well.
CheckNumbers ==
    /\ pc = "checkNumbers"
    /\ pc' = IF ~RedisNumberOk THEN "requeue"
             ELSE IF ~SentinelNumberOk THEN "ready" ELSE "heal"
    /\ UNCHANGED <<api, inf, queued, rc, aliased, meta, budget, stsVars>>

\* The calls to the redises and sentinels (module SentinelHeal) need the
\* password the pods run with.  setSentinelConfig does nothing in a round
\* whose state is Check.
Heal ==
    /\ pc = "heal"
    /\ redis.replicas # 0 /\ meta.auth = redis.password
    /\ sentinel' = [sentinel EXCEPT
           !.conf = IF sentinel.replicas # 0 /\ meta.state # "check"
                    THEN meta.obj.gen ELSE @]
    /\ pc' = "sentinelReady"
    /\ UNCHANGED <<api, inf, queued, rc, aliased, meta, budget,
                   redis, redisInf, sentinelInf>>

HealFailed ==
    /\ pc = "heal"
    /\ \/ (redis.replicas = 0 \/ meta.auth # redis.password) /\ UNCHANGED budget
       \/ Fault
    /\ pc' = "failed"
    /\ UNCHANGED <<api, inf, queued, rc, aliased, meta, stsVars>>

EnsureSentinelReady ==
    /\ pc = "sentinelReady"
    /\ pc' = IF sentinelInf.replicas = 0 THEN "failed"
             ELSE IF sentinelInf.ready # meta.obj.spec.sentinel THEN "requeue"
             ELSE "ready"
    /\ UNCHANGED <<api, inf, queued, rc, aliased, meta, budget, stsVars>>

(***************************************************************************)
(* The end of Do: the verdict is set on rc and written with its status.    *)
(***************************************************************************)
\* Faulty variant: the verdict is written without a resourceVersion.
PublishForced(head) ==
    /\ api.alive
    /\ api' = [api EXCEPT !.head = head]
    /\ meta' = [meta EXCEPT !.obj = IF aliased THEN ServerCopy(api') ELSE Stale(@)]
    /\ InfBehind
    /\ EndRound
    /\ UNCHANGED <<queued, budget, stsVars>>

\* The write is applied; if rc is meta.Obj, the answer is decoded into it.
PublishOk(head) ==
    /\ rc.fresh
    /\ api' = [api EXCEPT !.head = head]
    /\ meta' = [meta EXCEPT !.obj = IF aliased THEN ServerCopy(api') ELSE Stale(@)]
    /\ InfBehind
    /\ EndRound
    /\ UNCHANGED <<queued, budget, stsVars>>

\* The write is refused, but the condition stays on the cached object.
PublishRefused(head) ==
    /\ Refused(rc)
    /\ meta' = [meta EXCEPT !.obj.head = IF aliased THEN head ELSE @]
    /\ EndRound
    /\ UNCHANGED <<api, inf, queued, stsVars>>

\* The write is applied, but its answer is lost.
PublishLost(head) ==
    /\ rc.fresh /\ Fault
    /\ api' = [api EXCEPT !.head = head]
    /\ meta' = [meta EXCEPT !.obj.head = IF aliased THEN head ELSE @,
                            !.obj.fresh = FALSE]
    /\ InfBehind
    /\ EndRound
    /\ UNCHANGED <<queued, stsVars>>

Publish(head) == PublishOk(head) \/ PublishRefused(head) \/ PublishLost(head)

\* ErrNeedRequeue: only a CR that was Healthy gets a new condition.
Requeue ==
    /\ pc = "requeue"
    /\ IF rc.head = "Healthy"
       THEN Publish("Creating")
       ELSE EndRound /\ UNCHANGED <<api, inf, queued, meta, budget, stsVars>>

SetFailed == pc = "failed" /\ Publish("Failed")

SetReady == pc = "ready" /\ Publish("Healthy")

Operator ==
    \/ ReconcileNotFound \/ ReconcileInvalid \/ ReconcileModified \/ ReconcileDo
    \/ UpdateSpecOk \/ UpdateSpecRefused
    \/ UpdateStatusOk \/ UpdateStatusRefused \/ UpdateStatusLost
    \/ EnsureRedisStatefulset \/ EnsureRedisFailed
    \/ EnsureSentinelStatefulset \/ EnsureSentinelFailed
    \/ CheckNumbers \/ Heal \/ HealFailed \/ EnsureSentinelReady
    \/ Requeue \/ SetFailed \/ SetReady

(***************************************************************************)
(* A restart of the operator loses everything it has in memory; its        *)
(* informers list the objects anew and report every CR as created.         *)
(***************************************************************************)
Restart ==
    /\ budget.crashes > 0
    /\ budget' = [budget EXCEPT !.crashes = @ - 1]
    /\ EndRound
    /\ meta' = NoMeta
    /\ inf' = [known |-> api.alive, obj |-> IF api.alive THEN ServerCopy(api) ELSE NoObj]
    /\ queued' = api.alive
    /\ redisInf' = redis /\ sentinelInf' = sentinel
    /\ UNCHANGED <<api, redis, sentinel>>

(***************************************************************************)
(* The users of the CR and the rest of Kubernetes.                         *)
(***************************************************************************)
\* The server took a write of somebody else: every copy is behind.
CopiesBehind ==
    /\ InfBehind
    /\ meta' = [meta EXCEPT !.obj = Stale(@)]
    /\ rc' = Stale(rc)

UserCreate ==
    /\ ~api.alive /\ api.uid <= Budget.deletes
    /\ \E s \in Specs :
           api' = [alive |-> TRUE, uid |-> api.uid + 1, gen |-> 1,
                   spec |-> s, head |-> NoCondition]
    /\ UNCHANGED <<inf, queued, pc, rc, aliased, meta, budget, stsVars>>

UserEdit ==
    /\ api.alive /\ budget.edits > 0
    /\ budget' = [budget EXCEPT !.edits = @ - 1]
    /\ \E s \in Specs \ {api.spec} : api' = [api EXCEPT !.gen = @ + 1, !.spec = s]
    /\ CopiesBehind
    /\ UNCHANGED <<queued, pc, aliased, stsVars>>

UserDelete ==
    /\ api.alive /\ budget.deletes > 0
    /\ budget' = [budget EXCEPT !.deletes = @ - 1]
    /\ api' = [api EXCEPT !.alive = FALSE]
    /\ CopiesBehind
    /\ UNCHANGED <<queued, pc, aliased, stsVars>>

\* The informer catches up.  The event filter queues the key when the CR
\* appears, disappears or has a new generation, not for a status change.
SyncCR ==
    LET new == [known |-> api.alive, obj |-> IF api.alive THEN ServerCopy(api) ELSE NoObj]
    IN  /\ inf # new
        /\ inf' = new
        /\ queued' = (queued \/ inf.known # new.known \/ inf.obj.gen # new.obj.gen)
        /\ UNCHANGED <<api, pc, rc, aliased, meta, budget, stsVars>>

SyncRedis ==
    /\ redisInf # redis
    /\ redisInf' = redis
    /\ UNCHANGED <<api, inf, queued, pc, rc, aliased, meta, budget,
                   redis, sentinel, sentinelInf>>

SyncSentinel ==
    /\ sentinelInf # sentinel
    /\ sentinelInf' = sentinel
    /\ UNCHANGED <<api, inf, queued, pc, rc, aliased, meta, budget,
                   redis, sentinel, redisInf>>

\* The StatefulSet controller brings the pods to the wanted number.
RedisPodsReady ==
    /\ redis.ready # redis.replicas
    /\ redis' = [redis EXCEPT !.ready = redis.replicas]
    /\ UNCHANGED <<api, inf, queued, pc, rc, aliased, meta, budget,
                   sentinel, redisInf, sentinelInf>>

SentinelPodsReady ==
    /\ sentinel.ready # sentinel.replicas
    /\ sentinel' = [sentinel EXCEPT !.ready = sentinel.replicas]
    /\ UNCHANGED <<api, inf, queued, pc, rc, aliased, meta, budget,
                   redis, redisInf, sentinelInf>>

\* Pods become unready, or somebody deletes a StatefulSet.
Disruption ==
    /\ Fault
    /\ \/ redis' = [redis EXCEPT !.ready = 0] /\ UNCHANGED sentinel
       \/ redis' = NoRedis /\ UNCHANGED sentinel
       \/ sentinel' = [sentinel EXCEPT !.ready = 0] /\ UNCHANGED redis
       \/ sentinel' = NoSentinel /\ UNCHANGED redis
    /\ UNCHANGED <<api, inf, queued, pc, rc, aliased, meta, redisInf, sentinelInf>>

Orphan(sts) ==
    sts.replicas # 0 /\ sts.owner # 0 /\ ~(api.alive /\ sts.owner = api.uid)

\* The garbage collector removes what belongs to a CR that is gone.
CollectRedis ==
    /\ Orphan(redis) /\ redis' = NoRedis
    /\ UNCHANGED <<api, inf, queued, pc, rc, aliased, meta, budget,
                   sentinel, redisInf, sentinelInf>>

CollectSentinel ==
    /\ Orphan(sentinel) /\ sentinel' = NoSentinel
    /\ UNCHANGED <<api, inf, queued, pc, rc, aliased, meta, budget,
                   redis, redisInf, sentinelInf>>

Informers == SyncCR \/ SyncRedis \/ SyncSentinel
Kubernetes == RedisPodsReady \/ SentinelPodsReady \/ CollectRedis \/ CollectSentinel
Users == UserCreate \/ UserEdit \/ UserDelete \/ Disruption

Next == Operator \/ Restart \/ Informers \/ Kubernetes \/ Users

Spec == Init /\ [][Next]_vars

(***************************************************************************)
(* A worker takes every round to its end and every queued key again (all   *)
(* results requeue); informers and the controllers of Kubernetes make      *)
(* progress.  Nothing forces a user, a fault or a restart.                 *)
(***************************************************************************)
Fairness ==
    /\ WF_vars(Operator)
    /\ WF_vars(SyncCR) /\ WF_vars(SyncRedis) /\ WF_vars(SyncSentinel)
    /\ WF_vars(RedisPodsReady) /\ WF_vars(SentinelPodsReady)
    /\ WF_vars(CollectRedis) /\ WF_vars(CollectSentinel)

FairSpec == Spec /\ Fairness
----------------------------------------------------------------------------
(***************************************************************************)
(* Properties.                                                             *)
(***************************************************************************)
\* Every variable has the shape the code gives it.
TypeOK ==
    /\ api \in ApiType
    /\ inf \in InfType
    /\ redis \in RedisType /\ redisInf \in RedisType
    /\ sentinel \in SentinelType /\ sentinelInf \in SentinelType
    /\ queued \in BOOLEAN
    /\ pc \in Steps
    /\ rc \in ObjType
    /\ aliased \in BOOLEAN
    /\ meta \in MetaType
    /\ budget \in BudgetType

SameButPassword(s, t) == s.size = t.size /\ s.sentinel = t.sentinel /\ s.image = t.image

Complete(s) == ~Invalid(s) /\ Defaulted(s) = s

Rolling == {"updateStatus", "ensureRedis", "ensureSentinel", "checkNumbers",
            "heal", "sentinelReady", "requeue", "failed", "ready"}

\* Two copies of one generation of one CR differ in the password at most.
Agree(x, y) == x.uid = y.uid /\ x.gen = y.gen => SameButPassword(x.spec, y.spec)

\* x is not ahead of y.
Behind(x, y) == x.uid <= y.uid /\ (x.uid = y.uid => x.gen <= y.gen)

\* No copy is ahead of the server, the cache is not ahead of the informer
\* (of the same CR), and copies of the same generation agree: what MetaMap.Update
\* relies on when it compares generations alone.
CopiesInOrder ==
    /\ Behind(inf.obj, api) /\ Agree(inf.obj, api)
    /\ Behind(meta.obj, api) /\ Agree(meta.obj, api)
    /\ Agree(meta.obj, inf.obj)
    /\ meta.present /\ inf.known /\ meta.obj.uid = inf.obj.uid
           => meta.obj.gen <= inf.obj.gen

\* A cached object has passed Validate with nothing left to default, though it
\* is overwritten by whatever the server answers to a status write.
CacheComplete ==
    /\ meta.present => Complete(meta.obj.spec)
    /\ pc \in Rolling => meta.present

\* The object a round works from, meta.Obj, is never another version than the
\* one the round fetched, rc (of the same CR): MetaMap.Update may keep the
\* cached object only when nothing but the password could differ.
RoundActsOnFetchedSpec ==
    pc \in Rolling /\ meta.obj.uid = rc.uid
        => meta.obj.gen = rc.gen /\ SameButPassword(meta.obj.spec, rc.spec)

\* Validate's minimum holds for what is deployed, whatever users write at any
\* time between the fetch of the CR and the writes of the StatefulSets.
MinimumDeployed ==
    /\ redis.replicas = 0 \/ redis.replicas >= MinRedis
    /\ sentinel.replicas = 0 \/ sentinel.replicas >= MinSentinels

\* What UpdateSentinelSpec writes is what Validate makes of the spec the server
\* has: an edit made between the fetch and the write is not overwritten.
NoLostUserEdit ==
    [][pc = "updateSpec" /\ api'.spec # api.spec /\ pc' = "idle"
         => api'.spec = Defaulted(api.spec)]_vars

\* A Healthy or Failed condition that reaches the server was decided on the
\* spec the server has at that moment.
VerdictForCurrentSpec ==
    [][pc' = "idle" /\ pc \in {"ready", "failed"} /\ api' # api /\ meta.obj.uid = api.uid
         => meta.obj.gen = api.gen /\ SameButPassword(meta.obj.spec, api.spec)]_vars

\* The cached object never goes back to an older generation of the same CR,
\* though it is refreshed both from a lagging informer and from write answers.
NoSpecRollback ==
    [][meta.present /\ meta'.present /\ meta'.obj.uid = meta.obj.uid
         => meta'.obj.gen >= meta.obj.gen]_vars

\* The redises and the sentinels run in the numbers the spec asks for.  Nothing
\* is said of the image: EnsureRedisStatefulset does not compare it, and an edit
\* of the image alone changes no StatefulSet.
Scaled ==
    /\ redis.replicas = Defaulted(api.spec).size
    /\ sentinel.replicas = Defaulted(api.spec).sentinel
    /\ redis.ready = redis.replicas /\ sentinel.ready = sentinel.replicas

\* Once users and faults are done, the numbers of the last valid spec run:
\* Ensure compares them in a lagging copy of each StatefulSet, in rounds that
\* work from a cached object and may end at any failed or lost call.
EventuallyScaled == <>[](api.alive /\ ~Invalid(api.spec) => Scaled)

\* ... and the CR says Healthy.
EventuallyHealthy == <>[](api.alive /\ ~Invalid(api.spec) => api.head = "Healthy")

\* After the last deletion of the CR nothing of it stays behind, although a
\* round in progress may still create StatefulSets for the deleted CR.
EventuallyCollected ==
    <>[](~api.alive => redis = NoRedis /\ sentinel = NoSentinel /\ ~meta.present)

(***************************************************************************)
(* What comments of the code claim and the code does not do.               *)
(***************************************************************************)
\* MetaMap.Update: "Password change is not allowed".  The pods of a CR keep
\* the password they were created with.
PasswordPinned ==
    [][redis.replicas # 0 /\ redis'.replicas # 0 /\ redis'.owner = redis.owner
         => redis'.password = redis.password]_vars

\* Do: "will ensure the RedisSentinel is in the expected state".  The custom
\* configuration of the current generation is sent to the sentinels.
EventuallyConfigured ==
    <>[](api.alive /\ ~Invalid(api.spec) => sentinel.conf = api.gen)
============================================================================
