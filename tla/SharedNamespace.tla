-------------------------- MODULE SharedNamespace --------------------------
(***************************************************************************)
(* Both controllers at work in one namespace: events, work queue and       *)
(* workers, Ensure, the garbage collector, and the health gauge.  CRs of   *)
(* the two kinds do not know of each other, but namesakes share what is    *)
(* found by name: the shutdown config map, which both kinds generate under *)
(* one name, and the gauge, which is kept by name without the kind.        *)
(*                                                                         *)
(* A CR is its kind and its name, and is created once.  Its spec is valid  *)
(* and does not change; edits, re-creation and the copies of the CR are in *)
(* SentinelReconcile, and late informers of a CR's own objects in          *)
(* StandaloneReconcile.  Here only the shared object is seen late.         *)
(***************************************************************************)
EXTENDS Naturals, Sequences, FiniteSets

CONSTANTS
    CRs,       \* the custom resources users may create
    Exporter,  \* those with an exporter
    Deletes,   \* how many CRs users may delete
    Faults     \* how many calls may fail, pods end and operators restart

Kinds == {"RedisSentinel", "RedisStandalone"}
KindOf(c) == c[1]
NameOf(c) == c[2]

ASSUME CRsAssumption ==
    (\A c \in CRs : KindOf(c) \in Kinds) /\ Exporter \subseteq CRs
ASSUME BudgetAssumption == Deletes \in Nat /\ Faults \in Nat

(***************************************************************************)
(* The objects of a RedisSentinel, by type and name, and of a              *)
(* RedisStandalone.                                                        *)
(***************************************************************************)
GenerateName(type, name) == <<type, name>>

SentinelService(n) == <<"Service", GenerateName("-sentinel", n)>>
RedisService(n) == <<"Service", GenerateName("-worker", n)>>
RedisMonitorService(n) == <<"Service", GenerateName("-worker", n), "-monitor">>
HeadLessSvcForCR(n) == <<"Service", GenerateName("-sentinel-headless", n)>>
SentinelConfigMap(n) == <<"ConfigMap", GenerateName("-sentinel", n)>>
SentinelReadinessProbeConfigMap(n) == <<"ConfigMap", GenerateName("-sentinel-readiness", n)>>
RedisShutdownConfigMap(n) == <<"ConfigMap", GenerateName("r-s", n)>>
PodDisruptionBudget(type, n) == <<"PodDisruptionBudget", GenerateName(type, n)>>
RedisStatefulSet(n) == <<"StatefulSet", GenerateName("-worker", n)>>
SentinelStatefulSet(n) == <<"StatefulSet", GenerateName("-sentinel", n)>>

StandaloneService(n) == <<"Service", GenerateName("-standalone", n)>>
StandaloneHeadlessService(n) == <<"Service", GenerateName("-standalone", n), "-headless">>
StandaloneMonitorService(n) == <<"Service", GenerateName("-standalone", n), "-monitor">>
StandaloneConfigMap(n) == <<"ConfigMap", GenerateName("-standalone", n)>>
StandaloneShutdownConfigMap(n) == <<"ConfigMap", GenerateName("r-s", n)>>
StandaloneStatefulSet(n) == <<"StatefulSet", GenerateName("-standalone", n)>>

\* An object only an enabled exporter needs.
IfExporter(c, object) == IF c \in Exporter THEN <<object>> ELSE <<>>

(***************************************************************************)
(* What Ensure goes through, in its order and in three parts.  No other CR *)
(* has a name for what is in the first and the third part, so nobody sees  *)
(* in which of their states another worker's step falls.                   *)
(***************************************************************************)
EnsureSentinel(c) ==
    LET n == NameOf(c) IN
    << <<RedisService(n), SentinelService(n), HeadLessSvcForCR(n)>>
           \o IfExporter(c, RedisMonitorService(n))
           \o <<SentinelConfigMap(n), SentinelReadinessProbeConfigMap(n)>>,
       <<RedisShutdownConfigMap(n)>>,
       <<PodDisruptionBudget("-cluster", n), RedisStatefulSet(n),
         PodDisruptionBudget("-sentinel", n), SentinelStatefulSet(n)>> >>

EnsureStandalone(c) ==
    LET n == NameOf(c) IN
    << <<StandaloneService(n), StandaloneHeadlessService(n), StandaloneConfigMap(n)>>,
       <<StandaloneShutdownConfigMap(n)>>,
       IfExporter(c, StandaloneMonitorService(n)) \o <<StandaloneStatefulSet(n)>> >>

Ensure(c) == IF KindOf(c) = "RedisSentinel" THEN EnsureSentinel(c) ELSE EnsureStandalone(c)

Elements(s) == {s[i] : i \in DOMAIN s}
Needs(c) == UNION {Elements(part) : part \in Elements(Ensure(c))}
Objects == UNION {Needs(c) : c \in CRs}
SharedObjects ==
    {o \in Objects : \E c, d \in CRs : c # d /\ o \in Needs(c) \cap Needs(d)}
Sets(c) == {o \in Elements(Ensure(c)[3]) : o[1] = "StatefulSet"}

\* What lets Ensure take the first and the third part in one step.
ASSUME PartsAssumption ==
    \A c \in CRs, i \in {1, 3} : Elements(Ensure(c)[i]) \cap SharedObjects = {}

\* Pods mount config maps, and StatefulSets make them.
PodsNeed(c) == {o \in Needs(c) : o[1] \in {"ConfigMap", "StatefulSet"}}
Names == {NameOf(c) : c \in CRs}

VARIABLES
    crs,    \* each CR at the API server
    known,  \* the CRs in the informer
    objs,   \* the objects at the API server, with their owner references
    seen,   \* the shared objects in the informer
    ready,  \* the CRs whose pods are ready
    queue,  \* the keys in the work queues
    pc,     \* the step of the worker that has the CR's key
    at,     \* the part Ensure is at
    meta,   \* the CRs with an entry in the MetaMap
    gauge,  \* clusterHealthy
    faults  \* faults left

objVars == <<objs, seen, ready>>
crVars == <<crs, known>>
vars == <<crs, known, objs, seen, ready, queue, pc, at, meta, gauge, faults>>

Init ==
    /\ crs = [c \in CRs |-> "none"] /\ known = {}
    /\ objs = {} /\ seen = {} /\ ready = {}
    /\ queue = {} /\ pc = [c \in CRs |-> "idle"] /\ at = [c \in CRs |-> 1]
    /\ meta = {}
    /\ gauge = [n \in Names |-> "none"]
    /\ faults = Faults

Live == {c \in CRs : crs[c] = "live"}

Present == {x.obj : x \in objs}

Fault == faults > 0 /\ faults' = faults - 1

(***************************************************************************)
(* The rounds.  A key is with one worker at a time.                        *)
(***************************************************************************)
Goto(c, step) == pc' = [pc EXCEPT ![c] = step]

\* Whatever a round of Do returns, the key comes back to the queue.
EndRound(c) ==
    /\ Goto(c, "idle") /\ at' = [at EXCEPT ![c] = 1]
    /\ queue' = queue \cup {c}

Set(c, value) == gauge' = [gauge EXCEPT ![NameOf(c)] = value]

\* The CR is not in the informer: its entry goes, and the key stays away.
ReconcileNotFound(c) ==
    /\ pc[c] = "idle" /\ c \in queue /\ c \notin known
    /\ queue' = queue \ {c}
    /\ meta' = meta \ {c}
    /\ UNCHANGED <<crVars, objVars, pc, at, gauge, faults>>

\* Do up to Ensure.  The first round writes a condition, later ones do not.
ReconcileDo(c) ==
    /\ pc[c] = "idle" /\ c \in queue /\ c \in known
    /\ c \in meta \/ c \in Live
    /\ queue' = queue \ {c}
    /\ meta' = meta \cup {c}
    /\ Goto(c, "ensure")
    /\ UNCHANGED <<crVars, objVars, at, gauge, faults>>

\* updateStatus fails: the CR is gone, or the call fails.
UpdateStatusFailed(c) ==
    /\ pc[c] = "idle" /\ c \in queue /\ c \in known \ meta
    /\ (c \notin Live /\ UNCHANGED faults) \/ Fault
    /\ meta' = meta \cup {c}
    /\ EndRound(c)
    /\ UNCHANGED <<crVars, objVars, gauge>>

\* Faulty variant: an object without owner references.
CreateOwnerReferencesNone(c) == {}

\* Faulty variant: both controllers refer to a RedisSentinel of the name.
CreateOwnerReferencesOneKind(c) == {d \in CRs : d = <<"RedisSentinel", NameOf(c)>>}

CreateOwnerReferences(c) == {c}

\* The first k objects of the part Ensure is at.
UpTo(c, k) == {Ensure(c)[at[c]][i] : i \in 1 .. k}
Last(c) == Len(Ensure(c)[at[c]])

\* What Get does not find: the informer may not have seen a shared object, and
\* may still have one that was collected.
Missing(os) == {o \in os : IF o \in SharedObjects THEN o \notin seen ELSE o \notin Present}

Create(c, os) ==
    objs' = objs \cup {[obj |-> o, refs |-> CreateOwnerReferences(c)] : o \in Missing(os)}

\* Faulty variant: the index runs past the last part.
AdvancePastEnd(c) ==
    /\ at' = [at EXCEPT ![c] = @ + 1]
    /\ pc' = [pc EXCEPT ![c] = IF at[c] = Len(Ensure(c)) THEN "check" ELSE @]

Advance(c) ==
    IF at[c] = Len(Ensure(c))
    THEN Goto(c, "check") /\ UNCHANGED at
    ELSE at' = [at EXCEPT ![c] = @ + 1] /\ UNCHANGED pc

\* Faulty variant: no object is looked for in a round that finds the gauge set.
CreateIfNotExistsOnce(c) ==
    /\ pc[c] = "ensure"
    /\ Missing(UpTo(c, Last(c))) \cap Present = {}
    /\ IF gauge[NameOf(c)] = "ok" THEN UNCHANGED objs ELSE Create(c, UpTo(c, Last(c)))
    /\ Advance(c)
    /\ UNCHANGED <<crVars, seen, ready, queue, meta, gauge, faults>>

\* CreateIfNotExists..., and the StatefulSets, whose fields do not change here:
\* what is found under a name is taken for the object, whoever it belongs to.
CreateIfNotExists(c) ==
    /\ pc[c] = "ensure"
    /\ Missing(UpTo(c, Last(c))) \cap Present = {}
    /\ Create(c, UpTo(c, Last(c)))
    /\ Advance(c)
    /\ UNCHANGED <<crVars, seen, ready, queue, meta, gauge, faults>>

\* Ensure stops where a name is taken, or at a call that fails.
EnsureFailed(c) ==
    /\ pc[c] = "ensure"
    /\ \/ /\ Missing(UpTo(c, Last(c))) \cap Present # {}
          /\ UNCHANGED <<objs, faults>>
       \/ /\ Fault
          /\ \E k \in 0 .. Last(c) - 1 :
                 /\ Missing(UpTo(c, k)) \cap Present = {}
                 /\ Create(c, UpTo(c, k))
    /\ Goto(c, "failed")
    /\ UNCHANGED <<crVars, seen, ready, queue, at, meta, gauge>>

\* CheckAndHeal.  Where it fails or asks for a requeue, the gauge is set before
\* anything is written.
CheckAndHealOk(c) ==
    /\ pc[c] = "check" /\ c \in ready /\ Sets(c) \subseteq Present
    /\ Goto(c, "ready")
    /\ UNCHANGED <<crVars, objVars, queue, at, meta, gauge, faults>>

CheckAndHealError(c) ==
    /\ pc[c] = "check"
    /\ \/ ~(c \in ready /\ Sets(c) \subseteq Present) /\ UNCHANGED faults
       \/ Fault
    /\ Set(c, "error")
    /\ EndRound(c)
    /\ UNCHANGED <<crVars, objVars, meta>>

\* The verdict is written, and the gauge set in a step of its own.
Publish(c) ==
    /\ pc[c] \in {"failed", "ready"} /\ c \in Live
    /\ Goto(c, IF pc[c] = "ready" THEN "ok" ELSE "error")
    /\ UNCHANGED <<crVars, objVars, queue, at, meta, gauge, faults>>

PublishFailed(c) ==
    /\ pc[c] \in {"failed", "ready"}
    /\ (c \notin Live /\ UNCHANGED faults) \/ Fault
    /\ EndRound(c)
    /\ UNCHANGED <<crVars, objVars, meta, gauge>>

\* Faulty variant: only a gauge that is there is set.
ReportKnown(c) ==
    /\ pc[c] \in {"ok", "error"}
    /\ gauge' = [gauge EXCEPT ![NameOf(c)] = IF @ = "none" THEN @ ELSE pc[c]]
    /\ EndRound(c)
    /\ UNCHANGED <<crVars, objVars, meta, faults>>

\* SetClusterOK, SetClusterError
Report(c) ==
    /\ pc[c] \in {"ok", "error"}
    /\ Set(c, pc[c])
    /\ EndRound(c)
    /\ UNCHANGED <<crVars, objVars, meta, faults>>

Round(c) ==
    \/ ReconcileNotFound(c) \/ ReconcileDo(c) \/ UpdateStatusFailed(c)
    \/ CreateIfNotExists(c) \/ EnsureFailed(c)
    \/ CheckAndHealOk(c) \/ CheckAndHealError(c)
    \/ Publish(c) \/ PublishFailed(c) \/ Report(c)

(***************************************************************************)
(* The events, whose predicates run in the goroutine of the informer.      *)
(***************************************************************************)
\* CreateFunc
CreateEvent(c) ==
    /\ c \in Live \ known
    /\ known' = known \cup {c}
    /\ queue' = queue \cup {c}
    /\ UNCHANGED <<crs, objVars, pc, at, meta, gauge, faults>>

\* DeleteFunc: only that of RedisSentinel removes the gauge.  If the watch has
\* missed the deletion (a fault), the key is not queued.
DeleteEvent(c) ==
    /\ c \in known \ Live
    /\ known' = known \ {c}
    /\ gauge' = [gauge EXCEPT ![NameOf(c)] =
                    IF KindOf(c) = "RedisSentinel" THEN "none" ELSE @]
    /\ \/ queue' = queue \cup {c} /\ UNCHANGED faults
       \/ Fault /\ UNCHANGED queue
    /\ UNCHANGED <<crs, objVars, pc, at, meta>>

SyncObjects ==
    /\ seen # SharedObjects \cap Present
    /\ seen' = SharedObjects \cap Present
    /\ UNCHANGED <<crVars, objs, ready, queue, pc, at, meta, gauge, faults>>

\* A restart loses queue, entries and gauges, and lists everything anew.
Restart ==
    /\ Fault
    /\ known' = Live /\ queue' = Live /\ seen' = SharedObjects \cap Present
    /\ pc' = [c \in CRs |-> "idle"] /\ at' = [c \in CRs |-> 1]
    /\ meta' = {} /\ gauge' = [n \in Names |-> "none"]
    /\ UNCHANGED <<crs, objs, ready>>

(***************************************************************************)
(* Users and the rest of Kubernetes.                                       *)
(***************************************************************************)
UserCreate(c) ==
    /\ crs[c] = "none" /\ crs' = [crs EXCEPT ![c] = "live"]
    /\ UNCHANGED <<known, objVars, queue, pc, at, meta, gauge, faults>>

UserDelete(c) ==
    /\ Cardinality({d \in CRs : crs[d] = "gone"}) < Deletes
    /\ c \in Live /\ crs' = [crs EXCEPT ![c] = "gone"]
    /\ UNCHANGED <<known, objVars, queue, pc, at, meta, gauge, faults>>

\* The garbage collector removes what only has owners that are gone, the shared
\* object before or after the others; the pods go with their StatefulSets.
Collect(some) ==
    LET garbage == {x \in objs : x.obj \in some /\ x.refs # {} /\ x.refs \cap Live = {}} IN
    /\ garbage # {}
    /\ objs' = objs \ garbage
    /\ ready' = {c \in ready : Sets(c) \cap {x.obj : x \in garbage} = {}}
    /\ UNCHANGED <<crVars, seen, queue, pc, at, meta, gauge, faults>>

\* Pods start once the config maps they mount exist.
PodsReady(c) ==
    /\ c \notin ready /\ PodsNeed(c) \subseteq Present
    /\ ready' = ready \cup {c}
    /\ UNCHANGED <<crVars, objs, seen, queue, pc, at, meta, gauge, faults>>

PodsEnd(c) ==
    /\ c \in ready /\ Fault
    /\ ready' = ready \ {c}
    /\ UNCHANGED <<crVars, objs, seen, queue, pc, at, meta, gauge>>

Next ==
    \/ \E c \in CRs : Round(c) \/ CreateEvent(c) \/ DeleteEvent(c)
    \/ \E c \in CRs : UserCreate(c) \/ UserDelete(c) \/ PodsReady(c) \/ PodsEnd(c)
    \/ Collect(SharedObjects) \/ Collect(Objects \ SharedObjects) \/ SyncObjects \/ Restart

Spec == Init /\ [][Next]_vars

\* Rounds, informers, the garbage collector and the StatefulSet controller go
\* on; nothing forces a user or a fault.
Fairness ==
    /\ \A c \in CRs : WF_vars(Round(c)) /\ WF_vars(CreateEvent(c)) /\ WF_vars(DeleteEvent(c))
    /\ \A c \in CRs : WF_vars(PodsReady(c))
    /\ WF_vars(SyncObjects) /\ WF_vars(Collect(SharedObjects)) /\ WF_vars(Collect(Objects \ SharedObjects))

FairSpec == Spec /\ Fairness
----------------------------------------------------------------------------
(***************************************************************************)
(* Properties.                                                             *)
(***************************************************************************)
\* Every variable has the shape the code gives it.
TypeOK ==
    /\ crs \in [CRs -> {"none", "live", "gone"}] /\ known \subseteq CRs
    /\ objs \subseteq [obj : Objects, refs : SUBSET CRs]
    /\ seen \subseteq SharedObjects /\ ready \subseteq CRs
    /\ queue \subseteq CRs /\ meta \subseteq CRs
    /\ pc \in [CRs -> {"idle", "ensure", "check", "failed", "ready", "ok", "error"}]
    /\ at \in [CRs -> 1 .. 3]
    /\ gauge \in [Names -> {"none", "ok", "error"}]
    /\ faults \in 0 .. Faults

\* The deletion of a CR takes nothing from its namesake but the object they share:
\* what only a live CR has a name for stays, in whatever order the two CRs, their
\* workers and the garbage collector take their steps.
LiveObjectsStay == [][\A c \in Live : (Needs(c) \ SharedObjects) \cap Present \subseteq Present']_vars

\* Once users and faults are done, every object a live CR needs exists, also
\* one that was found under the name of another CR's object and has since been
\* collected with that CR, ...
EventuallyAllPresent == <>[](\A c \in Live : Needs(c) \subseteq Present)

\* ... nothing is left of the CRs that were deleted, neither objects, those
\* included that a round created after the deletion, nor entries of the MetaMap, ...
EventuallyNothingElse == <>[](Present \subseteq UNION {Needs(c) : c \in Live} /\ meta \subseteq Live)

\* ... and a CR that is alone with its name is reported healthy, although the
\* delete event and the last round of its namesake have written to its gauge.
EventuallyReported ==
    <>[](\A c \in Live : (\A d \in Live \ {c} : NameOf(d) # NameOf(c))
                            => gauge[NameOf(c)] = "ok")
============================================================================
