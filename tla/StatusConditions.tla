-------------------------- MODULE StatusConditions --------------------------
(***************************************************************************)
(* The list status.conditions of a CR: the Set...Condition methods write   *)
(* an element in place or append it, UpdateSentinelStatus sorts the list   *)
(* by LastUpdateAt and sends it.  LastUpdateAt is not serialised           *)
(* (json:"-"), so the sort works with stamps that only live in memory.     *)
(***************************************************************************)
EXTENDS Naturals, Sequences, FiniteSets

CONSTANTS
    Types,     \* condition types
    Copies,    \* the objects in the operator's memory: rc and meta.Obj
    MaxClock   \* how many conditions are set

ASSUME ClockAssumption == MaxClock \in Nat

VARIABLES
    srv,    \* the list at the API server
    mem,    \* the list of each object in memory
    fresh,  \* the objects whose resourceVersion is the server's
    clock

vars == <<srv, mem, fresh, clock>>

Init ==
    /\ srv = <<>>
    /\ mem = [c \in Copies |-> <<>>]
    /\ fresh = {}
    /\ clock = 0

(***************************************************************************)
(* A condition is its type and its LastUpdateAt (0 is the zero value).     *)
(* Reason, message and the serialised times do not influence the list.     *)
(***************************************************************************)
NewClusterCondition(t, now) == [type |-> t, at |-> now]

\* Faulty variant: never looks for an element of the type.
SetClusterConditionAppends(list, cond) == Append(list, cond)

\* setClusterCondition: an element of the type is replaced, or only stamped.
SetClusterCondition(list, cond) ==
    IF \E i \in DOMAIN list : list[i].type = cond.type
    THEN [i \in DOMAIN list |-> IF list[i].type = cond.type THEN cond ELSE list[i]]
    ELSE Append(list, cond)

\* Faulty variant: the oldest comes first.
AscConditionsByTime(list) ==
    LET Place(i) == Cardinality({j \in DOMAIN list :
                        \/ list[j].at < list[i].at
                        \/ list[j].at = list[i].at /\ j <= i})
    IN  [k \in DOMAIN list |-> list[CHOOSE i \in DOMAIN list : Place(i) = k]]

\* DescConditionsByTime: sort.Slice sorts so few elements by insertion, which
\* leaves equal ones in their order.
DescConditionsByTime(list) ==
    LET Place(i) == Cardinality({j \in DOMAIN list :
                        \/ list[j].at > list[i].at
                        \/ list[j].at = list[i].at /\ j <= i})
    IN  [k \in DOMAIN list |-> list[CHOOSE i \in DOMAIN list : Place(i) = k]]

\* What is left of a list in JSON.
Serialised(list) == [i \in DOMAIN list |-> [list[i] EXCEPT !.at = 0]]

\* A decoder that fills the old elements keeps their stamps, another one does not.
Decoded(list) == {list, Serialised(list)}

(***************************************************************************)
(* Reconcile fetches an object from the informer, decoded into a new one.  *)
(* The informer's copy is taken to be the server's: the list of an older   *)
(* one cannot be written, its resourceVersion is refused.                  *)
(***************************************************************************)
Fetch(c) ==
    /\ mem' = [mem EXCEPT ![c] = srv]
    /\ fresh' = fresh \cup {c}
    /\ UNCHANGED <<srv, clock>>

(***************************************************************************)
(* A Set...Condition method, then UpdateSentinelStatus.                    *)
(***************************************************************************)
ToSend(c, t) ==
    DescConditionsByTime(SetClusterCondition(mem[c], NewClusterCondition(t, clock + 1)))

Tick == clock < MaxClock /\ clock' = clock + 1

UpdateSentinelStatusOk(c, t) ==
    /\ Tick /\ c \in fresh
    /\ srv' = Serialised(ToSend(c, t))
    /\ \E list \in Decoded(ToSend(c, t)) : mem' = [mem EXCEPT ![c] = list]
    /\ fresh' = {c}

\* A conflict, or a call that fails before the server sees it.
UpdateSentinelStatusRefused(c, t) ==
    /\ Tick
    /\ mem' = [mem EXCEPT ![c] = ToSend(c, t)]
    /\ UNCHANGED <<srv, fresh>>

\* The write is applied, but its answer is lost.
UpdateSentinelStatusLost(c, t) ==
    /\ Tick /\ c \in fresh
    /\ srv' = Serialised(ToSend(c, t))
    /\ mem' = [mem EXCEPT ![c] = ToSend(c, t)]
    /\ fresh' = {}

Next ==
    \E c \in Copies :
        \/ Fetch(c)
        \/ \E t \in Types :
               \/ UpdateSentinelStatusOk(c, t)
               \/ UpdateSentinelStatusRefused(c, t)
               \/ UpdateSentinelStatusLost(c, t)

Spec == Init /\ [][Next]_vars
----------------------------------------------------------------------------
(***************************************************************************)
(* Properties.                                                             *)
(***************************************************************************)
TypesOf(list) == [i \in DOMAIN list |-> list[i].type]

Recency == INSTANCE StatusRecency
               WITH srv <- TypesOf(srv), mem <- [c \in Copies |-> TypesOf(mem[c])]

\* The list the server has is ordered by recency and its head is the condition
\* set last, although the stamps it is sorted by are lost by every fetch and by
\* some decodes, and survive refused writes.
ListedByRecency == Recency!Spec

\* No type is listed twice, here or at the server: an element that is set again
\* after a refused write or a lost answer is found and replaced.
OneEntryPerType ==
    \A list \in {srv} \cup {mem[c] : c \in Copies} :
        \A i, j \in DOMAIN list : list[i].type = list[j].type => i = j
============================================================================
