--------------------------- MODULE StatusRecency ---------------------------
(***************************************************************************)
(* What readers of status.conditions rely on (status[0].Type in            *)
(* SentinelHandler.Do, Conditions[0] in the e2e framework): the conditions *)
(* are listed by how recently they were set, so the first one is the last  *)
(* one set on the object that was sent.                                    *)
(***************************************************************************)
EXTENDS Naturals, Sequences

CONSTANTS
    Types,   \* condition types
    Copies   \* the objects in the operator's memory: rc and meta.Obj

VARIABLES
    srv,  \* the condition types at the API server
    mem   \* the condition types of each object in memory

vars == <<srv, mem>>

\* t comes first, and what was before it moves back by one.  A new t stands
\* behind the last one.
MoveToFront(t, list) ==
    LET here == {i \in DOMAIN list : list[i] = t}
        p == IF here = {} THEN Len(list) + 1 ELSE CHOOSE i \in here : TRUE
    IN  [k \in DOMAIN list \cup {p} |->
            IF k = 1 THEN t ELSE IF k <= p THEN list[k - 1] ELSE list[k]]

Init == srv = <<>> /\ mem = [c \in Copies |-> <<>>]

\* An object is fetched from the server.
Fetch(c) == mem' = [mem EXCEPT ![c] = srv] /\ UNCHANGED srv

\* A condition is set on an object, and the object is sent.
Set(c, t) ==
    /\ mem' = [mem EXCEPT ![c] = MoveToFront(t, @)]
    /\ srv' = mem'[c] \/ srv' = srv

Next == \E c \in Copies : Fetch(c) \/ \E t \in Types : Set(c, t)

Spec == Init /\ [][Next]_vars
============================================================================
