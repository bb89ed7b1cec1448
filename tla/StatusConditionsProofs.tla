----------------------- MODULE StatusConditionsProofs -----------------------
(***************************************************************************)
(* Proofs about StatusConditions, for every set of types and of copies.    *)
(*                                                                         *)
(* Neither property is inductive alone.  The sort keeps the order of the   *)
(* list, and so implements StatusRecency, only because every list is       *)
(* sorted by stamps that are not ahead of the clock, whatever mixture of   *)
(* kept and lost stamps it holds: then the element just set is the only    *)
(* one out of place, and the sort brings it to the front.                  *)
(***************************************************************************)
EXTENDS StatusConditions, FiniteSetTheorems, TLAPS

Cond == [type : Types, at : Nat]

Distinct(list) == \A i, j \in DOMAIN list : list[i].type = list[j].type => i = j

\* A list as it is between two steps, at a time.
ListOk(list, now) ==
    /\ list \in Seq(Cond)
    /\ Distinct(list)
    /\ \A i \in DOMAIN list : list[i].at <= now
    /\ \A i, j \in DOMAIN list : i <= j => list[j].at <= list[i].at

IInv ==
    /\ clock \in Nat
    /\ ListOk(srv, clock)
    /\ DOMAIN mem = Copies /\ mem = [c \in Copies |-> mem[c]]
    /\ \A c \in Copies : ListOk(mem[c], clock)

(***************************************************************************)
(* One list.                                                               *)
(***************************************************************************)
\* Where a type is in a list, or would be appended.
Spot(t, list) ==
    LET here == {i \in DOMAIN list : list[i].type = t}
    IN  IF here = {} THEN Len(list) + 1 ELSE CHOOSE i \in here : TRUE

\* The condition before the others.
Front(cond, list) ==
    LET p == Spot(cond.type, list)
    IN  [k \in DOMAIN list \cup {p} |->
            IF k = 1 THEN cond ELSE IF k <= p THEN list[k - 1] ELSE list[k]]

\* A sequence of conditions, and their stamps.
LEMMA SeqFacts ==
    ASSUME NEW list \in Seq(Cond)
    PROVE  /\ Len(list) \in Nat /\ DOMAIN list = 1 .. Len(list)
           /\ \A i \in DOMAIN list : list[i].type \in Types /\ list[i].at \in Nat
<1>1. Len(list) \in Nat /\ DOMAIN list = 1 .. Len(list)
  OBVIOUS
<1>2. \A i \in DOMAIN list : list[i] \in Cond
  BY <1>1
<1> QED BY <1>1, <1>2 DEF Cond

\* The spot is in the list, and the only one with the type, or the next one.
LEMMA SpotFacts ==
    ASSUME NEW list \in Seq(Cond), Distinct(list), NEW t \in Types
    PROVE  /\ Spot(t, list) \in 1 .. Len(list) + 1
           /\ \A i \in DOMAIN list : list[i].type = t <=> i = Spot(t, list)
<1> DEFINE here == {i \in DOMAIN list : list[i].type = t}
<1>1. Len(list) \in Nat /\ DOMAIN list = 1 .. Len(list)
  OBVIOUS
<1>2. CASE here = {}
  BY <1>1, <1>2 DEF Spot
<1>3. CASE here # {}
  <2>1. Spot(t, list) \in here
    BY <1>3 DEF Spot
  <2> QED BY <1>1, <2>1 DEF Distinct
<1> QED BY <1>2, <1>3

\* setClusterCondition puts the condition at its spot and nothing else.
LEMMA SetFacts ==
    ASSUME NEW list \in Seq(Cond), Distinct(list), NEW cond \in Cond
    PROVE  /\ DOMAIN SetClusterCondition(list, cond) = DOMAIN list \cup {Spot(cond.type, list)}
           /\ SetClusterCondition(list, cond)[Spot(cond.type, list)] = cond
           /\ \A i \in DOMAIN SetClusterCondition(list, cond) \ {Spot(cond.type, list)} :
                  i \in DOMAIN list /\ SetClusterCondition(list, cond)[i] = list[i]
<1> DEFINE p == Spot(cond.type, list)
           set == SetClusterCondition(list, cond)
<1>0. cond.type \in Types
  BY DEF Cond
<1>1. Len(list) \in Nat /\ DOMAIN list = 1 .. Len(list)
  OBVIOUS
<1>2. p \in 1 .. Len(list) + 1 /\ \A i \in DOMAIN list : list[i].type = cond.type <=> i = p
  BY <1>0, SpotFacts
<1>3. CASE \E i \in DOMAIN list : list[i].type = cond.type
  <2>1. set = [i \in DOMAIN list |-> IF list[i].type = cond.type THEN cond ELSE list[i]]
    BY <1>3 DEF SetClusterCondition
  <2>2. p \in DOMAIN list
    BY <1>2, <1>3
  <2> HIDE DEF set, p
  <2> QED BY <1>2, <2>1, <2>2 DEF set, p
<1>4. CASE ~\E i \in DOMAIN list : list[i].type = cond.type
  <2>1. set = Append(list, cond)
    BY <1>4 DEF SetClusterCondition
  <2>2. p = Len(list) + 1
    BY <1>4 DEF Spot
  <2>3. DOMAIN set = 1 .. Len(list) + 1 /\ set[Len(list) + 1] = cond
        /\ \A i \in 1 .. Len(list) : set[i] = list[i]
    BY <1>1, <2>1
  <2> HIDE DEF set, p
  <2> QED BY <1>1, <2>2, <2>3 DEF set, p
<1> QED BY <1>3, <1>4

\* The elements that go before an element or are it, and their number.
Before(i, list) ==
    {j \in DOMAIN list : \/ list[j].at > list[i].at
                         \/ list[j].at = list[i].at /\ j <= i}
Place(i, list) == Cardinality(Before(i, list))

\* The sort puts every element in its place.
LEMMA DescFacts ==
    ASSUME NEW list
    PROVE  DescConditionsByTime(list) =
               [k \in DOMAIN list |-> list[CHOOSE i \in DOMAIN list : Place(i, list) = k]]
  BY DEF DescConditionsByTime, Place, Before

\* The places of a list that is sorted but for one element, later than the others.
LEMMA PlaceFacts ==
    ASSUME NEW set \in Seq(Cond), NEW p \in DOMAIN set,
           \A i \in DOMAIN set \ {p} : set[i].at < set[p].at,
           \A i, j \in DOMAIN set \ {p} : i <= j => set[j].at <= set[i].at
    PROVE  \A i \in DOMAIN set :
               Place(i, set) = IF i = p THEN 1 ELSE IF i < p THEN i + 1 ELSE i
<1>1. Len(set) \in Nat /\ DOMAIN set = 1 .. Len(set) /\ \A i \in DOMAIN set : set[i].at \in Nat
  BY SeqFacts
<1> SUFFICES ASSUME NEW i \in DOMAIN set
             PROVE  Place(i, set) = IF i = p THEN 1 ELSE IF i < p THEN i + 1 ELSE i
  OBVIOUS
<1>2. i \in Nat /\ p \in Nat /\ IsFiniteSet(1 .. i) /\ Cardinality(1 .. i) = i
  <2>1. i \in Nat /\ p \in Nat /\ i >= 1
    BY <1>1
  <2> QED BY <2>1, FS_Interval
<1>3. CASE i = p
  <2>1. Before(i, set) = {p}
    BY <1>1, <1>3 DEF Before
  <2> QED BY <1>3, <2>1, FS_Singleton DEF Place
<1>4. CASE i # p
  <2>1. Before(i, set) = 1 .. i \cup {p}
    <3>1. \A j \in DOMAIN set : j \in Before(i, set) <=> j \in 1 .. i \cup {p}
      <4> SUFFICES ASSUME NEW j \in DOMAIN set
                   PROVE  j \in Before(i, set) <=> j \in 1 .. i \cup {p}
        OBVIOUS
      <4>1. CASE j = p
        BY <1>1, <1>4, <4>1 DEF Before
      <4>2. CASE j # p /\ j <= i
        BY <1>1, <1>4, <4>2 DEF Before
      <4>3. CASE j # p /\ ~(j <= i)
        BY <1>1, <1>4, <4>3 DEF Before
      <4> QED BY <4>1, <4>2, <4>3
    <3>2. Before(i, set) \subseteq DOMAIN set /\ 1 .. i \cup {p} \subseteq DOMAIN set
      BY <1>1, <1>2 DEF Before
    <3> QED BY <3>1, <3>2
  <2>2. CASE i < p
    <3>1. p \notin 1 .. i
      BY <1>2, <2>2
    <3>2. Cardinality(1 .. i \cup {p}) = i + 1
      BY <1>2, <3>1, FS_AddElement
    <3> QED BY <1>4, <2>1, <2>2, <3>2 DEF Place
  <2>3. CASE ~(i < p)
    <3>1. 1 .. i \cup {p} = 1 .. i
      BY <1>1, <1>2, <2>3
    <3> QED BY <1>2, <1>4, <2>1, <2>3, <3>1 DEF Place
  <2> QED BY <2>2, <2>3
<1> QED BY <1>3, <1>4

\* Setting a condition and sorting brings the condition to the front.
LEMMA SortFacts ==
    ASSUME NEW list, NEW now \in Nat, ListOk(list, now), NEW t \in Types
    PROVE  LET cond == NewClusterCondition(t, now + 1)
           IN  DescConditionsByTime(SetClusterCondition(list, cond)) = Front(cond, list)
<1> DEFINE cond == NewClusterCondition(t, now + 1)
           p == Spot(cond.type, list)
           set == SetClusterCondition(list, cond)
<1>1. cond \in Cond /\ cond.type = t /\ cond.at = now + 1
  BY DEF NewClusterCondition, Cond
<1>2. list \in Seq(Cond) /\ Distinct(list) /\ Len(list) \in Nat /\ DOMAIN list = 1 .. Len(list)
  BY DEF ListOk
<1>3. p \in 1 .. Len(list) + 1
  BY <1>1, <1>2, SpotFacts
<1>4. /\ DOMAIN set = DOMAIN list \cup {p} /\ set[p] = cond
      /\ \A i \in DOMAIN set \ {p} : i \in DOMAIN list /\ set[i] = list[i]
  BY <1>1, <1>2, SetFacts
<1>5. set \in Seq(Cond)
  BY <1>1, <1>2 DEF SetClusterCondition
<1>6. \A i \in DOMAIN list : list[i].at \in Nat
  BY <1>2, SeqFacts
<1> HIDE DEF cond, p, set
<1>7. \A i \in DOMAIN set \ {p} : set[i].at < set[p].at
  BY <1>1, <1>4, <1>6 DEF ListOk
<1>8. \A i, j \in DOMAIN set \ {p} : i <= j => set[j].at <= set[i].at
  BY <1>4 DEF ListOk
<1>9. \A i \in DOMAIN set : Place(i, set) = IF i = p THEN 1 ELSE IF i < p THEN i + 1 ELSE i
  BY <1>4, <1>5, <1>7, <1>8, PlaceFacts
<1>10. ASSUME NEW k \in DOMAIN set
       PROVE  set[CHOOSE i \in DOMAIN set : Place(i, set) = k]
                  = IF k = 1 THEN cond ELSE IF k <= p THEN list[k - 1] ELSE list[k]
  <2> DEFINE q == IF k = 1 THEN p ELSE IF k <= p THEN k - 1 ELSE k
             chosen == CHOOSE i \in DOMAIN set : Place(i, set) = k
  <2>1. q \in DOMAIN set
    BY <1>2, <1>3, <1>4
  <2>2. k \in Nat /\ \A i \in DOMAIN set : i \in Nat
    BY <1>2, <1>3, <1>4
  <2>3. \A i \in DOMAIN set : Place(i, set) = k <=> i = q
    BY <1>2, <1>3, <1>4, <1>9, <2>2
  <2> HIDE DEF q
  <2>4. chosen = q
    BY <2>1, <2>3
  <2> HIDE DEF chosen
  <2> SUFFICES set[chosen] = IF k = 1 THEN cond ELSE IF k <= p THEN list[k - 1] ELSE list[k]
    BY DEF chosen
  <2>5. CASE k = 1
    <3>1. q = p
      BY <2>5 DEF q
    <3> QED BY <1>4, <2>4, <2>5, <3>1
  <2>6. CASE k # 1
    <3>1. q # p /\ q = IF k <= p THEN k - 1 ELSE k
      BY <1>2, <1>3, <1>4, <2>2, <2>6 DEF q
    <3>2. set[q] = list[q]
      BY <1>4, <2>1, <3>1
    <3> QED BY <2>4, <2>6, <3>1, <3>2
  <2> QED BY <2>5, <2>6
<1>11. DescConditionsByTime(set)
         = [k \in DOMAIN set |-> set[CHOOSE i \in DOMAIN set : Place(i, set) = k]]
  BY DescFacts
<1>12. DescConditionsByTime(set) = Front(cond, list)
  BY <1>1, <1>4, <1>10, <1>11 DEF Front, p
<1> QED BY <1>12 DEF set, cond

\* The list with the condition at the front is as a list should be, later.
LEMMA FrontOk ==
    ASSUME NEW list, NEW now \in Nat, ListOk(list, now), NEW t \in Types
    PROVE  ListOk(Front(NewClusterCondition(t, now + 1), list), now + 1)
<1> DEFINE cond == NewClusterCondition(t, now + 1)
           p == Spot(t, list)
           n == Len(list)
           m == IF p = n + 1 THEN n + 1 ELSE n
           from(k) == IF k <= p THEN k - 1 ELSE k
           front == Front(cond, list)
<1>1. cond \in Cond /\ cond.type = t /\ cond.at = now + 1
  BY DEF NewClusterCondition, Cond
<1>2. /\ n \in Nat /\ DOMAIN list = 1 .. n /\ Distinct(list)
      /\ \A i \in DOMAIN list : list[i] \in Cond /\ list[i].type \in Types /\ list[i].at \in Nat
  BY SeqFacts DEF ListOk
<1>3. p \in 1 .. n + 1 /\ \A i \in DOMAIN list : list[i].type = t <=> i = p
  BY SpotFacts DEF ListOk
<1>4. m \in Nat /\ m >= n /\ DOMAIN list \cup {p} = 1 .. m /\ (m = n \/ (m = n + 1 /\ p = m))
  <2>1. CASE p = n + 1
    BY <1>2, <2>1
  <2>2. CASE p # n + 1
    <3>1. p \in DOMAIN list /\ m = n
      BY <1>2, <1>3, <2>2
    <3>2. DOMAIN list \cup {p} = DOMAIN list
      BY <3>1
    <3> HIDE DEF m, n, p
    <3> QED BY <1>2, <3>1, <3>2
  <2> QED BY <2>1, <2>2
<1>5. front = [k \in 1 .. m |-> IF k = 1 THEN cond ELSE IF k <= p THEN list[k - 1] ELSE list[k]]
  BY <1>1, <1>4 DEF Front
<1> HIDE DEF cond, p, n, m, front
<1>6. ASSUME NEW k \in 1 .. m, k # 1
      PROVE  from(k) \in DOMAIN list /\ from(k) # p /\ front[k] = list[from(k)]
  BY <1>2, <1>3, <1>4, <1>5, <1>6
<1>7. front[1] = cond /\ DOMAIN front = 1 .. m /\ 1 \in 1 .. m
  <2>1. 1 \in 1 .. m
    BY <1>2, <1>3, <1>4
  <2> QED BY <1>5, <2>1
<1>8. \A j, k \in (1 .. m) \ {1} :
          /\ from(j) = from(k) => j = k
          /\ j <= k => from(j) <= from(k)
  <2> SUFFICES ASSUME NEW j \in (1 .. m) \ {1}, NEW k \in (1 .. m) \ {1}
               PROVE  (from(j) = from(k) => j = k) /\ (j <= k => from(j) <= from(k))
    OBVIOUS
  <2>1. from(j) # p /\ from(k) # p
    BY <1>6
  <2> QED BY <1>2, <1>3, <2>1
<1> HIDE DEF from
<1>9. front \in Seq(Cond)
  <2>1. \A k \in 1 .. m : front[k] \in Cond
    BY <1>1, <1>2, <1>6, <1>7
  <2>2. front \in [1 .. m -> Cond]
    BY <1>5, <2>1
  <2> QED BY <1>4, <2>2
<1>10. Distinct(front)
  <2> SUFFICES ASSUME NEW j \in 1 .. m, NEW k \in 1 .. m, front[j].type = front[k].type
               PROVE  j = k
    BY <1>7 DEF Distinct
  <2>1. CASE j # 1 /\ k # 1
    BY <1>2, <1>6, <1>8, <2>1 DEF Distinct
  <2>2. CASE j = 1 \/ k = 1
    BY <1>1, <1>3, <1>6, <1>7, <2>2
  <2> QED BY <2>1, <2>2
<1>11. \A k \in 1 .. m : front[k].at \in Nat /\ front[k].at <= now + 1
  <2> SUFFICES ASSUME NEW k \in 1 .. m PROVE front[k].at \in Nat /\ front[k].at <= now + 1
    OBVIOUS
  <2>1. CASE k = 1
    BY <1>1, <1>7, <2>1
  <2>2. CASE k # 1
    <3>1. list[from(k)].at \in Nat /\ list[from(k)].at <= now
      BY <1>2, <1>6, <2>2 DEF ListOk
    <3> QED BY <1>6, <2>2, <3>1
  <2> QED BY <2>1, <2>2
<1>12. \A j, k \in 1 .. m : j <= k => front[k].at <= front[j].at
  <2> SUFFICES ASSUME NEW j \in 1 .. m, NEW k \in 1 .. m, j <= k
               PROVE  front[k].at <= front[j].at
    OBVIOUS
  <2>1. CASE j = 1
    BY <1>1, <1>7, <1>11, <2>1
  <2>2. CASE j # 1
    <3>1. k # 1
      BY <1>4, <2>2
    <3>2. from(j) <= from(k)
      BY <1>8, <2>2, <3>1
    <3> QED BY <1>6, <2>2, <3>1, <3>2 DEF ListOk
  <2> QED BY <2>1, <2>2
<1>13. ListOk(front, now + 1)
  BY <1>7, <1>9, <1>10, <1>11, <1>12 DEF ListOk
<1> QED BY <1>13 DEF front, cond

\* JSON loses the stamps, and nothing else.
LEMMA SerialisedOk ==
    ASSUME NEW list, NEW now \in Nat, ListOk(list, now)
    PROVE  ListOk(Serialised(list), now) /\ TypesOf(Serialised(list)) = TypesOf(list)
<1>1. /\ Len(list) \in Nat /\ DOMAIN list = 1 .. Len(list) /\ Distinct(list)
      /\ \A i \in DOMAIN list : list[i] \in Cond
  BY DEF ListOk
<1>2. /\ DOMAIN Serialised(list) = DOMAIN list
      /\ \A i \in DOMAIN list : /\ Serialised(list)[i] \in Cond
                                /\ Serialised(list)[i].at = 0
                                /\ Serialised(list)[i].type = list[i].type
  BY <1>1 DEF Serialised, Cond
<1>3. Serialised(list) \in Seq(Cond)
  <2>1. Serialised(list) \in [1 .. Len(list) -> Cond]
    BY <1>1, <1>2 DEF Serialised
  <2> QED BY <1>1, <2>1
<1>4. TypesOf(Serialised(list)) = TypesOf(list)
  BY <1>2 DEF TypesOf
<1> QED BY <1>1, <1>2, <1>3, <1>4 DEF ListOk, Distinct

\* A list stays as it should be when time goes on.
LEMMA LaterOk ==
    ASSUME NEW list, NEW now \in Nat, ListOk(list, now)
    PROVE  ListOk(list, now + 1)
<1>1. \A i \in DOMAIN list : list[i].at \in Nat
  BY SeqFacts DEF ListOk
<1> QED BY <1>1 DEF ListOk

\* What the front means for the types: the abstract list moves one to the front.
LEMMA FrontTypes ==
    ASSUME NEW list, NEW now \in Nat, ListOk(list, now), NEW t \in Types
    PROVE  TypesOf(Front(NewClusterCondition(t, now + 1), list))
               = Recency!MoveToFront(t, TypesOf(list))
<1> DEFINE cond == NewClusterCondition(t, now + 1)
           p == Spot(t, list)
           names == TypesOf(list)
<1>1. cond.type = t
  BY DEF NewClusterCondition
<1>2. /\ Len(list) \in Nat /\ DOMAIN list = 1 .. Len(list)
      /\ DOMAIN names = DOMAIN list /\ \A i \in DOMAIN list : names[i] = list[i].type
  BY DEF ListOk, TypesOf
<1>3. names \in Seq(Types) /\ Len(names) = Len(list)
  <2>1. names \in [1 .. Len(list) -> Types]
    BY <1>2, SeqFacts DEF ListOk, TypesOf
  <2> QED BY <1>2, <2>1
<1>4. p \in 1 .. Len(list) + 1
  BY SpotFacts DEF ListOk
<1>5. {i \in DOMAIN names : names[i] = t} = {i \in DOMAIN list : list[i].type = t}
  BY <1>2
<1>6. Recency!MoveToFront(t, names)
        = [k \in DOMAIN list \cup {p} |->
              IF k = 1 THEN t ELSE IF k <= p THEN names[k - 1] ELSE names[k]]
  BY <1>2, <1>3, <1>5 DEF Recency!MoveToFront, Spot
<1>7. /\ DOMAIN Front(cond, list) = DOMAIN list \cup {p}
      /\ \A k \in DOMAIN list \cup {p} :
             Front(cond, list)[k] = IF k = 1 THEN cond ELSE IF k <= p THEN list[k - 1] ELSE list[k]
  BY <1>1 DEF Front
<1> HIDE DEF cond, p, names
<1>8. ASSUME NEW k \in DOMAIN list \cup {p}
      PROVE  Front(cond, list)[k].type = IF k = 1 THEN t ELSE IF k <= p THEN names[k - 1] ELSE names[k]
  <2>1. CASE k = 1
    BY <1>1, <1>7, <2>1
  <2>2. CASE k # 1 /\ k <= p
    <3>1. k - 1 \in DOMAIN list
      BY <1>2, <1>4, <2>2
    <3> QED BY <1>2, <1>7, <2>2, <3>1
  <2>3. CASE k # 1 /\ ~(k <= p)
    <3>1. k \in DOMAIN list
      BY <1>2, <1>4, <2>3
    <3> QED BY <1>2, <1>7, <2>3, <3>1
  <2> QED BY <2>1, <2>2, <2>3
<1>9. TypesOf(Front(cond, list))
        = [k \in DOMAIN list \cup {p} |->
              IF k = 1 THEN t ELSE IF k <= p THEN names[k - 1] ELSE names[k]]
  BY <1>7, <1>8 DEF TypesOf
<1> QED BY <1>6, <1>9 DEF cond, names

(***************************************************************************)
(* The steps.                                                              *)
(***************************************************************************)
\* What a Set...Condition method and UpdateSentinelStatus send.
LEMMA ToSendFacts ==
    ASSUME IInv, NEW c \in Copies, NEW t \in Types
    PROVE  /\ ListOk(ToSend(c, t), clock + 1)
           /\ TypesOf(ToSend(c, t)) = Recency!MoveToFront(t, TypesOf(mem[c]))
           /\ ListOk(Serialised(ToSend(c, t)), clock + 1)
           /\ TypesOf(Serialised(ToSend(c, t))) = TypesOf(ToSend(c, t))
<1>1. clock \in Nat /\ ListOk(mem[c], clock)
  BY DEF IInv
<1>2. ToSend(c, t) = Front(NewClusterCondition(t, clock + 1), mem[c])
  BY <1>1, SortFacts DEF ToSend
<1>3. ListOk(ToSend(c, t), clock + 1)
  BY <1>1, <1>2, FrontOk
<1>4. TypesOf(ToSend(c, t)) = Recency!MoveToFront(t, TypesOf(mem[c]))
  BY <1>1, <1>2, FrontTypes
<1>5. clock + 1 \in Nat
  BY <1>1
<1> QED BY <1>3, <1>4, <1>5, SerialisedOk

\* Every step is a fetch or sends one list: what is stored where.
LEMMA StepFacts ==
    ASSUME IInv, Next
    PROVE  \E c \in Copies :
               \/ mem' = [mem EXCEPT ![c] = srv] /\ UNCHANGED <<srv, clock>>
               \/ \E t \in Types : \E list \in {ToSend(c, t), Serialised(ToSend(c, t))} :
                      /\ clock' = clock + 1
                      /\ mem' = [mem EXCEPT ![c] = list]
                      /\ srv' \in {srv, Serialised(ToSend(c, t))}
<1>1. PICK c \in Copies : \/ Fetch(c)
                          \/ \E t \in Types : \/ UpdateSentinelStatusOk(c, t)
                                              \/ UpdateSentinelStatusRefused(c, t)
                                              \/ UpdateSentinelStatusLost(c, t)
  BY DEF Next
<1>2. CASE Fetch(c)
  BY <1>2 DEF Fetch
<1>3. ASSUME NEW t \in Types, UpdateSentinelStatusOk(c, t)
      PROVE  \E list \in {ToSend(c, t), Serialised(ToSend(c, t))} :
                 /\ clock' = clock + 1 /\ mem' = [mem EXCEPT ![c] = list]
                 /\ srv' \in {srv, Serialised(ToSend(c, t))}
  BY <1>3 DEF UpdateSentinelStatusOk, Decoded, Tick
<1>4. ASSUME NEW t \in Types, UpdateSentinelStatusRefused(c, t) \/ UpdateSentinelStatusLost(c, t)
      PROVE  /\ clock' = clock + 1 /\ mem' = [mem EXCEPT ![c] = ToSend(c, t)]
             /\ srv' \in {srv, Serialised(ToSend(c, t))}
  BY <1>4 DEF UpdateSentinelStatusRefused, UpdateSentinelStatusLost, Tick
<1> QED BY <1>1, <1>2, <1>3, <1>4

\* The lists are as they should be at the start, and every step keeps them so.
LEMMA IInvInductive == (Init => IInv) /\ (IInv /\ [Next]_vars => IInv')
<1>1. Init => IInv
  <2>1. <<>> \in Seq(Cond) /\ DOMAIN <<>> = {}
    OBVIOUS
  <2>2. ListOk(<<>>, 0)
    BY <2>1 DEF ListOk, Distinct
  <2> QED BY <2>2 DEF Init, IInv
<1>2. ASSUME IInv, Next PROVE IInv'
  <2>1. PICK c \in Copies :
               \/ mem' = [mem EXCEPT ![c] = srv] /\ UNCHANGED <<srv, clock>>
               \/ \E t \in Types : \E list \in {ToSend(c, t), Serialised(ToSend(c, t))} :
                      /\ clock' = clock + 1
                      /\ mem' = [mem EXCEPT ![c] = list]
                      /\ srv' \in {srv, Serialised(ToSend(c, t))}
    BY <1>2, StepFacts
  <2>2. CASE mem' = [mem EXCEPT ![c] = srv] /\ UNCHANGED <<srv, clock>>
    BY <1>2, <2>2 DEF IInv
  <2>3. ASSUME NEW t \in Types, NEW list \in {ToSend(c, t), Serialised(ToSend(c, t))},
               clock' = clock + 1, mem' = [mem EXCEPT ![c] = list],
               srv' \in {srv, Serialised(ToSend(c, t))}
        PROVE  IInv'
    <3>1. ListOk(list, clock') /\ ListOk(Serialised(ToSend(c, t)), clock')
      BY <1>2, <2>3, ToSendFacts
    <3>2. ListOk(srv, clock') /\ \A d \in Copies : ListOk(mem[d], clock')
      BY <1>2, <2>3, LaterOk DEF IInv
    <3>3. clock' \in Nat
      BY <1>2, <2>3 DEF IInv
    <3>4. DOMAIN mem' = Copies /\ mem' = [d \in Copies |-> mem'[d]]
          /\ \A d \in Copies : mem'[d] = IF d = c THEN list ELSE mem[d]
      BY <1>2, <2>3 DEF IInv
    <3> QED BY <2>3, <3>1, <3>2, <3>3, <3>4 DEF IInv
  <2> QED BY <2>1, <2>2, <2>3
<1>3. ASSUME IInv, UNCHANGED vars PROVE IInv'
  BY <1>3 DEF IInv, vars
<1> QED BY <1>1, <1>2, <1>3

\* The inductive invariant holds throughout.
LEMMA AlwaysIInv == Spec => []IInv
  BY IInvInductive, PTL DEF Spec

\* No type is ever listed twice, here or at the server, for every set of types
\* and copies and however many writes are refused or lose their answer.
THEOREM OneEntryAlways == Spec => []OneEntryPerType
<1>1. IInv => OneEntryPerType
  BY DEF IInv, ListOk, Distinct, OneEntryPerType
<1> QED BY <1>1, AlwaysIInv, PTL

\* The list implements StatusRecency: every fetch is a fetch there, and setting
\* a condition and sorting by the stamps in memory moves it to the front.
THEOREM ListImplementsRecency == Spec => ListedByRecency
<1>1. Init => Recency!Init
  BY DEF Init, Recency!Init, TypesOf
<1>2. ASSUME IInv, Next PROVE Recency!Next
  <2>1. PICK c \in Copies :
               \/ mem' = [mem EXCEPT ![c] = srv] /\ UNCHANGED <<srv, clock>>
               \/ \E t \in Types : \E list \in {ToSend(c, t), Serialised(ToSend(c, t))} :
                      /\ clock' = clock + 1
                      /\ mem' = [mem EXCEPT ![c] = list]
                      /\ srv' \in {srv, Serialised(ToSend(c, t))}
    BY <1>2, StepFacts
  <2>2. CASE mem' = [mem EXCEPT ![c] = srv] /\ UNCHANGED <<srv, clock>>
    <3>1. Recency!Fetch(c)
      BY <1>2, <2>2 DEF Recency!Fetch, IInv
    <3> QED BY <3>1 DEF Recency!Next
  <2>3. ASSUME NEW t \in Types, NEW list \in {ToSend(c, t), Serialised(ToSend(c, t))},
               clock' = clock + 1, mem' = [mem EXCEPT ![c] = list],
               srv' \in {srv, Serialised(ToSend(c, t))}
        PROVE  Recency!Next
    <3>1. /\ TypesOf(list) = Recency!MoveToFront(t, TypesOf(mem[c]))
          /\ TypesOf(Serialised(ToSend(c, t))) = TypesOf(list)
      BY <1>2, <2>3, ToSendFacts
    <3>2. mem'[c] = list /\ \A d \in Copies \ {c} : mem'[d] = mem[d]
      BY <1>2, <2>3 DEF IInv
    <3>3. [d \in Copies |-> TypesOf(mem'[d])]
            = [[d \in Copies |-> TypesOf(mem[d])] EXCEPT
                   ![c] = Recency!MoveToFront(t, TypesOf(mem[c]))]
      BY <3>1, <3>2
    <3>4. Recency!Set(c, t)
      BY <2>3, <3>1, <3>2, <3>3 DEF Recency!Set
    <3> QED BY <3>4 DEF Recency!Next
  <2> QED BY <2>1, <2>2, <2>3
<1>3. UNCHANGED vars => UNCHANGED Recency!vars
  BY DEF vars, Recency!vars, TypesOf
<1>4. IInv /\ [Next]_vars => [Recency!Next]_Recency!vars
  BY <1>2, <1>3
<1> QED BY <1>1, <1>4, AlwaysIInv, PTL DEF Spec, ListedByRecency, Recency!Spec
=============================================================================
