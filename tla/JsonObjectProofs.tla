--------------------------- MODULE JsonObjectProofs ---------------------------
(***************************************************************************)
(* NodesOwned of JsonObject for any number of nodes, keys, references and  *)
(* elements.                                                               *)
(***************************************************************************)
EXTENDS JsonObject, FiniteSetTheorems, SequenceTheorems, TLAPS

\* The nodes under deletion, and the children of each that are still to be put.
OnStack == {deleting[j].node : j \in DOMAIN deleting}
Left(o) == {s \in AnySlot : \E j \in DOMAIN deleting :
                              deleting[j].node = o /\ s \in deleting[j].left}

\* The slots by which a node owns a child now: a child that was put is not
\* owned any more, though the slot still names it.
OwnedSlots(p) ==
    IF p \in OnStack THEN Left(p)
    ELSE Slots(p) \ (IF pending.op = "store" /\ pending.node = p THEN {pending.slot} ELSE {})
Owners(o) == {e \in Nodes \X AnySlot : e[2] \in OwnedSlots(e[1]) /\ ChildAt(e[1], e[2]) = o}

\* The reference that is handed over, while the old value is put.
Due(o) == IF pending.op = "store" /\ pending.value = o THEN 1 ELSE 0

\* In the middle of a deletion too, each reference has its owner.
CountInv ==
    \A o \in Nodes : /\ IsFiniteSet(Owners(o))
                     /\ refs[o] = held[o] + Cardinality(Owners(o)) + Due(o)

\* A node is under deletion from its last put until it is freed, and what was
\* freed owns nothing.
LifeInv ==
    /\ \A o \in Nodes :
          IF kind[o] = "free"
          THEN /\ refs[o] = 0 /\ o \notin OnStack
               /\ member[o] = NoMembers /\ length[o] = 0 /\ userdata[o] = 0
          ELSE o \in OnStack <=> refs[o] = 0
    /\ \A i, j \in DOMAIN deleting : deleting[i].node = deleting[j].node => i = j
    /\ ~ misused

ArrayInv ==
    /\ \A o \in Nodes : /\ length[o] <= Len(array[o])
                        /\ \A j \in length[o] + 1 .. Len(array[o]) : array[o][j] = NULL
    /\ pending.op = "store" /\ pending.slot[1] = "array" =>
          pending.slot[2] \in DOMAIN array[pending.node] /\ pending.value # Absent

DataInv ==
    /\ \A o \in Nodes : userdata[o] <= given
    /\ \A o, p \in Nodes : userdata[o] # 0 /\ userdata[o] = userdata[p] => o = p
    /\ \A m \in 1 .. MaxData : m > given => gone[m] = 0
    /\ DataDeletedOnce

\* The node that is stored into stays, whatever the deletion reaches: it is
\* among nodes each of which is held, or owned by one of them.
Supports(P) ==
    \A q \in P : /\ q \notin OnStack
                 /\ held[q] > 0 \/ \E e \in Owners(q) : e[1] \in P
SupportInv ==
    pending.op = "store" => \E P \in SUBSET Nodes : pending.node \in P /\ Supports(P)

JsonIInv == JsonTypeOK /\ CountInv /\ LifeInv /\ ArrayInv /\ DataInv /\ SupportInv

-----------------------------------------------------------------------------
(* Slots, owners and counts.                                                *)

LEMMA SlotFacts ==
    ASSUME JsonTypeOK, NEW o \in Nodes
    PROVE  /\ Slots(o) \subseteq AnySlot
           /\ \A s \in Slots(o) : ChildAt(o, s) \in Nodes
           /\ \A f : <<"member", f>> \in Slots(o) <=> f \in Fields /\ member[o][f] \in Nodes
           /\ \A j : <<"array", j>> \in Slots(o) <=> j \in Indices(o) /\ array[o][j] \in Nodes
<1>1. Indices(o) \subseteq Nat \ {0}
  BY DEF JsonTypeOK, Indices
<1>2. \A s : s \in Slots(o) <=>
         \/ \E f \in Fields : s = <<"member", f>> /\ member[o][f] \in Nodes
         \/ \E j \in Indices(o) : s = <<"array", j>> /\ array[o][j] \in Nodes
  BY DEF Slots
<1>3. ASSUME NEW s \in Slots(o) PROVE s \in AnySlot /\ ChildAt(o, s) \in Nodes
  BY <1>1, <1>2 DEF AnySlot, ChildAt
<1> QED
  BY <1>2, <1>3

LEMMA SlotsKept ==
    ASSUME JsonTypeOK, NEW o \in Nodes, member'[o] = member[o], length'[o] = length[o],
           \A j \in 1 .. length[o] : array'[o][j] = array[o][j]
    PROVE  /\ Slots(o)' = Slots(o)
           /\ \A s \in Slots(o) : ChildAt(o, s)' = ChildAt(o, s)
<1>1. Indices(o)' = Indices(o)
  BY DEF Indices
<1>2. \A j \in Indices(o) : array'[o][j] = array[o][j]
  BY DEF Indices
<1>3. {n \in Indices(o) : array'[o][n] \in Nodes} = {n \in Indices(o) : array[o][n] \in Nodes}
  BY <1>2
<1>4. Slots(o)' = Slots(o)
  BY <1>1, <1>3 DEF Slots
<1>5. ASSUME NEW s \in Slots(o) PROVE ChildAt(o, s)' = ChildAt(o, s)
  BY <1>2, <1>5 DEF Slots, ChildAt
<1> QED
  BY <1>4, <1>5

LEMMA OwnerFacts ==
    ASSUME NEW o
    PROVE  \A p, s : <<p, s>> \in Owners(o) <=>
              p \in Nodes /\ s \in AnySlot /\ s \in OwnedSlots(p) /\ ChildAt(p, s) = o
  BY DEF Owners

LEMMA OwnerSteps ==
    ASSUME NEW S, IsFiniteSet(S), NEW e
    PROVE  /\ Cardinality(S) \in Nat
           /\ IsFiniteSet(S \cup {e}) /\ IsFiniteSet(S \ {e})
           /\ e \notin S => Cardinality(S \cup {e}) = Cardinality(S) + 1
           /\ e \in S => Cardinality(S \ {e}) = Cardinality(S) - 1 /\ Cardinality(S) > 0
           /\ \A d \in S : e \in S /\ d # e => Cardinality(S) > 1
<1>1. Cardinality(S) \in Nat
  BY FS_CardinalityType
<1>2. /\ IsFiniteSet(S \cup {e})
      /\ Cardinality(S \cup {e}) = IF e \in S THEN Cardinality(S) ELSE Cardinality(S) + 1
  BY FS_AddElement
<1>3. /\ IsFiniteSet(S \ {e})
      /\ Cardinality(S \ {e}) = IF e \in S THEN Cardinality(S) - 1 ELSE Cardinality(S)
  BY FS_RemoveElement
<1>4. Cardinality(S \ {e}) \in Nat
  BY <1>3, FS_CardinalityType
<1>5. ASSUME NEW d \in S, e \in S, d # e PROVE Cardinality(S) > 1
  <2>1. Cardinality(S \ {e}) # 0
    BY <1>3, <1>5, FS_EmptySet
  <2> QED
    BY <1>1, <1>3, <1>4, <1>5, <2>1
<1> QED
  BY <1>1, <1>2, <1>3, <1>4, <1>5

\* The parts of a count are natural numbers, so that a count of 0 leaves no
\* owner, and one owner more than another makes it more than 1.
LEMMA CountFacts ==
    ASSUME JsonTypeOK, CountInv, NEW o \in Nodes
    PROVE  /\ IsFiniteSet(Owners(o)) /\ Cardinality(Owners(o)) \in Nat
           /\ refs[o] = held[o] + Cardinality(Owners(o)) + Due(o)
           /\ held[o] \in Nat /\ refs[o] \in Nat /\ Due(o) \in {0, 1}
           /\ refs[o] = 0 => held[o] = 0 /\ Due(o) = 0 /\ Owners(o) = {}
           /\ \A e \in Owners(o) : /\ refs[o] > 0
                                   /\ held[o] > 0 => refs[o] > 1
                                   /\ \A d \in Owners(o) : d # e => refs[o] > 1
<1>1. /\ IsFiniteSet(Owners(o)) /\ Cardinality(Owners(o)) \in Nat
      /\ refs[o] = held[o] + Cardinality(Owners(o)) + Due(o)
  BY FS_CardinalityType DEF CountInv
<1>2. held[o] \in Nat /\ refs[o] \in Nat /\ Due(o) \in {0, 1}
  BY DEF JsonTypeOK, Due
<1>3. Cardinality(Owners(o)) = 0 => Owners(o) = {}
  BY <1>1, FS_EmptySet
<1>4. ASSUME NEW e \in Owners(o)
      PROVE  /\ Cardinality(Owners(o)) > 0
             /\ \A d \in Owners(o) : d # e => Cardinality(Owners(o)) > 1
  BY <1>1, OwnerSteps
<1> QED
  BY <1>1, <1>2, <1>3, <1>4

-----------------------------------------------------------------------------
(* The effect of one put.                                                   *)

LEMMA DeletedOnceAgain ==
    DataDeletedOnce <=>
        \A m \in 1 .. given :
            IF \E o \in Nodes : userdata[o] = m /\ o \notin OnStack
            THEN gone[m] = 0 ELSE gone[m] = 1
<1>1. \A o : o \notin OnStack <=> \A j \in DOMAIN deleting : deleting[j].node # o
  BY DEF OnStack
<1> QED
  BY <1>1 DEF DataDeletedOnce

\* The stack that is left when a child is put has the same nodes.
SameNodes(B) == /\ B \in Seq(Entry) /\ Len(B) = Len(deleting)
                /\ \A j \in 1 .. Len(B) : /\ B[j].node = deleting[j].node
                                          /\ B[j].left \subseteq deleting[j].left

LEMMA PutStack ==
    ASSUME JsonTypeOK, LifeInv, NEW o \in Nodes, refs[o] > 0,
           NEW B, SameNodes(B), PutNode(o, B)
    PROVE  /\ o \notin OnStack /\ kind[o] # "free"
           /\ deleting' \in Seq(Entry)
           /\ Len(deleting') = IF refs[o] = 1 THEN Len(B) + 1 ELSE Len(B)
           /\ \A j \in 1 .. Len(B) : deleting'[j] = B[j]
           /\ refs[o] = 1 => deleting'[Len(B) + 1] = [node |-> o, left |-> Slots(o)]
           /\ OnStack' = OnStack \cup (IF refs[o] = 1 THEN {o} ELSE {})
           /\ \A i, j \in DOMAIN deleting' : deleting'[i].node = deleting'[j].node => i = j
<1> DEFINE x == [node |-> o, left |-> Slots(o)]
           n == Len(deleting)
<1>1. o \notin OnStack /\ kind[o] # "free"
  BY DEF LifeInv
<1>2. B \in Seq(Entry) /\ Len(B) = n /\ n \in Nat /\ DOMAIN B = 1 .. n /\ DOMAIN deleting = 1 .. n
  BY DEF SameNodes, JsonTypeOK
<1>3. x \in Entry
  BY SlotFacts DEF Entry
<1>4. deleting' = IF refs[o] = 1 THEN Append(B, x) ELSE B
  BY DEF PutNode, Unused
<1> HIDE DEF x
<1>5. /\ deleting' \in Seq(Entry)
      /\ Len(deleting') = IF refs[o] = 1 THEN n + 1 ELSE n
      /\ \A j \in 1 .. n : deleting'[j] = B[j]
      /\ refs[o] = 1 => deleting'[n + 1] = x
  BY <1>2, <1>3, <1>4, AppendProperties
<1>6. DOMAIN deleting' = IF refs[o] = 1 THEN 1 .. n + 1 ELSE 1 .. n
  BY <1>2, <1>5
<1>7. \A j \in 1 .. n : deleting'[j].node = deleting[j].node
  BY <1>2, <1>5 DEF SameNodes
<1>8. refs[o] = 1 => deleting'[n + 1].node = o
  BY <1>5 DEF x
<1>9. \A j \in 1 .. n : deleting[j].node # o
  BY <1>1, <1>2 DEF OnStack
<1>10. OnStack' = OnStack \cup (IF refs[o] = 1 THEN {o} ELSE {})
  <2>1. OnStack = {deleting[j].node : j \in 1 .. n}
    BY <1>2 DEF OnStack
  <2>2. CASE refs[o] = 1
    <3>1. OnStack' = {deleting'[j].node : j \in 1 .. n + 1}
      BY <1>6, <2>2 DEF OnStack
    <3>2. 1 .. n + 1 = (1 .. n) \cup {n + 1}
      BY <1>2
    <3>3. OnStack' = {deleting'[j].node : j \in 1 .. n} \cup {deleting'[n + 1].node}
      BY <3>1, <3>2
    <3> QED
      BY <1>7, <1>8, <2>1, <2>2, <3>3
  <2>3. CASE refs[o] # 1
    <3>1. OnStack' = {deleting'[j].node : j \in 1 .. n}
      BY <1>6, <2>3 DEF OnStack
    <3> QED
      BY <1>7, <2>1, <2>3, <3>1
  <2> QED
    BY <2>2, <2>3
<1>11. ASSUME NEW i \in DOMAIN deleting', NEW j \in DOMAIN deleting',
              deleting'[i].node = deleting'[j].node
       PROVE  i = j
  <2>1. i \in 1 .. n /\ j \in 1 .. n => i = j
    BY <1>2, <1>7, <1>11 DEF LifeInv
  <2>2. ~ (i \in 1 .. n) => i = n + 1 /\ refs[o] = 1
    BY <1>2, <1>6
  <2>3. ~ (j \in 1 .. n) => j = n + 1 /\ refs[o] = 1
    BY <1>2, <1>6
  <2> QED
    BY <1>7, <1>8, <1>9, <1>11, <2>1, <2>2, <2>3
<1> QED
  BY <1>1, <1>2, <1>5, <1>10, <1>11 DEF x

LEMMA PutEffect ==
    ASSUME JsonTypeOK, LifeInv, DataInv, NEW o \in Nodes, refs[o] > 0,
           NEW B, SameNodes(B), PutNode(o, B),
           UNCHANGED <<kind, userdata, given>>
    PROVE  /\ misused' = FALSE
           /\ refs' = [refs EXCEPT ![o] = @ - 1] /\ refs' \in [Nodes -> Nat]
           /\ gone' \in [1 .. MaxData -> Nat]
           /\ \A q \in Nodes : IF kind[q] = "free" THEN refs'[q] = 0 /\ q \notin OnStack'
                               ELSE q \in OnStack' <=> refs'[q] = 0
           /\ DataInv'
<1>1. /\ o \notin OnStack /\ kind[o] # "free"
      /\ OnStack' = OnStack \cup (IF refs[o] = 1 THEN {o} ELSE {})
  BY PutStack
<1>2. misused' = FALSE
  BY <1>1 DEF PutNode, LifeInv, JsonTypeOK
<1>3. refs' = [refs EXCEPT ![o] = @ - 1] /\ refs' \in [Nodes -> Nat]
  BY DEF PutNode, JsonTypeOK
<1>4. \A q \in Nodes : IF kind[q] = "free" THEN refs'[q] = 0 /\ q \notin OnStack'
                       ELSE q \in OnStack' <=> refs'[q] = 0
  BY <1>1, <1>3 DEF LifeInv, JsonTypeOK
<1>5. gone' = IF refs[o] = 1 /\ userdata[o] # 0
              THEN [gone EXCEPT ![userdata[o]] = @ + 1] ELSE gone
  BY DEF PutNode, Unused, DataGone
<1>6. /\ userdata[o] \in 0 .. MaxData /\ gone \in [1 .. MaxData -> Nat]
      /\ given \in 0 .. MaxData /\ MaxData \in Nat /\ userdata[o] <= given
  BY JsonAssumption DEF JsonTypeOK, DataInv
<1>7. gone' \in [1 .. MaxData -> Nat]
  BY <1>5, <1>6
<1>8. \A m \in 1 .. MaxData : m > given => gone'[m] = 0
  BY <1>5, <1>6 DEF DataInv
<1>9. \A m \in 1 .. given :
         IF \E q \in Nodes : userdata[q] = m /\ q \notin OnStack
         THEN gone[m] = 0 ELSE gone[m] = 1
  BY DeletedOnceAgain DEF DataInv
<1>10. ASSUME NEW m \in 1 .. given
       PROVE  IF \E q \in Nodes : userdata[q] = m /\ q \notin OnStack'
              THEN gone'[m] = 0 ELSE gone'[m] = 1
  <2>1. CASE refs[o] = 1 /\ userdata[o] = m
    <3>1. gone[m] = 0
      BY <1>1, <1>9, <2>1
    <3>2. gone'[m] = 1
      BY <1>5, <1>6, <2>1, <3>1
    <3>3. \A q \in Nodes : userdata[q] = m => q \in OnStack'
      BY <1>1, <2>1 DEF DataInv
    <3> QED
      BY <3>2, <3>3
  <2>2. CASE ~ (refs[o] = 1 /\ userdata[o] = m)
    <3>1. gone'[m] = gone[m]
      BY <1>5, <1>6, <2>2
    <3>2. \A q \in Nodes : userdata[q] = m => (q \in OnStack' <=> q \in OnStack)
      BY <1>1, <2>2
    <3> QED
      BY <1>9, <3>1, <3>2
  <2> QED
    BY <2>1, <2>2
<1>11. DataDeletedOnce'
  <2>1. given' = given /\ userdata' = userdata
    OBVIOUS
  <2>2. DataDeletedOnce' <=>
        \A m \in 1 .. given :
            IF \E q \in Nodes : userdata[q] = m /\ q \notin OnStack'
            THEN gone'[m] = 0 ELSE gone'[m] = 1
    <3>1. \A q : q \notin OnStack' <=> \A j \in DOMAIN deleting' : deleting'[j].node # q
      BY DEF OnStack
    <3> QED
      BY <2>1, <3>1 DEF DataDeletedOnce
  <2> QED
    BY <1>10, <2>2
<1>12. DataInv'
  BY <1>8, <1>11 DEF DataInv
<1> QED
  BY <1>2, <1>3, <1>4, <1>7, <1>12

-----------------------------------------------------------------------------
(* What the client can get at.                                              *)

LEMMA ReachableWithin ==
    ASSUME NEW C \in SUBSET Nodes, Closed(C), \A o \in Nodes : held[o] > 0 => o \in C
    PROVE  Reachable \subseteq C
  BY DEF Reachable, All

LEMMA IdleOwners ==
    ASSUME Idle
    PROVE  /\ OnStack = {} /\ Len(deleting) = 0 /\ pending.op # "store"
           /\ \A p : OwnedSlots(p) = Slots(p)
           /\ \A o : Due(o) = 0
<1>1. OnStack = {} /\ Len(deleting) = 0 /\ pending.op # "store"
  BY DEF Idle, OnStack
<1> QED
  BY <1>1 DEF OwnedSlots, Due

\* Between calls, what the client can get at is there.
LEMMA ReachableLives ==
    ASSUME JsonIInv, Idle, NEW o \in Reachable
    PROVE  o \in Nodes /\ refs[o] > 0 /\ kind[o] # "free"
<1> USE DEF JsonIInv
<1> DEFINE C == {p \in Nodes : refs[p] > 0}
<1>1. ASSUME NEW p \in C, NEW c \in Children(p) PROVE c \in C
  <2>1. PICK s \in Slots(p) : c = ChildAt(p, s)
    BY DEF Children
  <2>2. s \in AnySlot /\ c \in Nodes
    BY <2>1, SlotFacts
  <2>3. <<p, s>> \in Owners(c)
    BY <2>1, <2>2, IdleOwners, OwnerFacts
  <2> QED
    BY <2>2, <2>3, CountFacts
<1>2. Closed(C)
  BY <1>1 DEF Closed
<1>3. \A p \in Nodes : held[p] > 0 => p \in C
  <2> SUFFICES ASSUME NEW p \in Nodes, held[p] > 0 PROVE refs[p] > 0
    OBVIOUS
  <2> QED
    BY CountFacts
<1>4. o \in C
  BY <1>2, <1>3, ReachableWithin
<1> QED
  BY <1>4 DEF LifeInv

-----------------------------------------------------------------------------
(* The calls that store nothing.                                            *)

LEMMA JsonInitInvariant == JsonInit => JsonIInv
<1> SUFFICES ASSUME JsonInit PROVE JsonIInv
  OBVIOUS
<1> USE DEF JsonInit
<1>1. OnStack = {} /\ pending.op # "store" /\ DOMAIN deleting = {}
  BY DEF OnStack
<1>2. NoMembers \in [Fields -> Nodes \cup {NULL, Absent}]
  BY DEF NoMembers
<1>3. JsonTypeOK
  <2>1. array \in [Nodes -> Seq(Nodes \cup {NULL})] /\ deleting \in Seq(Entry)
    OBVIOUS
  <2>2. kind \in [Nodes -> {"free", "object", "array", "leaf"}]
    OBVIOUS
  <2>3. /\ refs \in [Nodes -> Nat] /\ held \in [Nodes -> 0 .. MaxRefs]
        /\ length \in [Nodes -> Nat] /\ userdata \in [Nodes -> 0 .. MaxData]
        /\ given \in 0 .. MaxData /\ gone \in [1 .. MaxData -> Nat]
    BY JsonAssumption
  <2>4. member \in [Nodes -> [Fields -> Nodes \cup {NULL, Absent}]]
    BY <1>2
  <2> QED
    BY <1>1, <2>1, <2>2, <2>3, <2>4 DEF JsonTypeOK
<1>4. \A o \in Nodes : Slots(o) = {}
  BY JsonAssumption DEF Slots, Indices, NoMembers
<1>5. \A o \in Nodes : OwnedSlots(o) = {}
  BY <1>1, <1>4 DEF OwnedSlots
<1>6. \A o \in Nodes : Owners(o) = {} /\ Due(o) = 0
  BY <1>1, <1>5 DEF Owners, Due
<1>7. CountInv
  <2>1. IsFiniteSet({}) /\ Cardinality({}) = 0
    BY FS_EmptySet
  <2> SUFFICES ASSUME NEW o \in Nodes
               PROVE  /\ IsFiniteSet(Owners(o))
                      /\ refs[o] = held[o] + Cardinality(Owners(o)) + Due(o)
    BY DEF CountInv
  <2>2. Owners(o) = {} /\ Due(o) = 0
    BY <1>6
  <2>3. refs[o] = 0 /\ held[o] = 0
    OBVIOUS
  <2> QED
    BY <2>1, <2>2, <2>3
<1>8. LifeInv
  BY <1>1 DEF LifeInv
<1>9. ArrayInv
  BY <1>1, JsonAssumption DEF ArrayInv
<1>10. DataInv
  BY JsonAssumption DEF DataInv, DataDeletedOnce
<1>11. SupportInv
  BY <1>1 DEF SupportInv
<1> QED
  BY <1>3, <1>7, <1>8, <1>9, <1>10, <1>11 DEF JsonIInv

\* A reference more is within the bound when the sum of all is below it.
LEMMA HeldBelow ==
    ASSUME JsonTypeOK, HeldRefs < MaxRefs, NEW o \in Nodes
    PROVE  held[o] + 1 \in 0 .. MaxRefs
<1> DEFINE H == {h \in Nodes \X (1 .. MaxRefs) : h[2] <= held[h[1]]}
<1>1. MaxRefs \in Nat /\ held[o] \in 0 .. MaxRefs
  BY JsonAssumption DEF JsonTypeOK
<1>2. SUFFICES ASSUME held[o] = MaxRefs PROVE FALSE
  BY <1>1
<1>3. IsFiniteSet(H) /\ Cardinality(H) \in Nat
  <2>1. IsFiniteSet(1 .. MaxRefs) /\ IsFiniteSet(Nodes)
    BY <1>1, FS_Interval, JsonAssumption
  <2>2. IsFiniteSet(Nodes \X (1 .. MaxRefs))
    BY <2>1, FS_Product
  <2>3. H \subseteq Nodes \X (1 .. MaxRefs)
    OBVIOUS
  <2> QED
    BY <2>2, <2>3, FS_Subset, FS_CardinalityType
<1>5. {o} \X (1 .. MaxRefs) \subseteq H
  BY <1>1, <1>2
<1>6. IsFiniteSet({o} \X (1 .. MaxRefs)) /\ Cardinality({o} \X (1 .. MaxRefs)) <= Cardinality(H)
  BY <1>3, <1>5, FS_Subset
<1>7. Cardinality({o} \X (1 .. MaxRefs)) = 1 * Cardinality(1 .. MaxRefs)
  <2>1. IsFiniteSet({o}) /\ Cardinality({o}) = 1
    BY FS_Singleton
  <2>2. IsFiniteSet(1 .. MaxRefs)
    BY <1>1, FS_Interval
  <2>3. Cardinality({o} \X (1 .. MaxRefs)) = Cardinality({o}) * Cardinality(1 .. MaxRefs)
    BY <2>1, <2>2, FS_Product
  <2> QED
    BY <2>1, <2>3
<1>8. Cardinality(1 .. MaxRefs) = MaxRefs
  BY <1>1, FS_Interval
<1>9. HeldRefs = Cardinality(H)
  BY DEF HeldRefs
<1> HIDE DEF H
<1> QED
  BY <1>1, <1>3, <1>6, <1>7, <1>8, <1>9

\* Where the owners stay the same, the client's part of the count changes with
\* the count.
CountOf(o) == /\ IsFiniteSet(Owners(o))
              /\ refs[o] = held[o] + Cardinality(Owners(o)) + Due(o)
LEMMA CountKept ==
    ASSUME JsonTypeOK, CountInv, NEW o \in Nodes,
           Owners(o)' = Owners(o), refs'[o] \in Int, held'[o] \in Int, Due(o)' \in Int,
           refs'[o] - refs[o] = (held'[o] - held[o]) + (Due(o)' - Due(o))
    PROVE  CountOf(o)'
<1>1. /\ IsFiniteSet(Owners(o)) /\ Cardinality(Owners(o)) \in Nat
      /\ refs[o] = held[o] + Cardinality(Owners(o)) + Due(o)
      /\ held[o] \in Nat /\ refs[o] \in Nat /\ Due(o) \in {0, 1}
  BY CountFacts
<1>2. IsFiniteSet(Owners(o)')
  BY <1>1
<1>3. Cardinality(Owners(o)') = Cardinality(Owners(o))
  OBVIOUS
<1>4. refs'[o] = held'[o] + Cardinality(Owners(o)) + Due(o)'
  BY <1>1
<1> QED
  BY <1>2, <1>3, <1>4 DEF CountOf

LEMMA OwnersSame ==
    ASSUME \A p \in Nodes : OwnedSlots(p)' = OwnedSlots(p),
           \A p \in Nodes : \A s \in OwnedSlots(p) : ChildAt(p, s)' = ChildAt(p, s)
    PROVE  \A o : Owners(o)' = Owners(o)
  BY DEF Owners

LEMMA GetStep ==
    ASSUME JsonIInv, NEW o \in Nodes, Get(o)
    PROVE  JsonIInv'
<1> USE DEF JsonIInv, Get
<1>1. refs' = [refs EXCEPT ![o] = @ + 1] /\ held' = [held EXCEPT ![o] = @ + 1]
  OBVIOUS
<1>2. held[o] + 1 \in 0 .. MaxRefs
  BY HeldBelow
<1>3. Idle /\ Idle' /\ OnStack = {} /\ OnStack' = {} /\ deleting' = <<>>
  BY IdleOwners DEF Idle, OnStack
<1>4. /\ \A p \in Nodes : Slots(p)' = Slots(p)
      /\ \A p, s : ChildAt(p, s)' = ChildAt(p, s)
  BY DEF Slots, Indices, ChildAt
<1>5. \A p : Owners(p)' = Owners(p) /\ Due(p)' = Due(p)
  BY <1>3, <1>4 DEF Owners, Due, OwnedSlots, Idle
<1>6. JsonTypeOK'
  BY <1>1, <1>2, <1>4 DEF JsonTypeOK, Idle
<1>7. CountInv'
  <2> SUFFICES ASSUME NEW p \in Nodes PROVE CountOf(p)'
    BY DEF CountInv, CountOf
  <2>1. Owners(p)' = Owners(p) /\ Due(p)' = Due(p)
    BY <1>5
  <2>2. refs'[p] - refs[p] = held'[p] - held[p]
    BY <1>1 DEF JsonTypeOK
  <2>3. Due(p) = 0 /\ refs'[p] \in Int /\ held'[p] \in Int
    BY <1>3, <1>6, IdleOwners DEF JsonTypeOK
  <2>4. Due(p)' = 0 /\ refs'[p] - refs[p] = (held'[p] - held[p]) + (Due(p)' - Due(p))
    <3>1. Due(p)' = 0 /\ Due(p)' - Due(p) = 0
      BY <2>1, <2>3
    <3>2. refs[p] \in Nat /\ held[p] \in Nat
      BY CountFacts
    <3> QED
      BY <2>2, <2>3, <3>1, <3>2
  <2> QED
    BY <2>1, <2>3, <2>4, CountKept
<1>8. kind[o] # "free" /\ refs[o] > 0
  BY ReachableLives
<1>9. LifeInv'
  BY <1>1, <1>3, <1>8 DEF LifeInv, JsonTypeOK, OnStack
<1>10. ArrayInv'
  BY DEF ArrayInv
<1>11. DataInv'
  BY DEF DataInv, DataDeletedOnce
<1>12. SupportInv'
  BY DEF SupportInv, Idle
<1> QED
  BY <1>6, <1>7, <1>9, <1>10, <1>11, <1>12

\* What a node owns when it comes under deletion is what it owned before.
LEMMA IdlePut ==
    ASSUME JsonIInv, Idle, NEW o \in Nodes, refs[o] > 0, PutNode(o, <<>>)
    PROVE  /\ SameNodes(<<>>)
           /\ OnStack' = (IF refs[o] = 1 THEN {o} ELSE {})
           /\ refs[o] = 1 => Left(o)' = Slots(o)
           /\ \A q \in Nodes, j \in DOMAIN deleting' :
                 deleting'[j].node = q => deleting'[j].left \subseteq Slots(q)
<1> USE DEF JsonIInv
<1>1. Len(deleting) = 0 /\ OnStack = {} /\ deleting = <<>>
  BY IdleOwners DEF Idle
<1>2. SameNodes(<<>>)
  BY <1>1 DEF SameNodes
<1>3. /\ deleting' \in Seq(Entry)
      /\ Len(deleting') = IF refs[o] = 1 THEN 1 ELSE 0
      /\ refs[o] = 1 => deleting'[1] = [node |-> o, left |-> Slots(o)]
      /\ OnStack' = (IF refs[o] = 1 THEN {o} ELSE {})
  <2> DEFINE B == <<>>
  <2>1. Len(B) = 0
    OBVIOUS
  <2>2. SameNodes(B) /\ PutNode(o, B)
    BY <1>2
  <2> HIDE DEF B
  <2>3. /\ deleting' \in Seq(Entry)
        /\ Len(deleting') = IF refs[o] = 1 THEN Len(B) + 1 ELSE Len(B)
        /\ refs[o] = 1 => deleting'[Len(B) + 1] = [node |-> o, left |-> Slots(o)]
        /\ OnStack' = OnStack \cup (IF refs[o] = 1 THEN {o} ELSE {})
    BY <2>2, PutStack
  <2>4. Len(B) + 1 = 1
    BY <2>1
  <2> QED
    BY <1>1, <2>1, <2>3, <2>4
<1>4. DOMAIN deleting' = IF refs[o] = 1 THEN {1} ELSE {}
  BY <1>3
<1>5. Slots(o) \subseteq AnySlot
  BY SlotFacts
<1>6. refs[o] = 1 => Left(o)' = Slots(o)
  <2> SUFFICES ASSUME refs[o] = 1 PROVE Left(o)' = Slots(o)
    OBVIOUS
  <2>1. deleting'[1].node = o /\ deleting'[1].left = Slots(o)
    BY <1>3
  <2>2. Left(o)' = {s \in AnySlot : s \in Slots(o)}
    BY <1>4, <2>1 DEF Left
  <2> QED
    BY <1>5, <2>2
<1>7. ASSUME NEW q \in Nodes, NEW j \in DOMAIN deleting', deleting'[j].node = q
      PROVE  deleting'[j].left \subseteq Slots(q)
  <2>1. j = 1 /\ refs[o] = 1
    BY <1>4
  <2>2. deleting'[1].node = o /\ deleting'[1].left = Slots(o)
    BY <1>3, <2>1
  <2> QED
    BY <1>7, <2>1, <2>2
<1> QED
  BY <1>2, <1>3, <1>6, <1>7

LEMMA PutRefStep ==
    ASSUME JsonIInv, NEW o \in Nodes, PutRef(o)
    PROVE  JsonIInv'
<1> USE DEF JsonIInv, PutRef
<1>1. refs[o] > 0 /\ held' = [held EXCEPT ![o] = @ - 1] /\ held[o] \in 1 .. MaxRefs
  <2>1. held[o] \in 1 .. MaxRefs
    BY DEF JsonTypeOK
  <2> QED
    BY <2>1, CountFacts
<1>2. /\ SameNodes(<<>>) /\ OnStack' = (IF refs[o] = 1 THEN {o} ELSE {})
      /\ refs[o] = 1 => Left(o)' = Slots(o)
      /\ \A q \in Nodes, j \in DOMAIN deleting' :
            deleting'[j].node = q => deleting'[j].left \subseteq Slots(q)
  BY <1>1, IdlePut
<1>3. /\ misused' = FALSE
      /\ refs' = [refs EXCEPT ![o] = @ - 1] /\ refs' \in [Nodes -> Nat]
      /\ gone' \in [1 .. MaxData -> Nat]
      /\ \A q \in Nodes : IF kind[q] = "free" THEN refs'[q] = 0 /\ q \notin OnStack'
                          ELSE q \in OnStack' <=> refs'[q] = 0
      /\ DataInv'
  BY <1>1, <1>2, PutEffect
<1>4. /\ deleting' \in Seq(Entry)
      /\ \A i, j \in DOMAIN deleting' : deleting'[i].node = deleting'[j].node => i = j
  BY <1>1, <1>2, PutStack
<1>5. /\ \A p : Slots(p)' = Slots(p)
      /\ \A p, s : ChildAt(p, s)' = ChildAt(p, s)
  BY DEF Slots, Indices, ChildAt
<1>6. pending' = pending /\ pending.op # "store"
  BY IdleOwners
<1>7. \A p \in Nodes : OwnedSlots(p) = Slots(p) /\ OwnedSlots(p)' = Slots(p)
  BY <1>2, <1>5, <1>6, IdleOwners DEF OwnedSlots
<1>8. \A p : Owners(p)' = Owners(p) /\ Due(p)' = Due(p)
  BY <1>5, <1>6, <1>7, OwnersSame DEF Due
<1>9. JsonTypeOK'
  <2>1. held' \in [Nodes -> 0 .. MaxRefs]
    BY <1>1, JsonAssumption DEF JsonTypeOK
  <2>2. \A q \in Nodes, j \in DOMAIN deleting' :
           deleting'[j].node = q => deleting'[j].left \subseteq Slots(q)'
    BY <1>2, <1>5
  <2> QED
    BY <1>3, <1>4, <1>6, <2>1, <2>2 DEF JsonTypeOK
<1>10. CountInv'
  <2> SUFFICES ASSUME NEW p \in Nodes PROVE CountOf(p)'
    BY DEF CountInv, CountOf
  <2>1. Owners(p)' = Owners(p) /\ Due(p)' = Due(p)
    BY <1>8
  <2>2. refs'[p] - refs[p] = held'[p] - held[p]
    BY <1>1, <1>3 DEF JsonTypeOK
  <2>3. Due(p) = 0 /\ refs'[p] \in Int /\ held'[p] \in Int
    BY <1>9, IdleOwners DEF JsonTypeOK
  <2>4. Due(p)' = 0 /\ refs'[p] - refs[p] = (held'[p] - held[p]) + (Due(p)' - Due(p))
    <3>1. Due(p)' = 0 /\ Due(p)' - Due(p) = 0
      BY <2>1, <2>3
    <3>2. refs[p] \in Nat /\ held[p] \in Nat
      BY CountFacts
    <3> QED
      BY <2>2, <2>3, <3>1, <3>2
  <2> QED
    BY <2>1, <2>3, <2>4, CountKept
<1>11. LifeInv'
  BY <1>3, <1>4 DEF LifeInv
<1>12. ArrayInv' /\ SupportInv'
  BY <1>6 DEF ArrayInv, SupportInv
<1> QED
  BY <1>3, <1>9, <1>10, <1>11, <1>12

\* The pieces of user data, between calls.
LEMMA IdleData ==
    ASSUME JsonIInv, Idle
    PROVE  /\ given \in 0 .. MaxData /\ MaxData \in Nat
           /\ userdata \in [Nodes -> 0 .. MaxData] /\ gone \in [1 .. MaxData -> Nat]
           /\ \A m \in 1 .. given : IF \E o \in Nodes : userdata[o] = m
                                  THEN gone[m] = 0 ELSE gone[m] = 1
<1>1. DOMAIN deleting = {}
  BY DEF Idle
<1>2. DataDeletedOnce
  BY DEF JsonIInv, DataInv
<1>3. \A m \in 1 .. given : IF \E o \in Nodes : userdata[o] = m
                           THEN gone[m] = 0 ELSE gone[m] = 1
  BY <1>1, <1>2 DEF DataDeletedOnce
<1> QED
  BY <1>3, JsonAssumption DEF JsonIInv, JsonTypeOK

LEMMA NewNodeStep ==
    ASSUME JsonIInv, NEW o \in Nodes, NEW t \in {"object", "array", "leaf"}, NewNode(o, t),
           userdata' \in [Nodes -> 0 .. MaxData], \A q \in Nodes \ {o} : userdata'[q] = userdata[q],
           given' \in 0 .. MaxData, gone' \in [1 .. MaxData -> Nat], DataInv'
    PROVE  JsonIInv'
<1> USE DEF JsonIInv, NewNode
<1>1. Idle /\ pending' = pending /\ deleting' = <<>> /\ deleting = <<>> /\ pending.op # "store"
  BY IdleOwners DEF Idle
<1>2. /\ refs[o] = 0 /\ member[o] = NoMembers /\ length[o] = 0 /\ held[o] = 0
      /\ member' = member /\ length' = length
      /\ kind' = [kind EXCEPT ![o] = t] /\ refs' = [refs EXCEPT ![o] = 1]
      /\ held' = [held EXCEPT ![o] = 1]
  <2>1. refs[o] = 0 /\ member[o] = NoMembers /\ length[o] = 0
    BY DEF LifeInv
  <2> QED
    BY <2>1, CountFacts
<1> DEFINE a == IF t = "array" THEN [j \in 1 .. DefaultSize |-> NULL] ELSE <<>>
<1>3. a \in Seq(Nodes \cup {NULL}) /\ \A j \in 1 .. Len(a) : a[j] = NULL
  BY JsonAssumption
<1>4. array' = [array EXCEPT ![o] = a]
  OBVIOUS
<1> HIDE DEF a
<1>5. ASSUME NEW q \in Nodes
      PROVE  Slots(q)' = Slots(q) /\ \A s \in Slots(q) : ChildAt(q, s)' = ChildAt(q, s)
  <2>1. \A j \in 1 .. length[q] : array'[q][j] = array[q][j]
    BY <1>2, <1>4 DEF JsonTypeOK
  <2> QED
    BY <1>2, <2>1, SlotsKept
<1>6. OnStack = {} /\ OnStack' = {}
  BY <1>1 DEF OnStack
<1>7. \A q \in Nodes : OwnedSlots(q)' = OwnedSlots(q) /\ OwnedSlots(q) = Slots(q)
  BY <1>1, <1>5, <1>6 DEF OwnedSlots
<1>8. \A q : Owners(q)' = Owners(q) /\ Due(q)' = 0 /\ Due(q) = 0
  BY <1>1, <1>5, <1>7, OwnersSame DEF Due
<1>9. JsonTypeOK'
  <2>1. held' \in [Nodes -> 0 .. MaxRefs]
    BY <1>2, HeldBelow DEF JsonTypeOK
  <2>2. array' \in [Nodes -> Seq(Nodes \cup {NULL})]
    BY <1>3, <1>4 DEF JsonTypeOK
  <2>3. kind' \in [Nodes -> {"free", "object", "array", "leaf"}] /\ refs' \in [Nodes -> Nat]
    BY <1>2 DEF JsonTypeOK
  <2>4. UNCHANGED <<member, length, deleting, pending, misused>> /\ DOMAIN deleting = {}
    BY <1>1
  <2> QED
    BY <2>1, <2>2, <2>3, <2>4 DEF JsonTypeOK
<1>10. CountInv'
  <2> SUFFICES ASSUME NEW p \in Nodes PROVE CountOf(p)'
    BY DEF CountInv, CountOf
  <2>1. refs'[p] - refs[p] = held'[p] - held[p]
    BY <1>2 DEF JsonTypeOK
  <2>2. refs'[p] \in Int /\ held'[p] \in Int /\ refs[p] \in Int /\ held[p] \in Int
    BY <1>9 DEF JsonTypeOK
  <2>3. Owners(p)' = Owners(p) /\ Due(p)' = 0 /\ Due(p) = 0
    BY <1>8
  <2>4. refs'[p] - refs[p] = (held'[p] - held[p]) + (Due(p)' - Due(p)) /\ Due(p)' \in Int
    BY <2>1, <2>2, <2>3
  <2> QED
    BY <2>2, <2>3, <2>4, CountKept
<1>11. LifeInv'
  <2>1. ASSUME NEW q \in Nodes
        PROVE  IF kind'[q] = "free"
               THEN /\ refs'[q] = 0 /\ q \notin OnStack'
                    /\ member'[q] = NoMembers /\ length'[q] = 0 /\ userdata'[q] = 0
               ELSE q \in OnStack' <=> refs'[q] = 0
    <3>1. CASE q = o
      <4>1. kind'[o] = t /\ t # "free" /\ refs'[o] = 1
        BY <1>2 DEF JsonTypeOK
      <4> QED
        BY <1>6, <3>1, <4>1
    <3>2. CASE q # o
      <4>1. kind'[q] = kind[q] /\ refs'[q] = refs[q] /\ userdata'[q] = userdata[q]
        BY <1>2, <3>2 DEF JsonTypeOK
      <4> QED
        BY <1>2, <1>6, <4>1 DEF LifeInv
    <3> QED
      BY <3>1, <3>2
  <2>2. DOMAIN deleting' = {} /\ ~ misused'
    BY <1>1 DEF LifeInv
  <2> QED
    BY <2>1, <2>2 DEF LifeInv
<1>12. ArrayInv'
  <2>1. ASSUME NEW q \in Nodes
        PROVE  /\ length'[q] <= Len(array'[q])
               /\ \A j \in length'[q] + 1 .. Len(array'[q]) : array'[q][j] = NULL
    <3>1. CASE q = o
      <4>1. array'[q] = a /\ length'[q] = 0
        BY <1>2, <1>4, <3>1 DEF JsonTypeOK
      <4>2. Len(a) \in Nat /\ \A j \in 0 + 1 .. Len(a) : a[j] = NULL
        BY <1>3
      <4>3. 0 <= Len(a)
        BY <4>2
      <4> QED
        BY <4>1, <4>2, <4>3
    <3>2. CASE q # o
      <4>1. array'[q] = array[q] /\ length'[q] = length[q]
        BY <1>2, <1>4, <3>2 DEF JsonTypeOK
      <4> QED
        BY <4>1 DEF ArrayInv
    <3> QED
      BY <3>1, <3>2
  <2> QED
    BY <1>1, <2>1 DEF ArrayInv
<1>13. SupportInv'
  BY <1>1 DEF SupportInv
<1> QED
  BY <1>9, <1>10, <1>11, <1>12, <1>13

LEMMA NewStep ==
    ASSUME JsonIInv, NEW o \in Nodes, New(o)
    PROVE  JsonIInv'
<1>1. PICK t \in {"object", "array", "leaf"} : NewNode(o, t)
  BY DEF New
<1>2. UNCHANGED <<userdata, given, gone>>
  BY DEF New
<1>3. deleting' = deleting
  BY <1>1 DEF NewNode
<1>4. DataInv'
  BY <1>2, <1>3 DEF JsonIInv, DataInv, DataDeletedOnce
<1> QED
  BY <1>1, <1>2, <1>4, NewNodeStep DEF JsonIInv, JsonTypeOK

LEMMA NewDoubleSStep ==
    ASSUME JsonIInv, NEW o \in Nodes, NewDoubleS(o)
    PROVE  JsonIInv'
<1>1. NewNode(o, "leaf")
  BY DEF NewDoubleS
<1>2. /\ userdata' = [userdata EXCEPT ![o] = given + 1] /\ given' = given + 1 /\ given < MaxData
      /\ gone' = gone
  BY DEF NewDoubleS
<1>3. Idle /\ deleting' = <<>> /\ kind[o] = "free"
  BY <1>1 DEF NewNode, Idle
<1>4. userdata[o] = 0
  BY <1>3 DEF JsonIInv, LifeInv
<1>5. /\ given \in 0 .. MaxData /\ MaxData \in Nat
      /\ userdata \in [Nodes -> 0 .. MaxData] /\ gone \in [1 .. MaxData -> Nat]
      /\ \A m \in 1 .. given : IF \E q \in Nodes : userdata[q] = m
                             THEN gone[m] = 0 ELSE gone[m] = 1
  BY <1>3, IdleData
<1>6. /\ \A q \in Nodes : userdata[q] <= given
      /\ \A q, p \in Nodes : userdata[q] # 0 /\ userdata[q] = userdata[p] => q = p
      /\ \A m \in 1 .. MaxData : m > given => gone[m] = 0
  BY DEF JsonIInv, DataInv
<1>7. given' \in 0 .. MaxData /\ userdata' \in [Nodes -> 0 .. MaxData]
  BY <1>2, <1>5
<1>8. ASSUME NEW m \in 1 .. given'
      PROVE  IF \E q \in Nodes : userdata'[q] = m THEN gone'[m] = 0 ELSE gone'[m] = 1
  <2>1. CASE m = given + 1
    <3>1. userdata'[o] = m
      BY <1>2, <1>5, <2>1
    <3>2. gone[m] = 0
      BY <1>2, <1>5, <1>6, <2>1
    <3> QED
      BY <1>2, <3>1, <3>2
  <2>2. CASE m # given + 1
    <3>1. m \in 1 .. given
      BY <1>2, <1>5, <2>2
    <3>2. \A q \in Nodes : userdata'[q] = m <=> userdata[q] = m
      BY <1>2, <1>4, <1>5, <2>2, <3>1
    <3> QED
      BY <1>2, <1>5, <3>1, <3>2
  <2> QED
    BY <2>1, <2>2
<1>9. DataDeletedOnce'
  <2>1. DOMAIN deleting' = {}
    BY <1>3
  <2> QED
    BY <1>8, <2>1 DEF DataDeletedOnce
<1>10. DataInv'
  <2>1. \A q \in Nodes : userdata'[q] = IF q = o THEN given + 1 ELSE userdata[q]
    BY <1>2, <1>5
  <2>2. \A q \in Nodes : userdata[q] \in Nat /\ userdata[q] # given + 1
    BY <1>5, <1>6
  <2>3. \A q \in Nodes : userdata'[q] <= given'
    BY <1>2, <1>5, <1>6, <2>1, <2>2
  <2>4. \A q, p \in Nodes : userdata'[q] # 0 /\ userdata'[q] = userdata'[p] => q = p
    BY <1>6, <2>1, <2>2
  <2>5. \A m \in 1 .. MaxData : m > given' => gone'[m] = 0
    BY <1>2, <1>5, <1>6
  <2> QED
    BY <1>9, <2>3, <2>4, <2>5 DEF DataInv
<1> QED
  BY <1>1, <1>2, <1>5, <1>7, <1>10, NewNodeStep

\* The old piece of user data is deleted and the new one, if there is one, is
\* the node's.
LEMMA SetSerializerStep ==
    ASSUME JsonIInv, NEW o \in Nodes, SetSerializer(o)
    PROVE  JsonIInv'
<1>1. /\ Idle /\ o \in Reachable /\ given' <= MaxData
      /\ UNCHANGED <<kind, refs, member, array, length, held, deleting, pending, misused>>
  BY DEF SetSerializer
<1>2. PICK fn \in BOOLEAN :
         /\ gone' = DataGone(o)
         /\ given' = IF fn THEN given + 1 ELSE given
         /\ userdata' = [userdata EXCEPT ![o] = IF fn THEN given' ELSE 0]
  BY DEF SetSerializer, Replaced
<1>3. kind[o] # "free"
  BY <1>1, ReachableLives
<1>4. /\ given \in 0 .. MaxData /\ MaxData \in Nat
      /\ userdata \in [Nodes -> 0 .. MaxData] /\ gone \in [1 .. MaxData -> Nat]
      /\ \A m \in 1 .. given : IF \E q \in Nodes : userdata[q] = m
                             THEN gone[m] = 0 ELSE gone[m] = 1
  BY <1>1, IdleData
<1>5. /\ \A q \in Nodes : userdata[q] <= given
      /\ \A q, p \in Nodes : userdata[q] # 0 /\ userdata[q] = userdata[p] => q = p
      /\ \A m \in 1 .. MaxData : m > given => gone[m] = 0
  BY DEF JsonIInv, DataInv
<1> DEFINE old == userdata[o]
           new == IF fn THEN given' ELSE 0
<1>6. /\ old \in 0 .. given
      /\ gone' = IF old = 0 THEN gone ELSE [gone EXCEPT ![old] = @ + 1]
  BY <1>2, <1>4, <1>5 DEF DataGone
<1>7. /\ given' \in 0 .. MaxData /\ given' >= given /\ new \in 0 .. given'
      /\ userdata' \in [Nodes -> 0 .. MaxData] /\ gone' \in [1 .. MaxData -> Nat]
  BY <1>1, <1>2, <1>4, <1>6
<1>8. \A q \in Nodes : userdata'[q] = IF q = o THEN new ELSE userdata[q]
  BY <1>2, <1>4
<1>9. new = 0 \/ (new = given + 1 /\ given' = given + 1)
  BY <1>2
<1>10. \A m \in 1 .. MaxData : gone'[m] = IF m = old THEN gone[m] + 1 ELSE gone[m]
  BY <1>4, <1>6
<1> HIDE DEF old, new
<1>11. ASSUME NEW m \in 1 .. given'
      PROVE  IF \E q \in Nodes : userdata'[q] = m THEN gone'[m] = 0 ELSE gone'[m] = 1
  <2>0. m \in 1 .. MaxData
    BY <1>4, <1>7
  <2>1. CASE m = given + 1
    <3>1. new = m
      BY <1>2, <1>4, <1>7, <2>1 DEF new
    <3>2. gone[m] = 0 /\ m # old
      BY <1>4, <1>5, <1>6, <2>0, <2>1
    <3> QED
      BY <1>8, <1>10, <2>0, <3>1, <3>2
  <2>2. CASE m # given + 1 /\ m = old
    <3>1. gone[m] = 0
      BY <1>4, <1>6, <2>2 DEF old
    <3>2. gone'[m] = 1
      BY <1>10, <2>0, <2>2, <3>1
    <3>3. \A q \in Nodes : userdata[q] = m => q = o
      BY <1>5, <2>2 DEF old
    <3>4. new # m
      BY <1>9, <2>2
    <3> QED
      BY <1>8, <3>2, <3>3, <3>4
  <2>3. CASE m # given + 1 /\ m # old
    <3>1. m \in 1 .. given
      BY <1>2, <1>4, <2>3
    <3>2. new # m
      BY <1>9, <2>3
    <3>3. \A q \in Nodes : userdata'[q] = m <=> userdata[q] = m
      BY <1>8, <2>3, <3>2 DEF old
    <3> QED
      BY <1>4, <1>10, <2>0, <2>3, <3>1, <3>3
  <2> QED
    BY <2>1, <2>2, <2>3
<1>12. DataInv'
  <2>1. DOMAIN deleting' = {}
    BY <1>1 DEF Idle
  <2>2. DataDeletedOnce'
    BY <1>11, <2>1 DEF DataDeletedOnce
  <2>3. ASSUME NEW q \in Nodes PROVE userdata'[q] <= given'
    <3>1. userdata[q] \in Nat /\ userdata[q] <= given
      BY <1>4, <1>5
    <3>2. userdata'[q] \in {new, userdata[q]}
      BY <1>8
    <3> QED
      BY <1>4, <1>7, <3>1, <3>2
  <2>4. \A q \in Nodes : userdata[q] # given + 1
    BY <1>4, <1>5
  <2>5. \A q, p \in Nodes : userdata'[q] # 0 /\ userdata'[q] = userdata'[p] => q = p
    BY <1>5, <1>8, <1>9, <2>4
  <2>6. \A m \in 1 .. MaxData : m > given' => gone'[m] = 0
    BY <1>4, <1>5, <1>6, <1>7, <1>10
  <2> QED
    BY <2>2, <2>3, <2>5, <2>6 DEF DataInv
<1>13. /\ \A p : Slots(p)' = Slots(p)
       /\ \A p, s : ChildAt(p, s)' = ChildAt(p, s)
  BY <1>1 DEF Slots, Indices, ChildAt
<1>14. OnStack' = OnStack
  BY <1>1 DEF OnStack
<1>15. \A p : Owners(p)' = Owners(p) /\ Due(p)' = Due(p)
  BY <1>1, <1>13, <1>14 DEF Owners, Due, OwnedSlots, Left
<1>16. JsonTypeOK'
  BY <1>1, <1>7, <1>13 DEF JsonIInv, JsonTypeOK
<1>17. CountInv' /\ ArrayInv'
  BY <1>1, <1>15 DEF JsonIInv, CountInv, ArrayInv
<1>18. LifeInv'
  BY <1>1, <1>3, <1>8, <1>14 DEF JsonIInv, LifeInv
<1>19. SupportInv'
  BY <1>1 DEF SupportInv, Idle
<1> QED
  BY <1>12, <1>16, <1>17, <1>18, <1>19 DEF JsonIInv

-----------------------------------------------------------------------------
(* The deletions.                                                           *)

LEMMA TopFacts ==
    ASSUME JsonIInv, deleting # <<>>
    PROVE  LET n == Len(deleting)
               o == Innermost.node
           IN  /\ n \in Nat \ {0} /\ DOMAIN deleting = 1 .. n /\ deleting[n] = Innermost
               /\ o \in Nodes /\ Innermost.left \subseteq Slots(o)
               /\ o \in OnStack /\ refs[o] = 0 /\ kind[o] # "free"
               /\ Left(o) = Innermost.left /\ OwnedSlots(o) = Innermost.left
               /\ Innermost \in Entry
<1> DEFINE n == Len(deleting)
           o == Innermost.node
<1>1. deleting \in Seq(Entry)
  BY DEF JsonIInv, JsonTypeOK
<1>2. n \in Nat \ {0} /\ DOMAIN deleting = 1 .. n
  BY <1>1
<1>3. deleting[n] = Innermost /\ Innermost \in Entry
  BY <1>1, <1>2 DEF Innermost
<1>4. o \in Nodes /\ o \in OnStack /\ Innermost.left \subseteq AnySlot
  BY <1>2, <1>3 DEF Entry, OnStack
<1>5. Innermost.left \subseteq Slots(o)
  <2>1. \A q \in Nodes, j \in DOMAIN deleting :
           deleting[j].node = q => deleting[j].left \subseteq Slots(q)
    BY DEF JsonIInv, JsonTypeOK
  <2>2. n \in DOMAIN deleting /\ deleting[n].node = o /\ deleting[n].left = Innermost.left
    BY <1>2, <1>3
  <2> HIDE DEF n, o
  <2> QED
    BY <1>4, <2>1, <2>2
<1>6. refs[o] = 0 /\ kind[o] # "free"
  BY <1>4 DEF JsonIInv, LifeInv
<1>7. \A j \in DOMAIN deleting : deleting[j].node = o => j = n
  BY <1>2, <1>3 DEF JsonIInv, LifeInv
<1>8. Left(o) = Innermost.left
  BY <1>2, <1>3, <1>4, <1>7 DEF Left
<1> QED
  BY <1>2, <1>3, <1>4, <1>5, <1>6, <1>8 DEF OwnedSlots

\* The node that is stored into is not reached by the deletion.
LEMMA SupportedLives ==
    ASSUME JsonIInv, NEW P \in SUBSET Nodes, Supports(P), NEW q \in P
    PROVE  /\ q \notin OnStack /\ refs[q] > 0 /\ kind[q] # "free"
           /\ \A e \in Owners(q) : e[1] \notin P => refs[q] > 1
<1>1. /\ q \notin OnStack
      /\ held[q] > 0 \/ \E e \in Owners(q) : e[1] \in P
  BY DEF Supports
<1>2. refs[q] > 0
  BY <1>1, CountFacts DEF JsonIInv
<1>3. ASSUME NEW e \in Owners(q), e[1] \notin P PROVE refs[q] > 1
  <2>1. CASE held[q] > 0
    BY <2>1, CountFacts DEF JsonIInv
  <2>2. CASE \E d \in Owners(q) : d[1] \in P
    <3>1. PICK d \in Owners(q) : d[1] \in P
      BY <2>2
    <3>2. d # e
      BY <1>3, <3>1
    <3> QED
      BY <3>2, CountFacts DEF JsonIInv
  <2> QED
    BY <1>1, <2>1, <2>2
<1> QED
  BY <1>1, <1>2, <1>3 DEF JsonIInv, LifeInv

\* A node whose children were all put is freed: nothing names it as an owner
\* any more, and nothing owns it.
LEMMA DeleteNodeStep ==
    ASSUME JsonIInv, DeleteNode
    PROVE  JsonIInv'
<1> DEFINE n == Len(deleting)
<1>0. PICK o \in Nodes : o = Innermost.node
  BY TopFacts DEF DeleteNode
<1>1. /\ deleting # <<>> /\ Innermost.left = {}
      /\ kind' = [kind EXCEPT ![o] = "free"]
      /\ member' = [member EXCEPT ![o] = NoMembers]
      /\ array' = [array EXCEPT ![o] = <<>>]
      /\ length' = [length EXCEPT ![o] = 0]
      /\ userdata' = [userdata EXCEPT ![o] = 0]
      /\ deleting' = Outer
      /\ UNCHANGED <<refs, held, pending, given, gone, misused>>
  BY <1>0 DEF DeleteNode
<1>2. /\ n \in Nat \ {0} /\ DOMAIN deleting = 1 .. n /\ deleting[n] = Innermost
      /\ o \in Nodes /\ o \in OnStack /\ refs[o] = 0 /\ kind[o] # "free"
      /\ OwnedSlots(o) = {}
  BY <1>0, <1>1, TopFacts
<1>3. JsonTypeOK
  BY DEF JsonIInv
<1>4. /\ deleting' \in Seq(Entry) /\ DOMAIN deleting' = 1 .. n - 1
      /\ \A j \in 1 .. n - 1 : deleting'[j] = deleting[j]
  <2>1. deleting \in Seq(Entry)
    BY <1>3 DEF JsonTypeOK
  <2>2. \A j \in 1 .. n - 1 : deleting[j] \in Entry
    BY <1>2, <2>1
  <2>3. /\ SubSeq(deleting, 1, n - 1) \in Seq(Entry) /\ Len(SubSeq(deleting, 1, n - 1)) = n - 1
        /\ \A j \in 1 .. n - 1 : SubSeq(deleting, 1, n - 1)[j] = deleting[j]
    <3>1. /\ SubSeq(deleting, 1, n - 1) \in Seq(Entry)
          /\ Len(SubSeq(deleting, 1, n - 1)) = IF 1 <= n - 1 THEN n - 1 - 1 + 1 ELSE 0
          /\ \A j \in 1 .. n - 1 - 1 + 1 : SubSeq(deleting, 1, n - 1)[j] = deleting[1 + j - 1]
      BY <1>2, <2>2, SubSeqProperties
    <3> QED
      BY <1>2, <3>1
  <2> QED
    BY <1>1, <2>3 DEF Outer
<1>5. OnStack' = OnStack \ {o}
  <2>1. \A j \in 1 .. n - 1 : deleting[j].node # o
    BY <1>0, <1>2 DEF JsonIInv, LifeInv
  <2>2. OnStack = {deleting[j].node : j \in 1 .. n - 1} \cup {o}
    <3>1. 1 .. n = (1 .. n - 1) \cup {n}
      BY <1>2
    <3> QED
      BY <1>0, <1>2, <3>1 DEF OnStack
  <2>3. OnStack' = {deleting[j].node : j \in 1 .. n - 1}
    BY <1>4 DEF OnStack
  <2> QED
    BY <2>1, <2>2, <2>3
<1>6. ASSUME NEW q \in Nodes, q # o
      PROVE  Slots(q)' = Slots(q) /\ \A s \in Slots(q) : ChildAt(q, s)' = ChildAt(q, s)
  <2>1. member'[q] = member[q] /\ length'[q] = length[q] /\ array'[q] = array[q]
    BY <1>1, <1>3, <1>6 DEF JsonTypeOK
  <2> QED
    BY <1>3, <2>1, SlotsKept
<1>7. member'[o] = NoMembers /\ length'[o] = 0 /\ array'[o] = <<>> /\ userdata'[o] = 0
  BY <1>1, <1>2, <1>3 DEF JsonTypeOK
<1>8. Slots(o)' = {}
  BY <1>7, JsonAssumption DEF Slots, Indices, NoMembers
<1>9. ASSUME NEW q \in Nodes, q # o PROVE OwnedSlots(q)' = OwnedSlots(q)
  <2>1. q \in OnStack' <=> q \in OnStack
    BY <1>5, <1>9
  <2>2. Left(q)' = Left(q)
    <3>1. \A s : (\E j \in 1 .. n : deleting[j].node = q /\ s \in deleting[j].left)
                <=> (\E j \in 1 .. n - 1 : deleting[j].node = q /\ s \in deleting[j].left)
      BY <1>0, <1>2, <1>9
    <3>2. \A s : (\E j \in DOMAIN deleting' : deleting'[j].node = q /\ s \in deleting'[j].left)
                <=> (\E j \in 1 .. n - 1 : deleting[j].node = q /\ s \in deleting[j].left)
      BY <1>4
    <3> QED
      BY <1>2, <3>1, <3>2 DEF Left
  <2>3. pending' = pending /\ Slots(q)' = Slots(q)
    BY <1>1, <1>6, <1>9
  <2> QED
    BY <2>1, <2>2, <2>3 DEF OwnedSlots
<1>10. OwnedSlots(o)' = {}
  BY <1>5, <1>8 DEF OwnedSlots
<1>11. \A p \in Nodes : OwnedSlots(p)' = OwnedSlots(p)
  BY <1>2, <1>9, <1>10
<1>12. ASSUME NEW p \in Nodes, NEW s \in OwnedSlots(p) PROVE ChildAt(p, s)' = ChildAt(p, s)
  <2>1. p # o
    BY <1>2, <1>12
  <2>2. s \in Slots(p)
    BY <1>3, <1>12 DEF OwnedSlots, Left, JsonTypeOK
  <2> QED
    BY <1>6, <2>1, <2>2
<1>13. \A q : Owners(q)' = Owners(q)
  BY <1>11, <1>12, OwnersSame
<1>14. \A q : Due(q)' = Due(q)
  BY <1>1 DEF Due
<1>15. JsonTypeOK'
  <2>1. ASSUME NEW q \in Nodes, NEW j \in DOMAIN deleting', deleting'[j].node = q
        PROVE  deleting'[j].left \subseteq Slots(q)'
    <3>1. deleting'[j] = deleting[j] /\ j \in DOMAIN deleting /\ q # o
      <4>1. q \in OnStack'
        BY <2>1 DEF OnStack
      <4> QED
        BY <1>2, <1>4, <1>5, <4>1
    <3> QED
      BY <1>3, <1>6, <2>1, <3>1 DEF JsonTypeOK
  <2>2. NoMembers \in [Fields -> Nodes \cup {NULL, Absent}]
    BY DEF NoMembers
  <2>3. member' \in [Nodes -> [Fields -> Nodes \cup {NULL, Absent}]]
    BY <1>1, <1>3, <2>2 DEF JsonTypeOK
  <2>4. array' \in [Nodes -> Seq(Nodes \cup {NULL})]
    <3>1. <<>> \in Seq(Nodes \cup {NULL})
      OBVIOUS
    <3> QED
      BY <1>1, <1>3, <3>1 DEF JsonTypeOK
  <2>5. /\ kind' \in [Nodes -> {"free", "object", "array", "leaf"}]
        /\ length' \in [Nodes -> Nat] /\ userdata' \in [Nodes -> 0 .. MaxData]
    <3>1. kind' \in [Nodes -> {"free", "object", "array", "leaf"}]
      BY <1>1, <1>3 DEF JsonTypeOK
    <3>2. length' \in [Nodes -> Nat]
      BY <1>1, <1>3 DEF JsonTypeOK
    <3>3. 0 \in 0 .. MaxData
      BY JsonAssumption
    <3>4. userdata' \in [Nodes -> 0 .. MaxData]
      BY <1>1, <1>3, <3>3 DEF JsonTypeOK
    <3> QED
      BY <3>1, <3>2, <3>4
  <2> QED
    BY <1>1, <1>3, <1>4, <2>1, <2>3, <2>4, <2>5 DEF JsonTypeOK
<1>16. CountInv'
  BY <1>1, <1>13, <1>14 DEF JsonIInv, CountInv
<1>17. LifeInv'
  <2>1. ASSUME NEW q \in Nodes
        PROVE  IF kind'[q] = "free"
               THEN /\ refs'[q] = 0 /\ q \notin OnStack'
                    /\ member'[q] = NoMembers /\ length'[q] = 0 /\ userdata'[q] = 0
               ELSE q \in OnStack' <=> refs'[q] = 0
    <3>1. CASE q = o
      <4>1. kind'[o] = "free" /\ refs'[o] = 0
        BY <1>1, <1>2, <1>3 DEF JsonTypeOK
      <4> QED
        BY <1>5, <1>7, <3>1, <4>1
    <3>2. CASE q # o
      <4>1. /\ kind'[q] = kind[q] /\ member'[q] = member[q] /\ length'[q] = length[q]
            /\ userdata'[q] = userdata[q] /\ refs'[q] = refs[q]
        BY <1>1, <1>3, <3>2 DEF JsonTypeOK
      <4> QED
        BY <1>5, <3>2, <4>1 DEF JsonIInv, LifeInv
    <3> QED
      BY <3>1, <3>2
  <2>2. \A i, j \in DOMAIN deleting' : deleting'[i].node = deleting'[j].node => i = j
    BY <1>2, <1>4 DEF JsonIInv, LifeInv
  <2>3. ~ misused'
    BY <1>1 DEF JsonIInv, LifeInv
  <2> QED
    BY <2>1, <2>2, <2>3 DEF LifeInv
<1>18. pending.op = "store" => pending.node # o
  BY <1>2, SupportedLives DEF JsonIInv, SupportInv
<1>19. ArrayInv'
  <2>1. ASSUME NEW q \in Nodes
        PROVE  /\ length'[q] <= Len(array'[q])
               /\ \A j \in length'[q] + 1 .. Len(array'[q]) : array'[q][j] = NULL
    <3>1. CASE q = o
      BY <1>7, <3>1
    <3>2. CASE q # o
      <4>1. array'[q] = array[q] /\ length'[q] = length[q]
        BY <1>1, <1>3, <3>2 DEF JsonTypeOK
      <4> QED
        BY <4>1 DEF JsonIInv, ArrayInv
    <3> QED
      BY <3>1, <3>2
  <2>2. ASSUME pending.op = "store"
        PROVE  array'[pending.node] = array[pending.node]
    <3>1. pending.node \in Nodes
      BY <1>3, <2>2 DEF JsonTypeOK, Stores
    <3> QED
      BY <1>1, <1>3, <1>18, <2>2, <3>1 DEF JsonTypeOK
  <2> QED
    BY <1>1, <2>1, <2>2 DEF JsonIInv, ArrayInv
<1>20. DataInv'
  <2>1. \A q \in Nodes : userdata'[q] = IF q = o THEN 0 ELSE userdata[q]
    BY <1>1, <1>3 DEF JsonTypeOK
  <2>2. \A m \in 1 .. given :
           IF \E q \in Nodes : userdata[q] = m /\ q \notin OnStack
           THEN gone[m] = 0 ELSE gone[m] = 1
    BY DeletedOnceAgain DEF JsonIInv, DataInv
  <2>3. ASSUME NEW m \in 1 .. given
        PROVE  IF \E q \in Nodes : userdata'[q] = m /\ q \notin OnStack'
               THEN gone'[m] = 0 ELSE gone'[m] = 1
    <3>1. \A q \in Nodes : userdata'[q] = m /\ q \notin OnStack'
                         <=> userdata[q] = m /\ q \notin OnStack
      BY <1>2, <1>5, <2>1
    <3> QED
      BY <1>1, <2>2, <3>1
  <2>4. \A q : q \notin OnStack' <=> \A j \in DOMAIN deleting' : deleting'[j].node # q
    BY DEF OnStack
  <2>5. DataDeletedOnce'
    BY <1>1, <2>3, <2>4 DEF DataDeletedOnce
  <2>6. given \in Nat
    BY <1>3 DEF JsonTypeOK
  <2>7. /\ \A q \in Nodes : userdata'[q] <= given'
        /\ \A q, p \in Nodes : userdata'[q] # 0 /\ userdata'[q] = userdata'[p] => q = p
        /\ \A m \in 1 .. MaxData : m > given' => gone'[m] = 0
    BY <1>1, <2>1, <2>6 DEF JsonIInv, DataInv
  <2> QED
    BY <2>5, <2>7 DEF DataInv
<1>21. SupportInv'
  <2> SUFFICES ASSUME pending.op = "store"
               PROVE  \E P \in SUBSET Nodes : pending'.node \in P /\ Supports(P)'
    BY <1>1 DEF SupportInv
  <2>1. PICK P \in SUBSET Nodes : pending.node \in P /\ Supports(P)
    BY DEF JsonIInv, SupportInv
  <2>2. Supports(P)'
    BY <1>1, <1>5, <1>13, <2>1 DEF Supports
  <2> QED
    BY <1>1, <2>1, <2>2
<1> QED
  BY <1>15, <1>16, <1>17, <1>19, <1>20, <1>21 DEF JsonIInv

\* The innermost deletion puts one of the children that are left to it, and
\* owns it no more.
LEMMA DeleteChildStep ==
    ASSUME JsonIInv, DeleteChild
    PROVE  JsonIInv'
<1>0. PICK o \in Nodes, n \in Nat \ {0} : o = Innermost.node /\ n = Len(deleting)
  BY TopFacts DEF DeleteChild
<1>1. PICK s \in Innermost.left :
         PutNode(ChildAt(o, s), Append(Outer, [Innermost EXCEPT !.left = LeftAfter(s)]))
  BY <1>0 DEF DeleteChild
<1>2. /\ n \in Nat \ {0} /\ DOMAIN deleting = 1 .. n /\ deleting[n] = Innermost
      /\ Innermost \in Entry /\ Innermost.left \subseteq Slots(o)
      /\ o \in OnStack /\ refs[o] = 0 /\ kind[o] # "free"
      /\ OwnedSlots(o) = Innermost.left
  BY <1>0, TopFacts DEF DeleteChild
<1>3. /\ deleting # <<>>
      /\ UNCHANGED <<kind, member, array, length, userdata, held, pending, given>>
  BY DEF DeleteChild
<1>4. JsonTypeOK /\ LifeInv /\ DataInv /\ CountInv
  BY DEF JsonIInv
<1>5. s \in AnySlot /\ s \in Slots(o)
  BY <1>2, <1>4, SlotFacts
<1>6. PICK c \in Nodes : c = ChildAt(o, s)
  BY <1>4, <1>5, SlotFacts
<1>7. <<o, s>> \in Owners(c)
  BY <1>2, <1>5, <1>6, OwnerFacts
<1>8. refs[c] > 0
  BY <1>4, <1>7, CountFacts
<1>9. c # o
  BY <1>2, <1>8
<1> DEFINE t == [Innermost EXCEPT !.left = LeftAfter(s)]
           B == Append(Outer, t)
<1>10. t \in Entry /\ t.node = o /\ t.left = Innermost.left \ {s}
  BY <1>0, <1>2 DEF Entry, LeftAfter
<1>11. /\ Outer \in Seq(Entry) /\ Len(Outer) = n - 1
       /\ \A j \in 1 .. n - 1 : Outer[j] = deleting[j]
  <2>1. deleting \in Seq(Entry)
    BY <1>4 DEF JsonTypeOK
  <2>2. \A j \in 1 .. n - 1 : deleting[j] \in Entry
    BY <1>2, <2>1
  <2>3. /\ SubSeq(deleting, 1, n - 1) \in Seq(Entry)
        /\ Len(SubSeq(deleting, 1, n - 1)) = IF 1 <= n - 1 THEN n - 1 - 1 + 1 ELSE 0
        /\ \A j \in 1 .. n - 1 - 1 + 1 : SubSeq(deleting, 1, n - 1)[j] = deleting[1 + j - 1]
    BY <1>2, <2>2, SubSeqProperties
  <2> QED
    BY <1>0, <1>2, <2>3 DEF Outer
<1>12. /\ B \in Seq(Entry) /\ Len(B) = n /\ B[n] = t
       /\ \A j \in 1 .. n - 1 : B[j] = deleting[j]
  <2> HIDE DEF t
  <2>1. /\ B \in Seq(Entry) /\ Len(B) = Len(Outer) + 1 /\ B[Len(Outer) + 1] = t
        /\ \A j \in 1 .. Len(Outer) : B[j] = Outer[j]
    BY <1>10, <1>11, AppendProperties
  <2> QED
    BY <1>2, <1>11, <2>1
<1>13. PutNode(c, B)
  BY <1>1, <1>6
<1> HIDE DEF t, B
<1>14. SameNodes(B)
  <2> SUFFICES ASSUME NEW j \in 1 .. Len(B)
               PROVE  B[j].node = deleting[j].node /\ B[j].left \subseteq deleting[j].left
    BY <1>0, <1>12 DEF SameNodes
  <2>1. CASE j = n
    BY <1>0, <1>2, <1>10, <1>12, <2>1
  <2>2. CASE j # n
    <3>1. B[j] = deleting[j]
      BY <1>2, <1>12, <2>2
    <3> QED
      BY <3>1
  <2> QED
    BY <2>1, <2>2
<1>15. /\ c \notin OnStack /\ kind[c] # "free"
       /\ deleting' \in Seq(Entry)
       /\ Len(deleting') = IF refs[c] = 1 THEN n + 1 ELSE n
       /\ \A j \in 1 .. n : deleting'[j] = B[j]
       /\ refs[c] = 1 => deleting'[n + 1] = [node |-> c, left |-> Slots(c)]
       /\ OnStack' = OnStack \cup (IF refs[c] = 1 THEN {c} ELSE {})
       /\ \A i, j \in DOMAIN deleting' : deleting'[i].node = deleting'[j].node => i = j
  <2>1. Len(B) = n
    BY <1>12
  <2>2. /\ c \notin OnStack /\ kind[c] # "free"
        /\ deleting' \in Seq(Entry)
        /\ Len(deleting') = IF refs[c] = 1 THEN Len(B) + 1 ELSE Len(B)
        /\ \A j \in 1 .. Len(B) : deleting'[j] = B[j]
        /\ refs[c] = 1 => deleting'[Len(B) + 1] = [node |-> c, left |-> Slots(c)]
        /\ OnStack' = OnStack \cup (IF refs[c] = 1 THEN {c} ELSE {})
        /\ \A i, j \in DOMAIN deleting' : deleting'[i].node = deleting'[j].node => i = j
    BY <1>4, <1>8, <1>13, <1>14, PutStack
  <2> QED
    BY <2>1, <2>2
<1>16. /\ misused' = FALSE
       /\ refs' = [refs EXCEPT ![c] = @ - 1] /\ refs' \in [Nodes -> Nat]
       /\ gone' \in [1 .. MaxData -> Nat]
       /\ \A q \in Nodes : IF kind[q] = "free" THEN refs'[q] = 0 /\ q \notin OnStack'
                           ELSE q \in OnStack' <=> refs'[q] = 0
       /\ DataInv'
  BY <1>3, <1>4, <1>8, <1>13, <1>14, PutEffect
<1>17. /\ \A p : Slots(p)' = Slots(p)
       /\ \A p, r : ChildAt(p, r)' = ChildAt(p, r)
  BY <1>3 DEF Slots, Indices, ChildAt
<1>18. DOMAIN deleting' = IF refs[c] = 1 THEN 1 .. n + 1 ELSE 1 .. n
  BY <1>2, <1>15
<1>19. \A j \in 1 .. n : /\ deleting'[j].node = deleting[j].node
                         /\ j # n => deleting'[j].left = deleting[j].left
                         /\ j = n => deleting'[j].left = Innermost.left \ {s}
  <2> SUFFICES ASSUME NEW j \in 1 .. n
               PROVE  /\ deleting'[j].node = deleting[j].node
                      /\ j # n => deleting'[j].left = deleting[j].left
                      /\ j = n => deleting'[j].left = Innermost.left \ {s}
    OBVIOUS
  <2>1. deleting'[j] = B[j] /\ deleting'[j].node = deleting[j].node
    BY <1>12, <1>14, <1>15 DEF SameNodes
  <2>2. j # n => B[j] = deleting[j]
    BY <1>2, <1>12
  <2> QED
    BY <1>10, <1>12, <2>1, <2>2
<1>20. refs[c] = 1 => deleting'[n + 1].node = c /\ deleting'[n + 1].left = Slots(c)
  BY <1>15
\* The children that are left to each node, before and after.
<1>21. ASSUME NEW q \in Nodes
       PROVE  OwnedSlots(q)' = IF q = o THEN OwnedSlots(q) \ {s} ELSE OwnedSlots(q)
  <2>1. CASE q = o
    <3>1. o \in OnStack'
      BY <1>2, <1>15
    <3>2. ASSUME NEW r
          PROVE  r \in Left(o)' <=> r \in Innermost.left \ {s}
      <4>1. r \in Left(o)' => r \in Innermost.left \ {s}
        <5> SUFFICES ASSUME r \in Left(o)' PROVE r \in Innermost.left \ {s}
          OBVIOUS
        <5>1. PICK j \in DOMAIN deleting' : deleting'[j].node = o /\ r \in deleting'[j].left
          BY DEF Left
        <5>2. j \in 1 .. n
          BY <1>2, <1>9, <1>18, <1>20, <5>1
        <5>3. j = n
          BY <1>0, <1>2, <1>4, <1>19, <5>1, <5>2 DEF LifeInv
        <5> QED
          BY <1>19, <5>1, <5>2, <5>3
      <4>2. r \in Innermost.left \ {s} => r \in Left(o)'
        <5> SUFFICES ASSUME r \in Innermost.left \ {s} PROVE r \in Left(o)'
          OBVIOUS
        <5>1. n \in DOMAIN deleting' /\ n \in 1 .. n
          BY <1>2, <1>18
        <5>2. deleting'[n].node = o /\ r \in deleting'[n].left
          BY <1>0, <1>2, <1>19, <5>1
        <5>3. r \in AnySlot
          BY <1>2, <1>4, SlotFacts
        <5> QED
          BY <5>1, <5>2, <5>3 DEF Left
      <4> QED
        BY <4>1, <4>2
    <3>3. OwnedSlots(o)' = Left(o)'
      BY <3>1 DEF OwnedSlots
    <3> QED
      BY <1>2, <2>1, <3>2, <3>3
  <2>2. CASE q = c /\ refs[c] = 1
    <3>1. Left(c)' = Slots(c)
      <4>1. \A j \in 1 .. n : deleting'[j].node # c
        BY <1>2, <1>15, <1>19 DEF OnStack
      <4>2. n + 1 \in DOMAIN deleting' /\ deleting'[n + 1].node = c
            /\ deleting'[n + 1].left = Slots(c)
        BY <1>2, <1>18, <1>20, <2>2
      <4>3. \A j \in DOMAIN deleting' : deleting'[j].node = c => j = n + 1
        BY <1>2, <1>18, <4>1
      <4>4. Slots(c) \subseteq AnySlot
        BY <1>4, SlotFacts
      <4>5. \A r : (\E j \in DOMAIN deleting' : deleting'[j].node = c /\ r \in deleting'[j].left)
                  <=> r \in Slots(c)
        BY <4>2, <4>3
      <4> QED
        BY <4>4, <4>5 DEF Left
    <3>2. ~ (pending.op = "store" /\ pending.node = c)
      <4> SUFFICES ASSUME pending.op = "store", pending.node = c PROVE FALSE
        OBVIOUS
      <4>1. PICK P \in SUBSET Nodes : c \in P /\ Supports(P)
        BY DEF JsonIInv, SupportInv
      <4>2. o \notin P
        BY <1>2, <4>1 DEF Supports
      <4>3. refs[c] > 1
        BY <1>7, <4>1, <4>2, SupportedLives
      <4> QED
        BY <2>2, <4>3
    <3>3. OwnedSlots(c) = Slots(c)
      BY <1>15, <3>2 DEF OwnedSlots
    <3>4. OwnedSlots(c)' = Left(c)'
      BY <1>15, <2>2 DEF OwnedSlots
    <3> QED
      BY <1>9, <2>2, <3>1, <3>3, <3>4
  <2>3. CASE q # o /\ ~ (q = c /\ refs[c] = 1)
    <3>1. q \in OnStack' <=> q \in OnStack
      BY <1>15, <2>3
    <3>2. ASSUME NEW r PROVE (\E j \in DOMAIN deleting' : deleting'[j].node = q /\ r \in deleting'[j].left)
                        <=> (\E j \in DOMAIN deleting : deleting[j].node = q /\ r \in deleting[j].left)
      <4>1. \A j \in DOMAIN deleting' : deleting'[j].node = q => j \in 1 .. n /\ j # n
        BY <1>0, <1>2, <1>18, <1>19, <1>20, <2>3
      <4>2. \A j \in DOMAIN deleting : deleting[j].node = q => j \in 1 .. n /\ j # n
        BY <1>0, <1>2, <2>3
      <4>3. \A j \in 1 .. n : j \in DOMAIN deleting' /\ j \in DOMAIN deleting
        BY <1>2, <1>18
      <4> QED
        BY <1>19, <4>1, <4>2, <4>3
    <3>3. Left(q)' = Left(q)
      BY <3>2 DEF Left
    <3>4. pending' = pending /\ Slots(q)' = Slots(q)
      BY <1>3, <1>17
    <3> QED
      BY <2>3, <3>1, <3>3, <3>4 DEF OwnedSlots
  <2> QED
    BY <2>1, <2>2, <2>3
<1>22. \A q : Owners(q)' = IF q = c THEN Owners(c) \ {<<o, s>>} ELSE Owners(q)
  BY <1>6, <1>17, <1>21 DEF Owners
<1>23. \A q : Due(q)' = Due(q)
  BY <1>3 DEF Due
<1>24. JsonTypeOK'
  <2>1. ASSUME NEW q \in Nodes, NEW j \in DOMAIN deleting', deleting'[j].node = q
        PROVE  deleting'[j].left \subseteq Slots(q)'
    <3>1. CASE j \in 1 .. n
      <4>1. deleting'[j].left \subseteq deleting[j].left /\ deleting[j].node = q
        BY <1>2, <1>19, <2>1, <3>1
      <4>2. deleting[j].left \subseteq Slots(q)
        BY <1>2, <1>4, <3>1, <4>1 DEF JsonTypeOK
      <4> QED
        BY <1>17, <4>1, <4>2
    <3>2. CASE ~ (j \in 1 .. n)
      <4>1. j = n + 1 /\ refs[c] = 1
        BY <1>2, <1>18, <3>2
      <4> QED
        BY <1>17, <1>20, <2>1, <4>1
    <3> QED
      BY <3>1, <3>2
  <2> QED
    BY <1>3, <1>4, <1>15, <1>16, <2>1 DEF JsonTypeOK
<1>25. CountInv'
  <2> SUFFICES ASSUME NEW q \in Nodes PROVE CountOf(q)'
    BY DEF CountInv, CountOf
  <2>1. CASE q = c
    <3>1. /\ IsFiniteSet(Owners(c)) /\ Cardinality(Owners(c)) \in Nat
          /\ refs[c] = held[c] + Cardinality(Owners(c)) + Due(c)
          /\ held[c] \in Nat /\ refs[c] \in Nat /\ Due(c) \in {0, 1}
      BY <1>4, CountFacts
    <3>2. /\ IsFiniteSet(Owners(c) \ {<<o, s>>})
          /\ Cardinality(Owners(c) \ {<<o, s>>}) = Cardinality(Owners(c)) - 1
      BY <1>7, <3>1, OwnerSteps
    <3>3. Owners(c)' = Owners(c) \ {<<o, s>>}
      BY <1>22
    <3>4. refs'[c] = refs[c] - 1 /\ held'[c] = held[c] /\ Due(c)' = Due(c)
      BY <1>3, <1>4, <1>16, <1>23 DEF JsonTypeOK
    <3>5. refs'[c] = held'[c] + Cardinality(Owners(c) \ {<<o, s>>}) + Due(c)'
      BY <3>1, <3>2, <3>4
    <3> QED
      BY <2>1, <3>2, <3>3, <3>5 DEF CountOf
  <2>2. CASE q # c
    <3>1. refs'[q] = refs[q] /\ held'[q] = held[q] /\ Due(q)' = Due(q) /\ Owners(q)' = Owners(q)
      BY <1>3, <1>4, <1>16, <1>22, <1>23, <2>2 DEF JsonTypeOK
    <3> QED
      BY <1>4, <3>1 DEF CountInv, CountOf
  <2> QED
    BY <2>1, <2>2
<1>26. LifeInv'
  BY <1>3, <1>4, <1>15, <1>16 DEF LifeInv
<1>27. ArrayInv'
  BY <1>3 DEF JsonIInv, ArrayInv
<1>28. SupportInv'
  <2> SUFFICES ASSUME pending.op = "store"
               PROVE  \E P \in SUBSET Nodes : pending'.node \in P /\ Supports(P)'
    BY <1>3 DEF SupportInv
  <2>1. PICK P \in SUBSET Nodes : pending.node \in P /\ Supports(P)
    BY DEF JsonIInv, SupportInv
  <2>2. o \notin P
    BY <1>2, <2>1 DEF Supports
  <2>3. c \in P => refs[c] > 1
    BY <1>7, <2>1, <2>2, SupportedLives
  <2>4. \A q \in P : q \notin OnStack'
    BY <1>15, <2>1, <2>3 DEF Supports
  <2>5. \A q \in P : \A e \in Owners(q) : e[1] \in P => e \in Owners(q)'
    BY <1>22, <2>2
  <2>6. Supports(P)'
    BY <1>3, <2>1, <2>4, <2>5 DEF Supports
  <2> QED
    BY <1>3, <2>1, <2>6
<1> QED
  BY <1>16, <1>24, <1>25, <1>26, <1>27, <1>28 DEF JsonIInv

-----------------------------------------------------------------------------
(* The calls that store.                                                    *)

\* The least set with what the client holds and all below it, but for what is
\* below p alone.
Beside(p, h) ==
    {o \in Nodes : \A C \in SUBSET Nodes :
        /\ \A q \in Nodes : h[q] > 0 => q \in C
        /\ \A q \in C \ {p} : Children(q) \subseteq C
        => o \in C}

LEMMA BesideFacts ==
    ASSUME JsonTypeOK, NEW p \in Nodes, NEW h
    PROVE  LET D == Beside(p, h)
           IN  /\ D \subseteq Nodes
               /\ \A q \in Nodes : h[q] > 0 => q \in D
               /\ \A q \in D \ {p} : Children(q) \subseteq D
               /\ \A q \in D : h[q] > 0 \/ \E r \in D \ {p} : q \in Children(r)
<1> DEFINE D == Beside(p, h)
<1>1. D \subseteq Nodes
  BY DEF Beside
<1>2. \A q \in Nodes : h[q] > 0 => q \in D
  BY DEF Beside
<1>3. ASSUME NEW q \in D \ {p}, NEW c \in Children(q) PROVE c \in D
  <2>1. c \in Nodes
    BY <1>1, SlotFacts DEF Children
  <2> SUFFICES ASSUME NEW C \in SUBSET Nodes,
                      \A r \in Nodes : h[r] > 0 => r \in C,
                      \A r \in C \ {p} : Children(r) \subseteq C
               PROVE  c \in C
    BY <2>1 DEF Beside
  <2>2. q \in C
    BY DEF Beside
  <2> QED
    BY <2>2
<1>4. ASSUME NEW q \in D, ~ h[q] > 0, \A r \in D \ {p} : q \notin Children(r)
      PROVE  FALSE
  <2> DEFINE C == D \ {q}
  <2>1. C \in SUBSET Nodes
    BY <1>1
  <2>2. \A r \in Nodes : h[r] > 0 => r \in C
    BY <1>2, <1>4
  <2>3. \A r \in C \ {p} : Children(r) \subseteq C
    BY <1>3, <1>4
  <2>4. q \in C
    <3> HIDE DEF C
    <3> QED BY <2>1, <2>2, <2>3 DEF Beside
  <2> QED
    BY <2>4
<1> QED
  BY <1>1, <1>2, <1>3, <1>4

LEMMA AllFacts ==
    ASSUME JsonTypeOK, NEW S \in SUBSET Nodes
    PROVE  /\ All(S) \subseteq Nodes /\ S \subseteq All(S) /\ Closed(All(S))
<1>1. All(S) \subseteq Nodes /\ S \subseteq All(S)
  BY DEF All
<1>2. ASSUME NEW q \in All(S), NEW c \in Children(q) PROVE c \in All(S)
  <2>1. c \in Nodes
    BY <1>1, SlotFacts DEF Children
  <2> SUFFICES ASSUME NEW C \in SUBSET Nodes, S \subseteq C, Closed(C) PROVE c \in C
    BY <2>1 DEF All
  <2>2. q \in C
    BY DEF All
  <2> QED
    BY <2>2 DEF Closed
<1> QED
  BY <1>1, <1>2 DEF Closed

\* A node the client can get at, and that is not below what is handed over, is
\* held without it, or is owned by nodes that are, none of them the node.
LEMMA StaysReachable ==
    ASSUME JsonTypeOK, NEW p \in Reachable, NEW V \in SUBSET Nodes, p \notin All(V),
           NEW h, \A q \in Nodes \ V : held[q] > 0 => h[q] > 0
    PROVE  p \in Beside(p, h)
<1> DEFINE D == Beside(p, h)
           C == D \cup All(V)
<1>0. p \in Nodes
  BY DEF Reachable, All
<1>1. SUFFICES ASSUME p \notin D PROVE FALSE
  OBVIOUS
<1>2. /\ D \subseteq Nodes
      /\ \A q \in Nodes : h[q] > 0 => q \in D
      /\ \A q \in D \ {p} : Children(q) \subseteq D
  BY <1>0, BesideFacts
<1>3. All(V) \subseteq Nodes /\ V \subseteq All(V) /\ Closed(All(V))
  BY AllFacts
<1> HIDE DEF D
<1>4. Closed(C) /\ C \in SUBSET Nodes
  BY <1>1, <1>2, <1>3 DEF Closed
<1>5. \A q \in Nodes : held[q] > 0 => q \in C
  BY <1>2, <1>3
<1>6. p \in C
  <2> HIDE DEF C
  <2> QED BY <1>4, <1>5, ReachableWithin
<1> QED
  BY <1>1, <1>6

LEMMA HandedArithmetic ==
    ASSUME NEW c \in Nat, NEW x \in Nat, NEW r, NEW h, NEW d, NEW b \in BOOLEAN,
           r = (x + c) - 1, d = (IF b THEN 1 ELSE 0), h = (IF b THEN x - 1 ELSE x)
    PROVE  r = h + (c - 1) + d
<1>1. CASE b
  <2>1. d = 1 /\ h = x - 1
    BY <1>1
  <2> QED BY <2>1
<1>2. CASE ~ b
  <2>1. d = 0 /\ h = x
    BY <1>2
  <2> QED BY <2>1
<1> QED BY <1>1, <1>2

\* The old value of a slot is put, while the new one is due: it is now owned by
\* the call, as it was by the client.
LEMMA ReplacedStep ==
    ASSUME JsonIInv, Idle, NEW p \in Reachable, NEW s \in AnySlot,
           NEW v \in Nodes \cup {NULL, Absent}, NEW old \in Nodes \cup {NULL, Absent},
           old \in Nodes => s \in Slots(p) /\ ChildAt(p, s) = old,
           old \notin Nodes => s \notin Slots(p),
           p \in Beside(p, held'),
           held' \in [Nodes -> 0 .. MaxRefs],
           \A q \in Nodes : held'[q] = IF q = v THEN held[q] - 1 ELSE held[q],
           PutsOld(old), pending' = Store(p, s, v),
           UNCHANGED <<kind, member, length, userdata, given>>,
           array' \in [Nodes -> Seq(Nodes \cup {NULL})],
           \A q \in Nodes : \A j \in 1 .. length[q] : array'[q][j] = array[q][j]
    PROVE  JsonTypeOK' /\ CountInv' /\ LifeInv' /\ DataInv' /\ SupportInv'
<1>1. JsonTypeOK /\ LifeInv /\ DataInv /\ CountInv
  BY DEF JsonIInv
<1>2. p \in Nodes /\ kind[p] # "free" /\ refs[p] > 0
  BY ReachableLives
<1>0. PICK D : D = Beside(p, held')
  OBVIOUS
<1>3. /\ D \subseteq Nodes
      /\ \A q \in D \ {p} : Children(q) \subseteq D
      /\ \A q \in D : held'[q] > 0 \/ \E r \in D \ {p} : q \in Children(r)
  BY <1>0, <1>1, <1>2, BesideFacts
<1>4. p \in D
  BY <1>0
<1>5. /\ OnStack = {} /\ deleting = <<>> /\ pending.op # "store"
      /\ \A q : OwnedSlots(q) = Slots(q)
      /\ \A q : Due(q) = 0
  BY IdleOwners DEF Idle
<1>6. ASSUME NEW q \in Nodes
      PROVE  Slots(q)' = Slots(q) /\ \A r \in Slots(q) : ChildAt(q, r)' = ChildAt(q, r)
  BY <1>1, SlotsKept
<1>7. \A q \in Nodes : \A r \in Slots(q) : <<q, r>> \in Owners(ChildAt(q, r))
  BY <1>1, <1>5, SlotFacts, OwnerFacts
\* The count of the old value, and what of the deletion is under way.
<1>8. ASSUME old \in Nodes
      PROVE  /\ <<p, s>> \in Owners(old) /\ refs[old] > 0
             /\ old \in D => refs[old] > 1
  <2>1. <<p, s>> \in Owners(old)
    BY <1>2, <1>7, <1>8
  <2>2. refs[old] > 0
    BY <1>1, <1>8, <2>1, CountFacts
  <2>3. ASSUME old \in D PROVE refs[old] > 1
    <3>1. CASE held'[old] > 0
      <4>1. held[old] \in Nat /\ held'[old] \in Nat
        BY <1>1, <1>8 DEF JsonTypeOK
      <4>2. held[old] > 0
        BY <1>8, <3>1, <4>1
      <4> QED
        BY <1>1, <1>8, <2>1, <4>2, CountFacts
    <3>2. CASE \E r \in D \ {p} : old \in Children(r)
      <4>1. PICK r \in D \ {p} : old \in Children(r)
        BY <3>2
      <4>2. PICK x \in Slots(r) : old = ChildAt(r, x)
        BY <4>1 DEF Children
      <4>3. <<r, x>> \in Owners(old)
        BY <1>3, <1>7, <4>1, <4>2
      <4>4. <<r, x>> # <<p, s>>
        BY <4>1
      <4> QED
        BY <1>1, <1>8, <2>1, <4>3, <4>4, CountFacts
    <3> QED
      BY <1>3, <2>3, <3>1, <3>2
  <2> QED
    BY <2>1, <2>2, <2>3
<1>9. old \in Nodes => PutNode(old, <<>>)
  BY DEF PutsOld
<1>10. old \notin Nodes => UNCHANGED <<refs, deleting, gone, misused>>
  BY DEF PutsOld
<1>11. OnStack' = IF old \in Nodes /\ refs[old] = 1 THEN {old} ELSE {}
  <2>1. CASE old \in Nodes
    BY <1>8, <1>9, <2>1, IdlePut
  <2>2. CASE old \notin Nodes
    BY <1>5, <1>10, <2>2 DEF OnStack
  <2> QED
    BY <2>1, <2>2
<1>12. /\ misused' = FALSE /\ refs' \in [Nodes -> Nat]
       /\ \A q \in Nodes : refs'[q] = IF q = old THEN refs[q] - 1 ELSE refs[q]
       /\ gone' \in [1 .. MaxData -> Nat]
       /\ \A q \in Nodes : IF kind[q] = "free" THEN refs'[q] = 0 /\ q \notin OnStack'
                           ELSE q \in OnStack' <=> refs'[q] = 0
       /\ DataInv'
  <2>1. CASE old \in Nodes
    <3>1. SameNodes(<<>>) /\ refs[old] > 0
      BY <1>8, <1>9, <2>1, IdlePut
    <3>2. /\ misused' = FALSE
          /\ refs' = [refs EXCEPT ![old] = @ - 1] /\ refs' \in [Nodes -> Nat]
          /\ gone' \in [1 .. MaxData -> Nat]
          /\ \A q \in Nodes : IF kind[q] = "free" THEN refs'[q] = 0 /\ q \notin OnStack'
                              ELSE q \in OnStack' <=> refs'[q] = 0
          /\ DataInv'
      BY <1>1, <1>9, <2>1, <3>1, PutEffect
    <3>3. \A q \in Nodes : refs'[q] = IF q = old THEN refs[q] - 1 ELSE refs[q]
      BY <1>1, <3>2 DEF JsonTypeOK
    <3> QED
      BY <3>2, <3>3
  <2>2. CASE old \notin Nodes
    <3>1. UNCHANGED <<refs, deleting, gone, misused>>
      BY <1>10, <2>2
    <3>2. DataInv'
      BY <1>1, <3>1 DEF DataInv, DataDeletedOnce
    <3>3. OnStack' = OnStack
      BY <3>1 DEF OnStack
    <3> QED
      BY <1>1, <2>2, <3>1, <3>2, <3>3 DEF LifeInv, JsonTypeOK
  <2> QED
    BY <2>1, <2>2
<1>13. /\ deleting' \in Seq(Entry)
       /\ \A i, j \in DOMAIN deleting' : deleting'[i].node = deleting'[j].node => i = j
       /\ \A q \in Nodes, j \in DOMAIN deleting' :
             deleting'[j].node = q => deleting'[j].left \subseteq Slots(q)
       /\ old \in Nodes /\ refs[old] = 1 => Left(old)' = Slots(old)
  <2>1. CASE old \in Nodes
    <3>1. /\ SameNodes(<<>>) /\ refs[old] > 0
          /\ \A q \in Nodes, j \in DOMAIN deleting' :
                deleting'[j].node = q => deleting'[j].left \subseteq Slots(q)
          /\ refs[old] = 1 => Left(old)' = Slots(old)
      BY <1>8, <1>9, <2>1, IdlePut
    <3>2. /\ deleting' \in Seq(Entry)
          /\ \A i, j \in DOMAIN deleting' : deleting'[i].node = deleting'[j].node => i = j
      BY <1>1, <1>9, <2>1, <3>1, PutStack
    <3> QED
      BY <3>1, <3>2
  <2>2. CASE old \notin Nodes
    BY <1>5, <1>10, <2>2
  <2> QED
    BY <2>1, <2>2
<1>14. pending' \in Stores /\ pending'.op = "store" /\ pending'.node = p /\ pending'.slot = s
       /\ pending'.value = v
  BY <1>2 DEF Store, Stores
<1>15. p \notin OnStack'
  BY <1>4, <1>8, <1>11
<1>16. ASSUME NEW q \in Nodes
       PROVE  OwnedSlots(q)' = IF q = p THEN Slots(q) \ {s} ELSE Slots(q)
  <2>1. CASE q = p
    BY <1>6, <1>14, <1>15, <2>1 DEF OwnedSlots
  <2>2. CASE q # p /\ q \in OnStack'
    <3>1. q = old /\ refs[old] = 1
      BY <1>11, <2>2
    <3>2. Left(q)' = Slots(q)
      BY <1>13, <3>1
    <3> QED
      BY <2>2, <3>2 DEF OwnedSlots
  <2>3. CASE q # p /\ q \notin OnStack'
    BY <1>6, <1>14, <2>3 DEF OwnedSlots
  <2> QED
    BY <2>1, <2>2, <2>3
<1>17. ASSUME NEW q \in Nodes
       PROVE  Owners(q)' = IF q = old THEN Owners(q) \ {<<p, s>>} ELSE Owners(q)
  <2>1. ASSUME NEW x, NEW y
        PROVE  <<x, y>> \in Owners(q)' <=> <<x, y>> \in Owners(q) /\ <<x, y>> # <<p, s>>
    <3>1. <<x, y>> \in Owners(q)' <=>
             x \in Nodes /\ y \in AnySlot /\ y \in OwnedSlots(x)' /\ ChildAt(x, y)' = q
      BY DEF Owners
    <3>2. <<x, y>> \in Owners(q) <=>
             x \in Nodes /\ y \in AnySlot /\ y \in Slots(x) /\ ChildAt(x, y) = q
      BY <1>5, OwnerFacts
    <3> QED
      BY <1>6, <1>16, <3>1, <3>2
  <2>2. <<p, s>> \in Owners(q) => q = old
    <3>1. <<p, s>> \in Owners(q) => s \in Slots(p) /\ ChildAt(p, s) = q
      BY <1>5, OwnerFacts
    <3> QED
      BY <3>1
  <2>3. \A e : e \in Owners(q)' <=> e \in Owners(q) /\ e # <<p, s>>
    <3>1. \A e : e \in Owners(q)' => e = <<e[1], e[2]>>
      BY DEF Owners
    <3>2. \A e : e \in Owners(q) => e = <<e[1], e[2]>>
      BY DEF Owners
    <3> QED
      BY <2>1, <3>1, <3>2
  <2> QED
    BY <2>2, <2>3
<1>18. \A q : Due(q)' = IF q = v THEN 1 ELSE 0
  BY <1>14 DEF Due
<1>19. JsonTypeOK'
  <2>1. \A q \in Nodes, j \in DOMAIN deleting' :
           deleting'[j].node = q => deleting'[j].left \subseteq Slots(q)'
    BY <1>6, <1>13
  <2>2. misused' \in BOOLEAN /\ pending' \in {[op |-> "none"]} \cup Stores
    BY <1>12, <1>14
  <2> QED
    BY <1>1, <1>12, <1>13, <2>1, <2>2 DEF JsonTypeOK
<1>20. CountInv'
  <2> SUFFICES ASSUME NEW q \in Nodes PROVE CountOf(q)'
    BY DEF CountInv, CountOf
  <2>1. /\ IsFiniteSet(Owners(q)) /\ Cardinality(Owners(q)) \in Nat
        /\ refs[q] = held[q] + Cardinality(Owners(q)) + Due(q)
        /\ held[q] \in Nat /\ refs[q] \in Nat
    BY <1>1, CountFacts
  <2>2. /\ Due(q) = 0 /\ Due(q)' = (IF q = v THEN 1 ELSE 0)
        /\ held'[q] = (IF q = v THEN held[q] - 1 ELSE held[q])
    BY <1>5, <1>18
  <2>3. CASE q = old
    <3>1. <<p, s>> \in Owners(q)
      BY <1>8, <2>3
    <3>2. /\ IsFiniteSet(Owners(q) \ {<<p, s>>})
          /\ Cardinality(Owners(q) \ {<<p, s>>}) = Cardinality(Owners(q)) - 1
      BY <2>1, <3>1, OwnerSteps
    <3>3. Owners(q)' = Owners(q) \ {<<p, s>>} /\ refs'[q] = refs[q] - 1
      BY <1>12, <1>17, <2>3
    <3>4. refs'[q] = held'[q] + Cardinality(Owners(q) \ {<<p, s>>}) + Due(q)'
      <4>1. PICK c \in Nat : c = Cardinality(Owners(q))
        BY <2>1
      <4>2. PICK d : d = Due(q)'
        OBVIOUS
      <4>3. refs[q] = held[q] + c /\ held[q] \in Nat
        BY <2>1, <2>2, <4>1
      <4>4. refs'[q] = (held[q] + c) - 1
        BY <3>3, <4>3
      <4>5. d = (IF q = v THEN 1 ELSE 0) /\ held'[q] = (IF q = v THEN held[q] - 1 ELSE held[q])
        BY <2>2, <4>2
      <4>6. refs'[q] = held'[q] + (c - 1) + d
        <5>1. PICK b \in BOOLEAN : b <=> q = v
          OBVIOUS
        <5>2. PICK x, h, r : x \in Nat /\ x = held[q] /\ h = held'[q] /\ r = refs'[q]
          BY <4>3
        <5>3. r = (x + c) - 1 /\ d = (IF b THEN 1 ELSE 0) /\ h = (IF b THEN x - 1 ELSE x)
          BY <4>4, <4>5, <5>1, <5>2
        <5>4. r = h + (c - 1) + d
          BY <4>1, <5>1, <5>2, <5>3, HandedArithmetic
        <5> QED
          BY <5>2, <5>4
      <4> QED
        BY <3>2, <4>1, <4>2, <4>6
    <3> QED
      BY <3>2, <3>3, <3>4 DEF CountOf
  <2>4. CASE q # old
    <3>1. Owners(q)' = Owners(q) /\ refs'[q] = refs[q]
      BY <1>12, <1>17, <2>4
    <3>2. refs'[q] = held'[q] + Cardinality(Owners(q)) + Due(q)'
      BY <2>1, <2>2, <3>1
    <3> QED
      BY <2>1, <3>1, <3>2 DEF CountOf
  <2> QED
    BY <2>3, <2>4
<1>21. LifeInv'
  BY <1>1, <1>12, <1>13 DEF LifeInv
<1>22. SupportInv'
  <2>1. \A q \in D : q \notin OnStack'
    BY <1>8, <1>11
  <2>2. ASSUME NEW q \in D
        PROVE  held'[q] > 0 \/ \E e \in Owners(q)' : e[1] \in D
    <3> SUFFICES ASSUME NEW r \in D \ {p}, q \in Children(r)
                 PROVE  \E e \in Owners(q)' : e[1] \in D
      BY <1>3
    <3>1. PICK x \in Slots(r) : q = ChildAt(r, x)
      BY DEF Children
    <3>2. <<r, x>> \in Owners(q) /\ <<r, x>> # <<p, s>>
      BY <1>3, <1>7, <3>1
    <3>3. <<r, x>> \in Owners(q)'
      BY <1>3, <1>17, <3>2
    <3> QED
      BY <3>3
  <2>3. Supports(D)'
    <3>1. \A q \in D : held'[q] > 0 \/ \E e \in Owners(q)' : e[1] \in D
      BY <2>2
    <3> QED
      BY <2>1, <3>1 DEF Supports
  <2> QED
    BY <1>3, <1>4, <1>14, <2>3 DEF SupportInv
<1> QED
  BY <1>12, <1>19, <1>20, <1>21, <1>22

LEMMA AllOfNothing == All({}) = {}
<1>1. Closed({})
  BY DEF Closed
<1>2. {} \in SUBSET Nodes
  OBVIOUS
<1> QED
  BY <1>1, <1>2 DEF All

\* What the client hands over is no longer its own, and the node it is stored
\* into is held without it.
LEMMA HandsOverFacts ==
    ASSUME JsonIInv, NEW p \in Nodes, NEW v \in Nodes \cup {NULL}, HandsOver(p, v)
    PROVE  /\ Idle /\ p \in Reachable /\ p \in Beside(p, held')
           /\ held' \in [Nodes -> 0 .. MaxRefs]
           /\ \A q \in Nodes : held'[q] = IF q = v THEN held[q] - 1 ELSE held[q]
<1>1. Idle /\ p \in Reachable /\ JsonTypeOK
  BY DEF HandsOver, JsonIInv
<1>2. held \in [Nodes -> 0 .. MaxRefs] /\ MaxRefs \in Nat
  BY <1>1, JsonAssumption DEF JsonTypeOK
<1>3. PICK h : h = held'
  OBVIOUS
<1>4. CASE v = NULL /\ UNCHANGED held
  <2>1. NULL \notin Nodes
    BY JsonAssumption
  <2>2. p \notin All({})
    BY AllOfNothing
  <2>3. p \in Beside(p, h)
    BY <1>1, <1>3, <1>4, <2>2, StaysReachable
  <2> QED
    BY <1>1, <1>2, <1>3, <1>4, <2>1, <2>3
<1>5. CASE /\ v \in Nodes /\ held[v] > 0 /\ p \notin All({v})
           /\ held' = [held EXCEPT ![v] = @ - 1]
  <2>1. \A q \in Nodes : h[q] = IF q = v THEN held[q] - 1 ELSE held[q]
    BY <1>2, <1>3, <1>5
  <2>2. \A q \in Nodes \ {v} : held[q] > 0 => h[q] > 0
    BY <2>1
  <2>3. p \in Beside(p, h)
    BY <1>1, <1>5, <2>2, StaysReachable
  <2>4. held[v] - 1 \in 0 .. MaxRefs
    BY <1>2, <1>5
  <2> QED
    BY <1>1, <1>2, <1>3, <1>5, <2>1, <2>3, <2>4
<1> QED
  BY <1>4, <1>5 DEF HandsOver

LEMMA ObjectAddStep ==
    ASSUME JsonIInv, NEW p \in Nodes, NEW f \in Fields, NEW v \in Nodes \cup {NULL},
           ObjectAdd(p, f, v)
    PROVE  JsonIInv'
<1> DEFINE s == <<"member", f>>
<1>1. JsonTypeOK /\ ArrayInv
  BY DEF JsonIInv
<1>2. /\ Idle /\ p \in Reachable /\ p \in Beside(p, held')
      /\ held' \in [Nodes -> 0 .. MaxRefs]
      /\ \A q \in Nodes : held'[q] = IF q = v THEN held[q] - 1 ELSE held[q]
  BY HandsOverFacts DEF ObjectAdd
<1>3. PICK old : old = member[p][f]
  OBVIOUS
<1>4. /\ old \in Nodes \cup {NULL, Absent} /\ s \in AnySlot
      /\ old \in Nodes => s \in Slots(p) /\ ChildAt(p, s) = old
      /\ old \notin Nodes => s \notin Slots(p)
  <2>1. member[p] \in [Fields -> Nodes \cup {NULL, Absent}]
    BY <1>1 DEF JsonTypeOK
  <2>2. old \in Nodes \cup {NULL, Absent}
    BY <1>3, <2>1
  <2>3. s \in AnySlot
    BY DEF AnySlot
  <2>4. s \in Slots(p) <=> old \in Nodes
    BY <1>1, <1>3, SlotFacts
  <2>5. ChildAt(p, s) = old
    BY <1>3 DEF ChildAt
  <2> QED
    BY <2>2, <2>3, <2>4, <2>5
<1>5. /\ PutsOld(old) /\ pending' = Store(p, s, v)
      /\ UNCHANGED <<kind, member, length, userdata, given>> /\ array' = array
  BY <1>3 DEF ObjectAdd
<1>6. v \in Nodes \cup {NULL, Absent} /\ array' \in [Nodes -> Seq(Nodes \cup {NULL})]
  BY <1>1, <1>5 DEF JsonTypeOK
<1>7. pending'.slot[1] # "array"
  BY <1>5 DEF Store
<1> HIDE DEF s
<1>8. JsonTypeOK' /\ CountInv' /\ LifeInv' /\ DataInv' /\ SupportInv'
  BY <1>2, <1>4, <1>5, <1>6, ReplacedStep
<1>9. ArrayInv'
  BY <1>1, <1>5, <1>7 DEF ArrayInv
<1> QED
  BY <1>8, <1>9 DEF JsonIInv

LEMMA ObjectDelStep ==
    ASSUME JsonIInv, NEW p \in Nodes, NEW f \in Fields, ObjectDel(p, f)
    PROVE  JsonIInv'
<1> DEFINE s == <<"member", f>>
<1>1. JsonTypeOK /\ ArrayInv
  BY DEF JsonIInv
<1>2. /\ Idle /\ p \in Reachable /\ held' = held
  BY DEF ObjectDel
<1>3. PICK old : old = member[p][f]
  OBVIOUS
<1>4. /\ old \in Nodes \cup {NULL, Absent} /\ s \in AnySlot
      /\ old \in Nodes => s \in Slots(p) /\ ChildAt(p, s) = old
      /\ old \notin Nodes => s \notin Slots(p)
  <2>1. member[p] \in [Fields -> Nodes \cup {NULL, Absent}]
    BY <1>1 DEF JsonTypeOK
  <2>2. old \in Nodes \cup {NULL, Absent}
    BY <1>3, <2>1
  <2>3. s \in AnySlot
    BY DEF AnySlot
  <2>4. s \in Slots(p) <=> old \in Nodes
    BY <1>1, <1>3, SlotFacts
  <2>5. ChildAt(p, s) = old
    BY <1>3 DEF ChildAt
  <2> QED
    BY <2>2, <2>3, <2>4, <2>5
<1>5. /\ PutsOld(old) /\ pending' = Store(p, s, Absent)
      /\ UNCHANGED <<kind, member, length, userdata, given>> /\ array' = array
  BY <1>3 DEF ObjectDel
<1>6. /\ array' \in [Nodes -> Seq(Nodes \cup {NULL})] /\ held' \in [Nodes -> 0 .. MaxRefs]
      /\ Absent \in Nodes \cup {NULL, Absent}
  BY <1>1, <1>2, <1>5 DEF JsonTypeOK
<1>7. \A q \in Nodes : held'[q] = IF q = Absent THEN held[q] - 1 ELSE held[q]
  BY <1>2, JsonAssumption
<1>8. p \in Beside(p, held')
  <2>1. PICK h : h = held'
    OBVIOUS
  <2>2. p \in Beside(p, h)
    BY <1>1, <1>2, <2>1, AllOfNothing, StaysReachable
  <2> QED
    BY <2>1, <2>2
<1>9. pending'.slot[1] # "array"
  BY <1>5 DEF Store
<1> HIDE DEF s
<1>10. JsonTypeOK' /\ CountInv' /\ LifeInv' /\ DataInv' /\ SupportInv'
  BY <1>2, <1>4, <1>5, <1>6, <1>7, <1>8, ReplacedStep
<1>11. ArrayInv'
  BY <1>1, <1>5, <1>9 DEF ArrayInv
<1> QED
  BY <1>10, <1>11 DEF JsonIInv

\* The array grows to what is needed, keeps what it has, and is null behind it.
LEMMA ExpandedFacts ==
    ASSUME NEW a \in Seq(Nodes \cup {NULL}), NEW max \in Nat
    PROVE  LET b == Expanded(a, max)
           IN  /\ b \in Seq(Nodes \cup {NULL}) /\ Len(b) >= Len(a) /\ Len(b) >= max
               /\ \A j \in 1 .. Len(a) : b[j] = a[j]
               /\ \A j \in Len(a) + 1 .. Len(b) : b[j] = NULL
<1> DEFINE b == Expanded(a, max)
<1>1. PICK n \in Nat : n = Len(a)
  OBVIOUS
<1>2. PICK z : z = SizeFor(n, max)
  OBVIOUS
<1>3. z \in Nat /\ z >= n /\ z >= max
  BY <1>1, <1>2 DEF SizeFor
<1>4. b = [j \in 1 .. z |-> IF j <= n THEN a[j] ELSE NULL]
  BY <1>1, <1>2 DEF Expanded
<1>5. ASSUME NEW j \in 1 .. z PROVE (IF j <= n THEN a[j] ELSE NULL) \in Nodes \cup {NULL}
  BY <1>1, <1>3
<1> HIDE DEF b
<1>6. b \in [1 .. z -> Nodes \cup {NULL}]
  BY <1>4, <1>5
<1>7. b \in Seq(Nodes \cup {NULL}) /\ Len(b) = z
  BY <1>3, <1>6
<1>8. /\ \A j \in 1 .. n : b[j] = a[j]
      /\ \A j \in n + 1 .. z : b[j] = NULL
  BY <1>1, <1>3, <1>4
<1> QED
  BY <1>1, <1>3, <1>7, <1>8 DEF b

LEMMA ArrayPutIdxStep ==
    ASSUME JsonIInv, NEW p \in Nodes, NEW idx \in Nat, NEW v \in Nodes \cup {NULL},
           ArrayPutIdx(p, idx, v)
    PROVE  JsonIInv'
<1> DEFINE s == <<"array", idx + 1>>
<1>1. JsonTypeOK /\ ArrayInv
  BY DEF JsonIInv
<1>2. /\ Idle /\ p \in Reachable /\ p \in Beside(p, held')
      /\ held' \in [Nodes -> 0 .. MaxRefs]
      /\ \A q \in Nodes : held'[q] = IF q = v THEN held[q] - 1 ELSE held[q]
  BY HandsOverFacts DEF ArrayPutIdx
<1>3. PICK a : a = Expanded(array[p], idx + 1)
  OBVIOUS
<1>4. PICK b \in Seq(Nodes \cup {NULL}) : b = array[p]
  BY <1>1 DEF JsonTypeOK
<1>5. PICK n \in Nat : n = length[p]
  BY <1>1 DEF JsonTypeOK
<1>6. n <= Len(b) /\ \A j \in n + 1 .. Len(b) : b[j] = NULL
  BY <1>1, <1>4, <1>5 DEF ArrayInv
<1>7. /\ a \in Seq(Nodes \cup {NULL}) /\ Len(a) >= Len(b) /\ Len(a) >= idx + 1
      /\ \A j \in 1 .. Len(b) : a[j] = b[j]
      /\ \A j \in Len(b) + 1 .. Len(a) : a[j] = NULL
  BY <1>3, <1>4, ExpandedFacts
<1>8. PICK old \in Nodes \cup {NULL} : old = a[idx + 1]
  BY <1>7
<1>9. idx + 1 \in DOMAIN a
  BY <1>7
<1>10. /\ array' = [array EXCEPT ![p] = a] /\ PutsOld(old) /\ pending' = Store(p, s, v)
       /\ UNCHANGED <<kind, member, length, userdata, given>>
  BY <1>3, <1>8, <1>9 DEF ArrayPutIdx
<1>11. /\ array' \in [Nodes -> Seq(Nodes \cup {NULL})] /\ array'[p] = a
       /\ \A q \in Nodes \ {p} : array'[q] = array[q]
  BY <1>1, <1>7, <1>10 DEF JsonTypeOK
<1>12. ASSUME NEW q \in Nodes, NEW j \in 1 .. length[q] PROVE array'[q][j] = array[q][j]
  <2>1. CASE q = p
    <3>1. j \in 1 .. Len(b)
      BY <1>4, <1>5, <1>6, <1>12, <2>1
    <3> QED
      BY <1>4, <1>7, <1>11, <2>1, <3>1
  <2>2. CASE q # p
    BY <1>11, <2>2
  <2> QED
    BY <2>1, <2>2
<1>13. old \in Nodes => idx + 1 \in 1 .. n /\ b[idx + 1] = old
  <2>1. NULL \notin Nodes
    BY JsonAssumption
  <2>2. old \in Nodes => idx + 1 \in 1 .. Len(b)
    BY <1>7, <1>8, <2>1
  <2> QED
    BY <1>6, <1>7, <1>8, <2>1, <2>2
<1>14. old \notin Nodes => ~ (idx + 1 \in 1 .. n /\ b[idx + 1] \in Nodes)
  BY <1>6, <1>7, <1>8
<1>15. s \in Slots(p) <=> idx + 1 \in 1 .. n /\ b[idx + 1] \in Nodes
  BY <1>1, <1>4, <1>5, SlotFacts DEF Indices
<1>16. ChildAt(p, s) = b[idx + 1]
  BY <1>4 DEF ChildAt
<1>17. s \in AnySlot
  BY DEF AnySlot
<1>18. /\ old \in Nodes => s \in Slots(p) /\ ChildAt(p, s) = old
       /\ old \notin Nodes => s \notin Slots(p)
  BY <1>13, <1>14, <1>15, <1>16
<1>19. /\ pending'.slot[2] = idx + 1 /\ pending'.node = p /\ pending'.value = v
  BY <1>10 DEF Store
<1> HIDE DEF s
<1>20. JsonTypeOK' /\ CountInv' /\ LifeInv' /\ DataInv' /\ SupportInv'
  <2>1. v \in Nodes \cup {NULL, Absent} /\ old \in Nodes \cup {NULL, Absent}
    OBVIOUS
  <2> QED
    BY <1>2, <1>10, <1>11, <1>12, <1>17, <1>18, <2>1, ReplacedStep
<1>21. ASSUME NEW q \in Nodes
       PROVE  /\ length'[q] <= Len(array'[q])
              /\ \A j \in length'[q] + 1 .. Len(array'[q]) : array'[q][j] = NULL
  <2>1. length' = length
    BY <1>10
  <2>2. CASE q = p
    <3>1. length'[q] = n /\ array'[q] = a
      BY <1>5, <1>11, <2>1, <2>2
    <3>2. n <= Len(a)
      BY <1>6, <1>7
    <3>3. ASSUME NEW j \in n + 1 .. Len(a) PROVE a[j] = NULL
      <4>1. CASE j \in 1 .. Len(b)
        BY <1>6, <1>7, <4>1
      <4>2. CASE j \notin 1 .. Len(b)
        BY <1>7, <4>2
      <4> QED
        BY <4>1, <4>2
    <3> QED
      BY <3>1, <3>2, <3>3
  <2>3. CASE q # p
    <3>1. length'[q] = length[q] /\ array'[q] = array[q]
      BY <1>11, <2>1, <2>3
    <3> QED
      BY <1>1, <3>1 DEF ArrayInv
  <2> QED
    BY <2>2, <2>3
<1>22. v # Absent
  BY JsonAssumption
<1>23. ArrayInv'
  BY <1>9, <1>11, <1>19, <1>21, <1>22 DEF ArrayInv
<1> QED
  BY <1>20, <1>23 DEF JsonIInv

\* What a store does to the slots of the node it stores into.
LEMMA StoredSlots ==
    ASSUME JsonIInv, StoreValue, NEW p, p = pending.node, NEW s, s = pending.slot,
           NEW v, v = pending.value
    PROVE  /\ p \in Nodes /\ s \in AnySlot /\ v \in Nodes \cup {NULL, Absent}
           /\ member' \in [Nodes -> [Fields -> Nodes \cup {NULL, Absent}]]
           /\ array' \in [Nodes -> Seq(Nodes \cup {NULL})] /\ length' \in [Nodes -> Nat]
           /\ \A q \in Nodes \ {p} : member'[q] = member[q] /\ array'[q] = array[q]
                                     /\ length'[q] = length[q]
           /\ \A x \in AnySlot : x \in Slots(p)' <=> IF x = s THEN v \in Nodes ELSE x \in Slots(p)
           /\ \A x \in Slots(p)' : x \in AnySlot => ChildAt(p, x)' = IF x = s THEN v ELSE ChildAt(p, x)
           /\ length'[p] <= Len(array'[p])
           /\ \A j \in length'[p] + 1 .. Len(array'[p]) : array'[p][j] = NULL
<1>1. JsonTypeOK /\ ArrayInv
  BY DEF JsonIInv
<1>2. pending \in Stores /\ pending.op = "store"
  BY <1>1 DEF JsonTypeOK, StoreValue
<1>3. p \in Nodes /\ s \in AnySlot /\ v \in Nodes \cup {NULL, Absent}
  BY <1>2 DEF Stores
<1>4. PICK k : k = s[2]
  OBVIOUS
<1>5. CASE s[1] = "member"
  <2>1. s = <<"member", k>> /\ k \in Fields
    BY <1>3, <1>4, <1>5 DEF AnySlot
  <2>2. /\ member' = [member EXCEPT ![p][k] = v] /\ UNCHANGED <<array, length>>
    BY <1>4, <1>5 DEF StoreValue
  <2>3. /\ member' \in [Nodes -> [Fields -> Nodes \cup {NULL, Absent}]]
        /\ \A q \in Nodes \ {p} : member'[q] = member[q]
        /\ \A f \in Fields : member'[p][f] = IF f = k THEN v ELSE member[p][f]
    BY <1>1, <1>3, <2>1, <2>2 DEF JsonTypeOK
  <2>4. ASSUME NEW x \in AnySlot
        PROVE  /\ x \in Slots(p)' <=> IF x = s THEN v \in Nodes ELSE x \in Slots(p)
               /\ x \in Slots(p)' => ChildAt(p, x)' = IF x = s THEN v ELSE ChildAt(p, x)
    <3>1. CASE x[1] = "member"
      <4>1. PICK f \in Fields : x = <<"member", f>>
        BY <3>1 DEF AnySlot
      <4>2. x \in Slots(p) <=> member[p][f] \in Nodes
        BY <4>1 DEF Slots
      <4>3. x \in Slots(p)' <=> member'[p][f] \in Nodes
        BY <4>1 DEF Slots
      <4>4. ChildAt(p, x) = member[p][f] /\ ChildAt(p, x)' = member'[p][f]
        BY <4>1 DEF ChildAt
      <4> QED
        BY <2>1, <2>3, <4>1, <4>2, <4>3, <4>4
    <3>2. CASE x[1] # "member"
      <4>1. PICK j \in Nat \ {0} : x = <<"array", j>>
        BY <3>2 DEF AnySlot
      <4>2. x # s /\ (x \in Slots(p)' <=> x \in Slots(p)) /\ ChildAt(p, x)' = ChildAt(p, x)
        BY <2>1, <2>2, <4>1 DEF Slots, ChildAt, Indices
      <4> QED
        BY <4>2
    <3> QED
      BY <3>1, <3>2
  <2>5. /\ array' \in [Nodes -> Seq(Nodes \cup {NULL})] /\ length' \in [Nodes -> Nat]
        /\ \A q \in Nodes : array'[q] = array[q] /\ length'[q] = length[q]
    BY <1>1, <2>2 DEF JsonTypeOK
  <2>6. /\ length'[p] <= Len(array'[p])
        /\ \A j \in length'[p] + 1 .. Len(array'[p]) : array'[p][j] = NULL
    BY <1>1, <1>3, <2>2 DEF ArrayInv
  <2> QED
    BY <1>3, <2>3, <2>4, <2>5, <2>6
<1>6. CASE s[1] # "member"
  <2>1. s = <<"array", k>> /\ k \in Nat \ {0}
    BY <1>3, <1>4, <1>6 DEF AnySlot
  <2>2. PICK b \in Seq(Nodes \cup {NULL}) : b = array[p]
    BY <1>1, <1>3 DEF JsonTypeOK
  <2>3. PICK n \in Nat : n = length[p]
    BY <1>1, <1>3 DEF JsonTypeOK
  <2>4. k \in 1 .. Len(b) /\ v \in Nodes \cup {NULL}
    BY <1>1, <1>2, <1>3, <2>1, <2>2 DEF ArrayInv
  <2>5. n <= Len(b) /\ \A j \in n + 1 .. Len(b) : b[j] = NULL
    BY <1>1, <1>3, <2>2, <2>3 DEF ArrayInv
  <2>6. PICK c : c = [j \in DOMAIN b |-> IF j = k THEN v ELSE b[j]]
    OBVIOUS
  <2>7. PICK m : m = IF n < k THEN k ELSE n
    OBVIOUS
  <2>8. /\ array' = [array EXCEPT ![p] = c] /\ length' = [length EXCEPT ![p] = m]
        /\ UNCHANGED member
    BY <1>4, <1>6, <2>2, <2>3, <2>6, <2>7 DEF StoreValue
  <2>9. /\ c \in Seq(Nodes \cup {NULL}) /\ Len(c) = Len(b)
        /\ \A j \in 1 .. Len(b) : c[j] = IF j = k THEN v ELSE b[j]
    <3>1. DOMAIN b = 1 .. Len(b) /\ Len(b) \in Nat
      OBVIOUS
    <3>2. \A j \in 1 .. Len(b) : (IF j = k THEN v ELSE b[j]) \in Nodes \cup {NULL}
      BY <2>4
    <3>3. c \in [1 .. Len(b) -> Nodes \cup {NULL}]
      BY <2>6, <3>1, <3>2
    <3>4. c \in Seq(Nodes \cup {NULL}) /\ Len(c) = Len(b)
      BY <3>1, <3>3
    <3> QED
      BY <2>6, <3>1, <3>4
  <2>10. /\ m \in Nat /\ m <= Len(b) /\ n <= m /\ k <= m
         /\ \A j \in 1 .. m : j <= n \/ j > n
         /\ \A j \in Nat : j > m => j > n /\ j # k
    BY <2>1, <2>4, <2>5, <2>7
  <2>11. /\ array' \in [Nodes -> Seq(Nodes \cup {NULL})] /\ length' \in [Nodes -> Nat]
         /\ array'[p] = c /\ length'[p] = m
         /\ \A q \in Nodes \ {p} : array'[q] = array[q] /\ length'[q] = length[q]
    BY <1>1, <1>3, <2>8, <2>9, <2>10 DEF JsonTypeOK
  <2>12. \A j \in m + 1 .. Len(c) : c[j] = NULL
    <3> SUFFICES ASSUME NEW j \in m + 1 .. Len(c) PROVE c[j] = NULL
      OBVIOUS
    <3>1. j \in 1 .. Len(b) /\ j # k /\ j \in n + 1 .. Len(b)
      BY <2>9, <2>10
    <3> QED
      BY <2>5, <2>9, <3>1
  <2>13. ASSUME NEW x \in AnySlot
         PROVE  /\ x \in Slots(p)' <=> IF x = s THEN v \in Nodes ELSE x \in Slots(p)
                /\ x \in Slots(p)' => ChildAt(p, x)' = IF x = s THEN v ELSE ChildAt(p, x)
    <3>1. CASE x[1] = "member"
      <4>1. PICK f \in Fields : x = <<"member", f>>
        BY <3>1 DEF AnySlot
      <4>2. x # s /\ (x \in Slots(p)' <=> x \in Slots(p)) /\ ChildAt(p, x)' = ChildAt(p, x)
        BY <2>1, <2>8, <4>1 DEF Slots, ChildAt
      <4> QED
        BY <4>2
    <3>2. CASE x[1] # "member"
      <4>1. PICK j \in Nat \ {0} : x = <<"array", j>>
        BY <3>2 DEF AnySlot
      <4>2. x \in Slots(p) <=> j <= n /\ b[j] \in Nodes
        BY <2>2, <2>3, <4>1 DEF Slots, Indices
      <4>3. x \in Slots(p)' <=> j <= m /\ c[j] \in Nodes
        <5>1. x \in Slots(p)' <=> j \in Indices(p)' /\ array'[p][j] \in Nodes
          BY <4>1 DEF Slots
        <5>2. j \in Indices(p)' <=> j <= m
          BY <2>10, <2>11 DEF Indices
        <5> QED
          BY <2>11, <5>1, <5>2
      <4>4. ChildAt(p, x) = b[j] /\ ChildAt(p, x)' = array'[p][j]
        BY <2>2, <4>1 DEF ChildAt
      <4>5. CASE j = k
        <5>1. x = s /\ c[j] = v
          BY <2>1, <2>4, <2>9, <4>1, <4>5
        <5> QED
          BY <2>10, <2>11, <4>3, <4>4, <4>5, <5>1
      <4>6. CASE j # k
        <5>1. x # s
          BY <2>1, <4>1, <4>6
        <5>2. NULL \notin Nodes
          BY JsonAssumption
        <5>3. j <= m => c[j] = b[j]
          BY <2>9, <2>10, <4>6
        <5>4. j <= m /\ j > n => b[j] = NULL
          BY <2>5, <2>10
        <5>5. j <= n => j <= m
          BY <2>10
        <5>6. x \in Slots(p)' <=> x \in Slots(p)
          BY <4>2, <4>3, <5>2, <5>3, <5>4, <5>5
        <5>7. x \in Slots(p)' => ChildAt(p, x)' = ChildAt(p, x)
          BY <2>9, <2>10, <2>11, <4>3, <4>4, <4>6
        <5> QED
          BY <5>1, <5>6, <5>7
      <4> QED
        BY <4>5, <4>6
    <3> QED
      BY <3>1, <3>2
  <2> QED
    BY <1>1, <1>3, <2>8, <2>9, <2>10, <2>11, <2>12, <2>13 DEF JsonTypeOK
<1> QED
  BY <1>3, <1>5, <1>6

\* The reference that was handed over is owned by the slot from now on.
LEMMA StoreValueStep ==
    ASSUME JsonIInv, StoreValue
    PROVE  JsonIInv'
<1>1. JsonTypeOK /\ CountInv /\ LifeInv /\ ArrayInv /\ DataInv /\ SupportInv
  BY DEF JsonIInv
<1>2. PICK p, s, v : p = pending.node /\ s = pending.slot /\ v = pending.value
  OBVIOUS
<1>3. /\ p \in Nodes /\ s \in AnySlot /\ v \in Nodes \cup {NULL, Absent}
      /\ member' \in [Nodes -> [Fields -> Nodes \cup {NULL, Absent}]]
      /\ array' \in [Nodes -> Seq(Nodes \cup {NULL})] /\ length' \in [Nodes -> Nat]
      /\ \A q \in Nodes \ {p} : member'[q] = member[q] /\ array'[q] = array[q]
                                /\ length'[q] = length[q]
      /\ \A x \in AnySlot : x \in Slots(p)' <=> IF x = s THEN v \in Nodes ELSE x \in Slots(p)
      /\ \A x \in Slots(p)' : x \in AnySlot => ChildAt(p, x)' = IF x = s THEN v ELSE ChildAt(p, x)
      /\ length'[p] <= Len(array'[p])
      /\ \A j \in length'[p] + 1 .. Len(array'[p]) : array'[p][j] = NULL
  BY <1>2, StoredSlots
<1>4. /\ deleting = <<>> /\ pending.op = "store"
      /\ pending' = [op |-> "none"]
      /\ UNCHANGED <<kind, refs, userdata, held, deleting, given, gone, misused>>
  BY DEF StoreValue
<1>5. OnStack = {} /\ OnStack' = {} /\ DOMAIN deleting' = {} /\ pending'.op # "store"
  BY <1>4 DEF OnStack
<1>6. ASSUME NEW q \in Nodes \ {p}
      PROVE  Slots(q)' = Slots(q) /\ \A x \in Slots(q) : ChildAt(q, x)' = ChildAt(q, x)
  BY <1>1, <1>3, SlotsKept
<1>7. refs[p] > 0 /\ kind[p] # "free"
  <2>1. PICK P \in SUBSET Nodes : p \in P /\ Supports(P)
    BY <1>1, <1>2, <1>4 DEF SupportInv
  <2> QED
    BY <2>1, SupportedLives
<1>8. JsonTypeOK'
  BY <1>1, <1>3, <1>4, <1>5 DEF JsonTypeOK
<1>9. ASSUME NEW q \in Nodes
      PROVE  /\ OwnedSlots(q) = IF q = p THEN Slots(q) \ {s} ELSE Slots(q)
             /\ OwnedSlots(q)' = Slots(q)'
             /\ Slots(q) \subseteq AnySlot /\ Slots(q)' \subseteq AnySlot
  <2>1. Slots(q) \subseteq AnySlot
    BY <1>1, SlotFacts
  <2>2. Slots(q)' \subseteq AnySlot
    <3>1. length'[q] \in Nat
      BY <1>3
    <3> QED
      BY <3>1 DEF Slots, Indices, AnySlot
  <2>3. OwnedSlots(q) = IF q = p THEN Slots(q) \ {s} ELSE Slots(q)
    BY <1>2, <1>4, <1>5 DEF OwnedSlots
  <2>4. OwnedSlots(q)' = Slots(q)'
    BY <1>5 DEF OwnedSlots
  <2> QED
    BY <2>1, <2>2, <2>3, <2>4
<1>10. ASSUME NEW q \in Nodes, NEW x \in Nodes, NEW y \in AnySlot
       PROVE  <<x, y>> \in Owners(q)' <=>
                 \/ <<x, y>> \in Owners(q)
                 \/ x = p /\ y = s /\ q = v
  <2>1. <<x, y>> \in Owners(q)' <=> y \in Slots(x)' /\ ChildAt(x, y)' = q
    BY <1>9 DEF Owners
  <2>2. <<x, y>> \in Owners(q) <=>
           y \in Slots(x) /\ ~ (x = p /\ y = s) /\ ChildAt(x, y) = q
    BY <1>9, OwnerFacts
  <2>3. CASE x = p
    <3>1. y \in Slots(x)' <=> IF y = s THEN v \in Nodes ELSE y \in Slots(x)
      BY <1>3, <2>3
    <3>2. y \in Slots(x)' => ChildAt(x, y)' = IF y = s THEN v ELSE ChildAt(x, y)
      BY <1>3, <2>3
    <3> QED
      BY <2>1, <2>2, <2>3, <3>1, <3>2
  <2>4. CASE x # p
    BY <1>6, <2>1, <2>2, <2>4
  <2> QED
    BY <2>3, <2>4
<1>11. ASSUME NEW q \in Nodes
       PROVE  /\ Owners(q)' = Owners(q) \cup (IF q = v THEN {<<p, s>>} ELSE {})
              /\ <<p, s>> \notin Owners(q)
  <2>1. /\ \A e \in Owners(q)' : e = <<e[1], e[2]>> /\ e[1] \in Nodes /\ e[2] \in AnySlot
        /\ \A e \in Owners(q) : e = <<e[1], e[2]>> /\ e[1] \in Nodes /\ e[2] \in AnySlot
    BY DEF Owners
  <2>2. <<p, s>> \notin Owners(q)
    BY <1>3, <1>9, OwnerFacts
  <2>3. ASSUME NEW e
        PROVE  e \in Owners(q)' <=> e \in Owners(q) \/ (e = <<p, s>> /\ q = v)
    <3>1. CASE \E x \in Nodes, y \in AnySlot : e = <<x, y>>
      <4>1. PICK x \in Nodes, y \in AnySlot : e = <<x, y>>
        BY <3>1
      <4> QED
        BY <1>10, <4>1
    <3>2. CASE ~ \E x \in Nodes, y \in AnySlot : e = <<x, y>>
      BY <1>3, <2>1, <3>2
    <3> QED
      BY <3>1, <3>2
  <2> QED
    BY <2>2, <2>3
<1>12. \A q \in Nodes : Due(q) = (IF q = v THEN 1 ELSE 0) /\ Due(q)' = 0
  BY <1>2, <1>4, <1>5 DEF Due
<1>13. CountInv'
  <2> SUFFICES ASSUME NEW q \in Nodes PROVE CountOf(q)'
    BY DEF CountInv, CountOf
  <2>1. /\ IsFiniteSet(Owners(q)) /\ Cardinality(Owners(q)) \in Nat
        /\ refs[q] = held[q] + Cardinality(Owners(q)) + Due(q)
        /\ held[q] \in Nat /\ refs[q] \in Nat
    BY <1>1, CountFacts
  <2>2. refs'[q] = refs[q] /\ held'[q] = held[q]
    BY <1>4
  <2>3. CASE q = v
    <3>1. /\ IsFiniteSet(Owners(q) \cup {<<p, s>>})
          /\ Cardinality(Owners(q) \cup {<<p, s>>}) = Cardinality(Owners(q)) + 1
      BY <1>11, <2>1, OwnerSteps
    <3>2. Owners(q)' = Owners(q) \cup {<<p, s>>}
      BY <1>11, <2>3
    <3>3. Due(q) = 1 /\ Due(q)' = 0
      BY <1>12, <2>3
    <3>4. PICK c \in Nat : c = Cardinality(Owners(q))
      BY <2>1
    <3>5. refs'[q] = held'[q] + Cardinality(Owners(q) \cup {<<p, s>>}) + Due(q)'
      <4>1. refs'[q] = held'[q] + (c + 1) + 0
        BY <2>1, <2>2, <3>3, <3>4
      <4> QED
        BY <3>1, <3>3, <3>4, <4>1
    <3> QED
      BY <3>1, <3>2, <3>5 DEF CountOf
  <2>4. CASE q # v
    <3>1. Owners(q)' = Owners(q) /\ Due(q) = 0 /\ Due(q)' = 0
      BY <1>11, <1>12, <2>4
    <3>2. refs'[q] = held'[q] + Cardinality(Owners(q)) + Due(q)'
      BY <2>1, <2>2, <3>1
    <3> QED
      BY <2>1, <3>1, <3>2 DEF CountOf
  <2> QED
    BY <2>3, <2>4
<1>14. LifeInv'
  <2>1. ASSUME NEW q \in Nodes, kind[q] = "free"
        PROVE  member'[q] = member[q] /\ length'[q] = length[q]
    BY <1>3, <1>7, <2>1
  <2> QED
    BY <1>1, <1>4, <1>5, <2>1 DEF LifeInv
<1>15. ArrayInv'
  <2>1. ASSUME NEW q \in Nodes
        PROVE  /\ length'[q] <= Len(array'[q])
               /\ \A j \in length'[q] + 1 .. Len(array'[q]) : array'[q][j] = NULL
    BY <1>1, <1>3 DEF ArrayInv
  <2> QED
    BY <1>5, <2>1 DEF ArrayInv
<1>16. DataInv' /\ SupportInv'
  BY <1>1, <1>4, <1>5 DEF DataInv, DataDeletedOnce, SupportInv
<1> QED
  BY <1>8, <1>13, <1>14, <1>15, <1>16 DEF JsonIInv

-----------------------------------------------------------------------------
(* The theorems.                                                            *)

\* The references of every node are counted, in the middle of a deletion too.
\* The invariant says who owns what there: a node under deletion no longer owns
\* the children that were put, a call owns what was handed over to it until it
\* is stored, and the node it is stored into is not reached by the deletion.
THEOREM JsonInvariance == JsonSpec => []JsonIInv
<1>1. JsonIInv /\ [JsonNext]_jsonVars => JsonIInv'
  <2> SUFFICES ASSUME JsonIInv, [JsonNext]_jsonVars PROVE JsonIInv'
    OBVIOUS
  <2>1. ASSUME NEW o \in Nodes,
               Get(o) \/ PutRef(o) \/ New(o) \/ NewDoubleS(o) \/ SetSerializer(o)
        PROVE  JsonIInv'
    BY <2>1, GetStep, PutRefStep, NewStep, NewDoubleSStep, SetSerializerStep
  <2>2. ASSUME NEW p \in Nodes, NEW f \in Fields, NEW v \in Nodes \cup {NULL},
               ObjectAdd(p, f, v)
        PROVE  JsonIInv'
    BY <2>2, ObjectAddStep
  <2>3. ASSUME NEW p \in Nodes, NEW idx \in 0 .. MaxIndex, NEW v \in Nodes \cup {NULL},
               ArrayPutIdx(p, idx, v)
        PROVE  JsonIInv'
    <3>1. idx \in Nat
      BY JsonAssumption
    <3> QED
      BY <2>3, <3>1, ArrayPutIdxStep
  <2>4. ASSUME NEW p \in Nodes, NEW v \in Nodes \cup {NULL}, ArrayAdd(p, v)
        PROVE  JsonIInv'
    <3>1. length[p] \in Nat /\ ArrayPutIdx(p, length[p], v)
      BY <2>4 DEF JsonIInv, JsonTypeOK, ArrayAdd
    <3>2. PICK idx \in Nat : idx = length[p]
      BY <3>1
    <3>3. ArrayPutIdx(p, idx, v)
      BY <3>1, <3>2
    <3> QED
      BY <3>3, ArrayPutIdxStep
  <2>5. ASSUME NEW p \in Nodes, NEW f \in Fields, ObjectDel(p, f)
        PROVE  JsonIInv'
    BY <2>5, ObjectDelStep
  <2>6. CASE DeleteChild \/ DeleteNode \/ StoreValue
    BY <2>6, DeleteChildStep, DeleteNodeStep, StoreValueStep
  <2>7. CASE UNCHANGED jsonVars
    <3>1. UNCHANGED <<kind, refs, member, array, length, userdata, held, deleting, pending,
                      given, gone, misused>>
      BY <2>7 DEF jsonVars, heap
    <3>2. /\ \A q : Slots(q)' = Slots(q) /\ Due(q)' = Due(q) /\ Left(q)' = Left(q)
          /\ \A q, s : ChildAt(q, s)' = ChildAt(q, s)
          /\ OnStack' = OnStack
      BY <3>1 DEF Slots, Indices, ChildAt, Due, Left, OnStack
    <3>3. \A q : OwnedSlots(q)' = OwnedSlots(q)
      BY <3>1, <3>2 DEF OwnedSlots
    <3>4. \A q : Owners(q)' = Owners(q)
      BY <3>2, <3>3 DEF Owners
    <3>5. JsonTypeOK'
      BY <3>1, <3>2 DEF JsonIInv, JsonTypeOK
    <3>6. CountInv' /\ LifeInv'
      BY <3>1, <3>2, <3>4 DEF JsonIInv, CountInv, LifeInv
    <3>7. ArrayInv' /\ DataInv'
      BY <3>1 DEF JsonIInv, ArrayInv, DataInv, DataDeletedOnce
    <3>8. SupportInv'
      BY <3>1, <3>2, <3>4 DEF JsonIInv, SupportInv, Supports
    <3> QED
      BY <3>5, <3>6, <3>7, <3>8 DEF JsonIInv
  <2> QED
    BY <2>1, <2>2, <2>3, <2>4, <2>5, <2>6, <2>7 DEF JsonNext, ClientCall
<1> QED
  BY <1>1, JsonInitInvariant, PTL DEF JsonSpec

\* Every variable of the nodes and of the client has its type.
THEOREM JsonTypeCorrect == JsonSpec => []JsonTypeOK
<1>1. JsonIInv => JsonTypeOK
  BY DEF JsonIInv
<1> QED
  BY <1>1, JsonInvariance, PTL

LEMMA CountedOwners == JsonIInv => CountsOwners
<1> SUFFICES ASSUME JsonIInv, Idle, NEW o \in Nodes
             PROVE  IF kind[o] = "free" THEN Owned(o) = 0 ELSE refs[o] = Owned(o) /\ refs[o] > 0
  BY DEF CountsOwners
<1>1. JsonTypeOK /\ CountInv /\ LifeInv
  BY DEF JsonIInv
<1>2. /\ OnStack = {} /\ Due(o) = 0
      /\ \A q : OwnedSlots(q) = Slots(q)
  BY IdleOwners
<1>3. Owners(o) = {e \in Nodes \X (UNION {Slots(q) : q \in Nodes}) :
                      e[2] \in Slots(e[1]) /\ ChildAt(e[1], e[2]) = o}
  <2>1. \A q \in Nodes : Slots(q) \subseteq AnySlot
    BY <1>1, SlotFacts
  <2>2. \A q \in Nodes : Slots(q) \subseteq UNION {Slots(r) : r \in Nodes}
    OBVIOUS
  <2>3. UNION {Slots(r) : r \in Nodes} \subseteq AnySlot
    BY <2>1
  <2> QED
    BY <1>2, <2>1, <2>2, <2>3 DEF Owners
<1>4. Owned(o) = held[o] + Cardinality(Owners(o))
  BY <1>3 DEF Owned
<1>5. /\ Cardinality(Owners(o)) \in Nat /\ held[o] \in Nat /\ refs[o] \in Nat
      /\ refs[o] = held[o] + Cardinality(Owners(o)) + Due(o)
  BY <1>1, CountFacts
<1>6. refs[o] = Owned(o)
  BY <1>2, <1>4, <1>5
<1>7. IF kind[o] = "free" THEN refs[o] = 0 ELSE refs[o] > 0
  BY <1>1, <1>2, <1>5 DEF LifeInv
<1> QED
  BY <1>6, <1>7

\* Whatever is shared, and in whatever order it is given up: nothing leaks,
\* nothing is put or stored into when it is gone, nothing is stored out of
\* bounds, and a piece of user data is deleted once.
THEOREM JsonNodesOwned == JsonSpec => []NodesOwned
<1>1. JsonIInv => NodesOwned
  <2> SUFFICES ASSUME JsonIInv PROVE NodesOwned
    OBVIOUS
  <2>1. NeverFreedTwice /\ DataDeletedOnce
    BY DEF JsonIInv, LifeInv, DataInv, NeverFreedTwice
  <2>2. ArraysInBounds
    BY DEF JsonIInv, ArrayInv, ArraysInBounds
  <2> QED
    BY <2>1, <2>2, CountedOwners DEF NodesOwned
<1> QED
  BY <1>1, JsonInvariance, PTL
=============================================================================
