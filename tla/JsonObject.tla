------------------------------ MODULE JsonObject ------------------------------
(***************************************************************************)
(* json-c/json_object.c and arraylist.c: objects, arrays and leaves that   *)
(* count the references to them and are deleted, with all they own, when   *)
(* the last one is put.  The client does what json_object.h asks of it: it *)
(* puts or hands over only references it owns, and makes no cycles.        *)
(*                                                                         *)
(* The recursion of a deletion is a stack of nodes, each with the children *)
(* it has still to put.  The hash table of an object is a function here,   *)
(* see LinkHash.                                                           *)
(***************************************************************************)
EXTENDS Integers, Sequences, FiniteSets

CONSTANTS
    Nodes,        \* addresses of nodes
    NULL,         \* the null pointer, which is also the value null
    Fields,       \* keys of objects
    Absent,       \* a key an object does not have
    DefaultSize,  \* ARRAY_LIST_DEFAULT_SIZE
    MaxIndex,     \* bound of the model: indices of arrays
    MaxRefs,      \* bound of the model: references the client holds
    MaxData       \* bound of the model: pieces of user data

ASSUME JsonAssumption ==
    /\ NULL \notin Nodes /\ Absent \notin Nodes \cup {NULL}
    /\ {DefaultSize, MaxIndex, MaxRefs, MaxData} \subseteq Nat
    /\ DefaultSize > 0 /\ IsFiniteSet(Nodes)

VARIABLES
    kind,     \* o_type of each node; "free" if there is none at that address
    refs,     \* _ref_count
    member,   \* o.c_object of each: the value of each key
    array,    \* o.c_array->array of each: what was allocated, all of it
    length,   \* o.c_array->length of each
    userdata,     \* _userdata of each that has a _user_delete; 0 if none
    held,     \* in the client: the references it owns
    deleting, \* the stack of deletions, the innermost last
    pending,  \* what is still to be done when it is empty
    given,    \* pieces of user data given so far
    gone,     \* history: how often each piece was deleted
    misused   \* history: a node that was not there was put

heap     == <<kind, refs, member, array, length, userdata>>
jsonVars == <<heap, held, deleting, pending, given, gone, misused>>

NoMembers == [f \in Fields |-> Absent]
Idle == deleting = <<>> /\ pending = [op |-> "none"]

JsonInit ==
    /\ kind = [o \in Nodes |-> "free"] /\ refs = [o \in Nodes |-> 0]
    /\ member = [o \in Nodes |-> NoMembers] /\ array = [o \in Nodes |-> <<>>]
    /\ length = [o \in Nodes |-> 0] /\ userdata = [o \in Nodes |-> 0]
    /\ held = [o \in Nodes |-> 0]
    /\ deleting = <<>> /\ pending = [op |-> "none"]
    /\ given = 0 /\ gone = [m \in 1 .. MaxData |-> 0] /\ misused = FALSE

\* The children of a node, one for each reference it owns.
Indices(o) == 1 .. length[o]
Slots(o) == {<<"member", f>> : f \in {g \in Fields : member[o][g] \in Nodes}}
            \cup {<<"array", j>> : j \in {n \in Indices(o) : array[o][n] \in Nodes}}
ChildAt(o, s) == IF s[1] = "member" THEN member[o][s[2]] ELSE array[o][s[2]]
Children(o) == {ChildAt(o, s) : s \in Slots(o)}

\* What the client can get at: what it holds, and what that contains, at any
\* depth.
Closed(C) == \A o \in C : Children(o) \subseteq C
All(S) == {o \in Nodes : \A C \in SUBSET Nodes : S \subseteq C /\ Closed(C) => o \in C}
HeldRefs == Cardinality({h \in Nodes \X (1 .. MaxRefs) : h[2] <= held[h[1]]})
Reachable == All({o \in Nodes : held[o] > 0})

-----------------------------------------------------------------------------
(* json_object_get, json_object_put and the deletions.                      *)

Get(o) ==
    /\ Idle
    /\ o \in Reachable
    /\ HeldRefs < MaxRefs
    /\ refs' = [refs EXCEPT ![o] = @ + 1]
    /\ held' = [held EXCEPT ![o] = @ + 1]
    /\ UNCHANGED <<kind, member, array, length, userdata, deleting, pending, given,
                   gone, misused>>

\* _user_delete, if there is one.
DataGone(o) == IF userdata[o] = 0 THEN gone ELSE [gone EXCEPT ![userdata[o]] = @ + 1]

\* The effect of json_object_put(o), with what is under deletion then.
\* Bug: a node is deleted while somebody else still owns it.
UnusedBelowTwo(o) == refs[o] <= 2
Unused(o) == refs[o] = 1
PutNode(o, stack) ==
    /\ misused' = (misused \/ kind[o] = "free")
    /\ refs' = [refs EXCEPT ![o] = @ - 1]
    /\ IF Unused(o)
       THEN deleting' = Append(stack, [node |-> o, left |-> Slots(o)]) /\ gone' = DataGone(o)
       ELSE deleting' = stack /\ UNCHANGED gone

PutRef(o) ==
    /\ Idle
    /\ held[o] > 0
    /\ held' = [held EXCEPT ![o] = @ - 1]
    /\ PutNode(o, <<>>)
    /\ UNCHANGED <<kind, member, array, length, userdata, pending, given>>

\* lh_table_free and array_list_free put every child there is, and then the
\* node is freed.
Innermost == deleting[Len(deleting)]
Outer == SubSeq(deleting, 1, Len(deleting) - 1)
\* Bug: a child that was put is not passed over.
StillLeft(s) == Innermost.left
LeftAfter(s) == Innermost.left \ {s}
DeleteChild ==
    /\ deleting # <<>>
    /\ \E s \in Innermost.left :
          PutNode(ChildAt(Innermost.node, s),
                  Append(Outer, [Innermost EXCEPT !.left = LeftAfter(s)]))
    /\ UNCHANGED <<kind, member, array, length, userdata, held, pending, given>>

DeleteNode ==
    /\ deleting # <<>>
    /\ Innermost.left = {}
    /\ LET o == Innermost.node
       IN  /\ kind' = [kind EXCEPT ![o] = "free"]
           /\ member' = [member EXCEPT ![o] = NoMembers]
           /\ array' = [array EXCEPT ![o] = <<>>]
           /\ length' = [length EXCEPT ![o] = 0]
           /\ userdata' = [userdata EXCEPT ![o] = 0]
    /\ deleting' = Outer
    /\ UNCHANGED <<refs, held, pending, given, gone, misused>>

-----------------------------------------------------------------------------
(* json_object_new_*: calloc, which may fail, gives some free address.      *)

NewNode(o, t) ==
    /\ Idle
    /\ HeldRefs < MaxRefs
    /\ kind[o] = "free"
    /\ kind' = [kind EXCEPT ![o] = t]
    /\ refs' = [refs EXCEPT ![o] = 1]
    /\ array' = [array EXCEPT ![o] =
                    IF t = "array" THEN [j \in 1 .. DefaultSize |-> NULL] ELSE <<>>]
    /\ held' = [held EXCEPT ![o] = 1]
    /\ UNCHANGED <<member, length, deleting, pending, misused>>
New(o) ==
    /\ \E t \in {"object", "array", "leaf"} : NewNode(o, t)
    /\ UNCHANGED <<userdata, given, gone>>

\* json_object_new_double_s: a leaf with its text as user data.
NewDoubleS(o) ==
    /\ NewNode(o, "leaf")
    /\ given < MaxData /\ given' = given + 1
    /\ userdata' = [userdata EXCEPT ![o] = given + 1]
    /\ UNCHANGED gone

\* What the last serializer was given is deleted, whatever the new one is.
\* Bug: it is deleted only if there is a new one.
ReplacedIfGiven(o, fn) == IF fn THEN DataGone(o) ELSE gone
Replaced(o, fn) == DataGone(o)
SetSerializer(o) ==
    /\ Idle
    /\ o \in Reachable
    /\ \E fn \in BOOLEAN :
          /\ gone' = Replaced(o, fn)
          /\ given' = IF fn THEN given + 1 ELSE given
          /\ given' <= MaxData
          /\ userdata' = [userdata EXCEPT ![o] = IF fn THEN given' ELSE 0]
    /\ UNCHANGED <<kind, refs, member, array, length, held, deleting, pending, misused>>

-----------------------------------------------------------------------------
(* Members and elements.                                                    *)

\* The client hands over a reference to v that it owns, or the null pointer.
HandsOver(p, v) ==
    /\ Idle
    /\ p \in Reachable
    /\ \/ v = NULL /\ UNCHANGED held
       \/ /\ v \in Nodes /\ held[v] > 0 /\ p \notin All({v})
          /\ held' = [held EXCEPT ![v] = @ - 1]

\* What was there is put first, the deletion runs, and then v is stored.
Store(p, s, v) == [op |-> "store", node |-> p, slot |-> s, value |-> v]
\* Bug: the old value is not put.
KeepsOld(old) == UNCHANGED <<refs, deleting, gone, misused>>
PutsOld(old) == IF old \in Nodes THEN PutNode(old, <<>>)
                ELSE UNCHANGED <<refs, deleting, gone, misused>>

ObjectAdd(p, f, v) ==
    /\ kind[p] = "object"
    /\ HandsOver(p, v)
    /\ PutsOld(member[p][f])
    /\ pending' = Store(p, <<"member", f>>, v)
    /\ UNCHANGED <<kind, member, array, length, userdata, given>>

\* lh_table_delete: the value is put before the entry is taken out.
ObjectDel(p, f) ==
    /\ Idle
    /\ p \in Reachable /\ kind[p] = "object" /\ member[p][f] # Absent
    /\ PutsOld(member[p][f])
    /\ pending' = Store(p, <<"member", f>>, Absent)
    /\ UNCHANGED <<kind, member, array, length, userdata, held, given>>

\* array_list_expand_internal: the array doubles, or grows to what is needed,
\* and what is new in it is null.
\* Bug: the array grows only when the index is behind its end.
SizeOneLess(size, max) ==
    IF max <= size + 1 THEN size ELSE IF 2 * size < max THEN max ELSE 2 * size
SizeFor(size, max) ==
    IF max < size THEN size ELSE IF 2 * size < max THEN max ELSE 2 * size
Expanded(a, max) ==
    [j \in 1 .. SizeFor(Len(a), max) |-> IF j <= Len(a) THEN a[j] ELSE NULL]

\* idx counts from 0.  realloc may fail, and then the client keeps v.
ArrayPutIdx(p, idx, v) ==
    /\ kind[p] = "array"
    /\ HandsOver(p, v)
    /\ LET a == Expanded(array[p], idx + 1)
       IN  /\ array' = [array EXCEPT ![p] = a]
           /\ PutsOld(IF idx + 1 \in DOMAIN a THEN a[idx + 1] ELSE NULL)
    /\ pending' = Store(p, <<"array", idx + 1>>, v)
    /\ UNCHANGED <<kind, member, length, userdata, given>>
ArrayAdd(p, v) == length[p] <= MaxIndex /\ ArrayPutIdx(p, length[p], v)

\* The store, and the length of the array.
StoreValue ==
    /\ deleting = <<>> /\ pending.op = "store"
    /\ LET p == pending.node
           k == pending.slot[2]
           v == pending.value
       IN  IF pending.slot[1] = "member"
           THEN member' = [member EXCEPT ![p][k] = v] /\ UNCHANGED <<array, length>>
           ELSE /\ array' = [array EXCEPT ![p] =
                                [j \in DOMAIN array[p] |-> IF j = k THEN v ELSE array[p][j]]]
                /\ length' = [length EXCEPT ![p] = IF @ < k THEN k ELSE @]
                /\ UNCHANGED member
    /\ pending' = [op |-> "none"]
    /\ UNCHANGED <<kind, refs, userdata, held, deleting, given, gone, misused>>

ClientCall ==
    \/ \E o \in Nodes : Get(o) \/ PutRef(o) \/ New(o) \/ NewDoubleS(o) \/ SetSerializer(o)
    \/ \E p \in Nodes, v \in Nodes \cup {NULL} :
          \/ \E f \in Fields : ObjectAdd(p, f, v)
          \/ \E idx \in 0 .. MaxIndex : ArrayPutIdx(p, idx, v)
          \/ ArrayAdd(p, v)
    \/ \E p \in Nodes, f \in Fields : ObjectDel(p, f)

JsonNext == ClientCall \/ DeleteChild \/ DeleteNode \/ StoreValue

JsonSpec == JsonInit /\ [][JsonNext]_jsonVars

-----------------------------------------------------------------------------
(* Properties.                                                              *)

Live(o) == kind[o] # "free" /\ refs[o] > 0

AnySlot == ({"member"} \X Fields) \cup ({"array"} \X (Nat \ {0}))
Entry   == [node : Nodes, left : SUBSET AnySlot]
Stores  == [op : {"store"}, node : Nodes, slot : AnySlot, value : Nodes \cup {NULL, Absent}]

\* Every variable has its type.
JsonTypeOK ==
    /\ kind \in [Nodes -> {"free", "object", "array", "leaf"}]
    /\ refs \in [Nodes -> Nat] /\ held \in [Nodes -> 0 .. MaxRefs]
    /\ member \in [Nodes -> [Fields -> Nodes \cup {NULL, Absent}]]
    /\ array \in [Nodes -> Seq(Nodes \cup {NULL})]
    /\ length \in [Nodes -> Nat]
    /\ userdata \in [Nodes -> 0 .. MaxData]
    /\ deleting \in Seq(Entry)
    /\ \A o \in Nodes, j \in DOMAIN deleting :
          deleting[j].node = o => deleting[j].left \subseteq Slots(o)
    /\ pending \in {[op |-> "none"]} \cup Stores
    /\ given \in 0 .. MaxData /\ gone \in [1 .. MaxData -> Nat]
    /\ misused \in BOOLEAN

\* Between calls the count of a node is the number of its owners, the client
\* among them, so that no node is freed while somebody owns it and none stays
\* when nobody does.
Owned(o) == held[o] + Cardinality({e \in Nodes \X (UNION {Slots(q) : q \in Nodes}) :
                                      e[2] \in Slots(e[1]) /\ ChildAt(e[1], e[2]) = o})
CountsOwners ==
    Idle => \A o \in Nodes : IF kind[o] = "free" THEN Owned(o) = 0
                             ELSE refs[o] = Owned(o) /\ refs[o] > 0

\* No node is put that is not there, at any depth of a deletion, whatever is
\* shared below it.
NeverFreedTwice == ~ misused

\* An element is stored inside what was allocated, and an array shows nothing
\* that was not stored: between its elements and behind them all is null.
ArraysInBounds ==
    /\ \A o \in Nodes : kind[o] = "array" =>
          /\ length[o] <= Len(array[o])
          /\ \A j \in length[o] + 1 .. Len(array[o]) : array[o][j] = NULL
    /\ pending.op = "store" /\ pending.slot[1] = "array" =>
          pending.slot[2] \in DOMAIN array[pending.node]

\* A piece of user data is deleted once, when its node is deleted or is given
\* another serializer, and not before.
DataDeletedOnce ==
    \A m \in 1 .. given :
        IF \E o \in Nodes : userdata[o] = m /\ \A j \in DOMAIN deleting : deleting[j].node # o
        THEN gone[m] = 0 ELSE gone[m] = 1

\* Whatever is shared, and in whatever order it is given up: nothing leaks,
\* nothing is used when it is gone, and nothing is stored out of bounds.
NodesOwned == CountsOwners /\ NeverFreedTwice /\ ArraysInBounds /\ DataDeletedOnce
=============================================================================
