------------------------------- MODULE LinkHash -------------------------------
(***************************************************************************)
(* The hash table of json-c/linkhash.c: open addressing with linear        *)
(* probing, deleted slots that are marked as such, a doubly linked list    *)
(* through the slots in the order of insertion, and a table that doubles   *)
(* when it is two thirds full.  A slot is named by its index.              *)
(***************************************************************************)
EXTENDS Integers, Sequences

CONSTANTS
    Keys, Values,
    Nothing,     \* no value
    EMPTY,       \* LH_EMPTY
    FREED,       \* LH_FREED
    Hashes,      \* values of the hash function
    NewSizes,    \* sizes a table is created with
    MaxSize      \* bound of the model: the size of a table

ASSUME HashAssumption ==
    /\ EMPTY \notin Keys /\ FREED \notin Keys /\ EMPTY # FREED
    /\ Nothing \notin Values
    /\ Hashes \subseteq Nat
    /\ MaxSize \in Nat /\ NewSizes \subseteq 1 .. MaxSize

Null == -1

VARIABLES
    hash,       \* hash_fn, which may be any function
    table,      \* the slots: functions from 0 .. size - 1
    result,     \* what the last operation returned, with the key it was asked for
    endless     \* history: an insertion did not find a slot

hashVars == <<hash, table, result, endless>>

Slot(t) == 0 .. t.size - 1
Vacant(t, n) == t.k[n] \in {EMPTY, FREED}
Occupied(t) == {n \in Slot(t) : ~ Vacant(t, n)}

\* lh_table_new
\* Bug: one slot more is cleared than was allocated.
ClearedOneMore(size) == 0 .. size
ClearedSlots(size) == 0 .. size - 1
NewTable(size) ==
    [size |-> size, count |-> 0, head |-> Null, tail |-> Null,
     k    |-> [n \in ClearedSlots(size) |-> EMPTY],
     v    |-> [n \in 0 .. size - 1 |-> Nothing],
     next |-> [n \in 0 .. size - 1 |-> Null],
     prev |-> [n \in 0 .. size - 1 |-> Null]]

Probe(t, key, step) == (hash[key] + step) % t.size
FirstStep(t, S) == CHOOSE s \in S : \A r \in S : s <= r

-----------------------------------------------------------------------------
(* lh_table_insert.  Its callers look first whether the key is there.       *)

RoomFor(t, key) == {s \in Slot(t) : Vacant(t, Probe(t, key, s))}

Linked(t, n) ==
    IF t.head = Null
    THEN [t EXCEPT !.head = n, !.tail = n, !.next[n] = Null, !.prev[n] = Null]
    ELSE [t EXCEPT !.next[t.tail] = n, !.prev[n] = t.tail, !.next[n] = Null,
                   !.tail = n]

Put(t, key, value) ==
    LET n == Probe(t, key, FirstStep(t, RoomFor(t, key)))
    IN  Linked([t EXCEPT !.k[n] = key, !.v[n] = value, !.count = @ + 1], n)

\* The n-th entry of the list.
Walk(t) ==
    LET at[n \in 1 .. t.count] == IF n = 1 THEN t.head ELSE t.next[at[n - 1]]
    IN  at

\* lh_table_resize: the list is inserted into a new table.
Resized(t, size) ==
    LET built[n \in 0 .. t.count] ==
            IF n = 0 THEN NewTable(size)
            ELSE Put(built[n - 1], t.k[Walk(t)[n]], t.v[Walk(t)[n]])
    IN  built[t.count]

\* Bug: the table does not grow.
NeverFull(t) == FALSE
Full(t) == 100 * t.count >= 66 * t.size
Grown(t) == IF Full(t) THEN Resized(t, 2 * t.size) ELSE t

Insert(key, value) ==
    /\ \A n \in Slot(table) : table.k[n] # key
    /\ ~ Full(table) \/ 2 * table.size <= MaxSize
    /\ IF RoomFor(Grown(table), key) # {}
       THEN table' = Put(Grown(table), key, value) /\ UNCHANGED endless
       ELSE endless' = TRUE /\ UNCHANGED table
    /\ result' = Nothing
    /\ UNCHANGED hash

-----------------------------------------------------------------------------
(* lh_table_lookup_entry, lh_table_lookup_ex and lh_table_delete.           *)

\* The probes go on to the key or to an empty slot, at most once around.
\* Bug: a slot that was freed ends the search too.
StopsAtFreed(t, key, n) == t.k[n] \in {EMPTY, FREED, key}
Stops(t, key, n) == t.k[n] \in {EMPTY, key}
FoundEntry(t, key) ==
    LET ends == {s \in Slot(t) : Stops(t, key, Probe(t, key, s))}
        n    == Probe(t, key, FirstStep(t, ends))
    IN  IF ends # {} /\ t.k[n] = key THEN {n} ELSE {}

Lookup(key) ==
    /\ result' = <<key, IF FoundEntry(table, key) = {} THEN Nothing
                        ELSE table.v[CHOOSE n \in FoundEntry(table, key) : TRUE]>>
    /\ UNCHANGED <<hash, table, endless>>

\* The entry is taken out of the list, from the beginning, the end or between.
OnlyEntry(t, n) == [t EXCEPT !.head = Null, !.tail = Null]
HeadEntry(t, n) == [t EXCEPT !.prev[t.next[n]] = Null, !.head = t.next[n]]
TailEntry(t, n) == [t EXCEPT !.next[t.prev[n]] = Null, !.tail = t.prev[n]]
\* Bug: the next entry still names this one as the one before it.
InnerKept(t, n)  == [t EXCEPT !.next[t.prev[n]] = t.next[n]]
InnerEntry(t, n) == [t EXCEPT !.next[t.prev[n]] = t.next[n],
                              !.prev[t.next[n]] = t.prev[n]]
Unlinked(t, n) ==
    CASE t.head = n /\ t.tail = n -> OnlyEntry(t, n)
      [] t.head = n /\ t.tail # n -> HeadEntry(t, n)
      [] t.head # n /\ t.tail = n -> TailEntry(t, n)
      [] OTHER                    -> InnerEntry(t, n)

Delete(key) ==
    /\ IF FoundEntry(table, key) = {}
       THEN result' = <<key, Nothing>> /\ UNCHANGED table
       ELSE /\ \E n \in FoundEntry(table, key) :
                  table' = [Unlinked([table EXCEPT !.count = @ - 1], n)
                               EXCEPT !.k[n] = FREED, !.v[n] = Nothing,
                                      !.next[n] = Null, !.prev[n] = Null]
            /\ result' = Nothing
    /\ UNCHANGED <<hash, endless>>

\* lh_table_free, and lh_table_new for the next one.
Renew ==
    /\ \E size \in NewSizes : table' = NewTable(size)
    /\ result' = Nothing
    /\ UNCHANGED <<hash, endless>>

HashInit ==
    /\ hash \in [Keys -> Hashes]
    /\ \E size \in NewSizes : table = NewTable(size)
    /\ result = Nothing
    /\ endless = FALSE

HashNext ==
    \/ \E key \in Keys : Lookup(key) \/ Delete(key) \/ \E value \in Values : Insert(key, value)
    \/ Renew

HashSpec == HashInit /\ [][HashNext]_hashVars

-----------------------------------------------------------------------------
(* Properties.                                                              *)

Links(t) == Slot(t) \cup {Null}

\* Every variable has its type.
HashTypeOK ==
    /\ hash \in [Keys -> Hashes]
    /\ table.size \in 1 .. MaxSize
    /\ table.count \in 0 .. table.size
    /\ {table.head, table.tail} \subseteq Links(table)
    /\ table.k \in [Slot(table) -> Keys \cup {EMPTY, FREED}]
    /\ table.v \in [Slot(table) -> Values \cup {Nothing}]
    /\ table.next \in [Slot(table) -> Links(table)]
    /\ table.prev \in [Slot(table) -> Links(table)]
    /\ result \in {Nothing} \cup (Keys \X (Values \cup {Nothing}))
    /\ endless \in BOOLEAN

\* The list goes through every occupied slot once, forwards by next and
\* backwards by prev, after any sequence of insertions, deletions and resizes.
ListWellFormed ==
    LET w == Walk(table)
    IN  /\ {w[n] : n \in DOMAIN w} = Occupied(table)
        /\ \A m, n \in DOMAIN w : w[m] = w[n] => m = n
        /\ IF table.count = 0 THEN table.head = Null /\ table.tail = Null
           ELSE table.tail = w[table.count] /\ table.next[table.tail] = Null
        /\ \A n \in DOMAIN w :
              table.prev[w[n]] = IF n = 1 THEN Null ELSE w[n - 1]

\* An insertion ends: it never goes around a table without a vacant slot.
InsertEnds == ~ endless

\* The representation is sound after any sequence of operations.
TableSound == ListWellFormed /\ InsertEnds

\* The table is the ordered map it is used as: no deletion hides another key,
\* no resize loses or reorders one, and a lookup finds exactly what is there.
PairsNow == [n \in 1 .. table.count |-> <<table.k[Walk(table)[n]], table.v[Walk(table)[n]]>>]
Map == INSTANCE OrderedMap WITH pairs <- PairsNow, answer <- result
ImplementsOrderedMap == Map!Spec
=============================================================================
