------------------------------ MODULE OrderedMap ------------------------------
(***************************************************************************)
(* What the hash table of json-c promises: a map that keeps its keys in    *)
(* the order in which they were inserted.                                  *)
(***************************************************************************)
EXTENDS Sequences, Naturals

CONSTANTS Keys, Values, Nothing

VARIABLES
    pairs,   \* the pairs <<key, value>>, oldest first
    answer   \* what the last operation returned, with the key it was asked for

KeysOf(s) == {s[j][1] : j \in DOMAIN s}
ValueOf(s, key) == s[CHOOSE j \in DOMAIN s : s[j][1] = key][2]

Init == pairs = <<>> /\ answer = Nothing

Insert(key, value) ==
    /\ key \notin KeysOf(pairs)
    /\ pairs' = Append(pairs, <<key, value>>)
    /\ answer' = Nothing

Without(s, j) == [n \in 1 .. Len(s) - 1 |-> IF n < j THEN s[n] ELSE s[n + 1]]
Delete(key) ==
    IF key \in KeysOf(pairs)
    THEN /\ \E j \in DOMAIN pairs : pairs[j][1] = key /\ pairs' = Without(pairs, j)
         /\ answer' = Nothing
    ELSE answer' = <<key, Nothing>> /\ UNCHANGED pairs

Lookup(key) ==
    /\ answer' = <<key, IF key \in KeysOf(pairs) THEN ValueOf(pairs, key) ELSE Nothing>>
    /\ UNCHANGED pairs

Clear == pairs' = <<>> /\ answer' = Nothing

Next ==
    \/ \E key \in Keys : Delete(key) \/ Lookup(key) \/ \E value \in Values : Insert(key, value)
    \/ Clear

Spec == Init /\ [][Next]_<<pairs, answer>>
=============================================================================
