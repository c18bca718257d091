------------------------------- MODULE GptSwap -------------------------------
(***************************************************************************)
(* gpt_boot_chain_swap of gpt-utils/gpt-utils.cpp: its loop over the names *)
(* of PTN_SWAP_LIST, which exchanges the entries X and Xbak of a partition *)
(* entries array, and the calls of it that prepare an update and undo it.  *)
(*                                                                         *)
(* A name is a sequence of parts, so that the comparison of prefixes by    *)
(* strncmp shows: vbmeta is <<"vbmeta">>, its backup <<"vbmeta", "bak">>,  *)
(* and vbmeta_system <<"vbmeta", "_system">>.  An entry is its name.       *)
(***************************************************************************)
EXTENDS Integers, Sequences

CONSTANTS
    Parts,     \* what the names are made of
    SwapList,  \* PTN_SWAP_LIST
    Arrays,    \* entries arrays a GPT may hold
    IsUfs,     \* gpt_utils_is_ufs_device()
    MaxCalls   \* bound of the model: calls of gpt_boot_chain_swap

Name == Seq(Parts)
Backup(n) == Append(n, "bak")

\* PTN_SWAP_LIST lists no name twice and no backup; in a GPT of the device no
\* two partitions have the same name.
ASSUME SwapAssumption ==
    /\ "bak" \in Parts
    /\ SwapList \in Seq(Name)
    /\ \A j, k \in DOMAIN SwapList :
          /\ SwapList[j] = SwapList[k] => j = k
          /\ SwapList[j] # Backup(SwapList[k])
    /\ Arrays \subseteq Seq(Name)
    /\ \A a \in Arrays : \A j, k \in DOMAIN a : a[j] = a[k] => j = k
    /\ IsUfs \in BOOLEAN
    /\ MaxCalls \in Nat

VARIABLES
    original,          \* history: the array before the first call
    pentries,          \* the array
    calls,             \* calls begun
    i,                 \* index of the loop; past the end between calls
    backup_not_found   \* what the call is going to return

swapVars == <<original, pentries, calls, i, backup_not_found>>

Xbl == <<"xbl">>

HasPrefix(p, s) == Len(p) <= Len(s) /\ \A k \in 1 .. Len(p) : s[k] = p[k]

\* gpt_pentry_seek: the name or the name of its backup.
\* Bug: what comes after the name is not looked at.
MatchesPrefix(n, e) == HasPrefix(n, e)
Matches(n, e) == /\ HasPrefix(n, e)
                 /\ \/ Len(e) = Len(n)
                    \/ Len(e) = Len(n) + 1 /\ e[Len(e)] = "bak"

Hits(n, from) == {k \in from .. Len(pentries) : Matches(n, pentries[k])}
Seek(n, from) == CHOOSE k \in Hits(n, from) : \A m \in Hits(n, from) : k <= m

Looping   == i <= Len(SwapList)
Skips(n)  == IsUfs /\ HasPrefix(Xbl, n)
First(n)  == Seek(n, 1)
Second(n) == Seek(n, First(n) + 1)
HasBoth(n) == Hits(n, 1) # {} /\ Hits(n, First(n) + 1) # {}

SwapInit ==
    /\ original \in Arrays
    /\ pentries = original
    /\ calls = 0
    /\ i = Len(SwapList) + 1
    /\ backup_not_found = 1

\* gpt2_set_boot_chain calls it on what is, or describes, the same array.
SwapCall ==
    /\ ~ Looping
    /\ calls < MaxCalls
    /\ calls' = calls + 1
    /\ i' = 1
    /\ backup_not_found' = 1
    /\ UNCHANGED <<original, pentries>>

\* The three ways to continue the loop.
Continue ==
    /\ Looping
    /\ Skips(SwapList[i]) \/ ~ HasBoth(SwapList[i])
    /\ i' = i + 1
    /\ UNCHANGED <<original, pentries, calls, backup_not_found>>

\* Bug: the entry is overwritten before it is saved.
ExchangedNoTemporary(a, j, k) == [a EXCEPT ![j] = a[k]]
Exchanged(a, j, k) == [a EXCEPT ![j] = a[k], ![k] = a[j]]
\* Bug: backup_not_found is decremented for each backup found.
FoundAgain == backup_not_found - 1
\* Bug: backup_not_found is never cleared.
FoundForgotten == backup_not_found
Found == 0

Exchange ==
    /\ Looping
    /\ LET n == SwapList[i]
       IN  /\ ~ Skips(n)
           /\ HasBoth(n)
           /\ pentries' = Exchanged(pentries, First(n), Second(n))
    /\ backup_not_found' = Found
    /\ i' = i + 1
    /\ UNCHANGED <<original, calls>>

SwapNext == SwapCall \/ Continue \/ Exchange

SwapSpec == SwapInit /\ [][SwapNext]_swapVars

-----------------------------------------------------------------------------
(* Properties.                                                              *)

\* Every variable has its type.
SwapTypeOK ==
    /\ original \in Seq(Name)
    /\ pentries \in Seq(Name)
    /\ Len(pentries) = Len(original)
    /\ calls \in 0 .. MaxCalls
    /\ i \in 1 .. Len(SwapList) + 1
    /\ backup_not_found \in {0, 1}

\* At every iteration the array still has every entry it had, in some place.
NothingLost ==
    \A k \in DOMAIN original : \E m \in DOMAIN pentries : pentries[m] = original[k]

\* The reference: a name that is not skipped and its backup, if both are
\* there, change places; all other entries stay.
IsIn(e, a) == \E k \in DOMAIN a : a[k] = e
Twins(e, f) ==
    \E k \in DOMAIN SwapList :
        LET n == SwapList[k]
        IN  ~ Skips(n) /\ (<<e, f>> = <<n, Backup(n)>> \/ <<f, e>> = <<n, Backup(n)>>)
Twin(a, k) ==
    IF \E m \in DOMAIN a : Twins(a[k], a[m])
    THEN a[CHOOSE m \in DOMAIN a : Twins(a[k], a[m])]
    ELSE a[k]
Swapped(a) == [k \in DOMAIN a |-> Twin(a, k)]

\* Between calls the array is the original one with exactly the pairs that
\* have a backup exchanged, or, after an even number of calls, the original.
ExchangesPairs ==
    ~ Looping =>
        pentries = IF calls % 2 = 1 THEN Swapped(original) ELSE original

\* "0 on success, 1 if no backup partitions found": what is returned tells
\* whether the array was changed.
TellsIfNone ==
    ~ Looping /\ calls > 0 =>
        (backup_not_found = 1 <=> Swapped(original) = original)

\* A call exchanges what it should, says so, and is undone by the next.
SwapCorrect == NothingLost /\ ExchangesPairs /\ TellsIfNone

-----------------------------------------------------------------------------
(* The inductive invariant, whose proof is in SequentialProofs.             *)

\* The pair of entries that the k-th name of the list stands for.
Pair(k) == {SwapList[k], Backup(SwapList[k])}
Done(e) == \E k \in 1 .. i - 1 : e \in Pair(k)
Swappable(k) == ~ Skips(SwapList[k]) /\ \A e \in Pair(k) : IsIn(e, original)

\* No name is in an array twice.
Distinct ==
    /\ \A j, k \in DOMAIN original : original[j] = original[k] => j = k
    /\ \A j, k \in DOMAIN pentries : pentries[j] = pentries[k] => j = k

NothingNew == \A k \in DOMAIN pentries : IsIn(pentries[k], original)

\* An odd call has exchanged the pairs it is done with, an even one has
\* restored them.
PartlySwapped ==
    \A k \in DOMAIN original :
        pentries[k] = IF calls % 2 = 1 <=> Done(original[k])
                      THEN Twin(original, k) ELSE original[k]

FoundSoFar ==
    calls > 0 => (backup_not_found = 0 <=> \E k \in 1 .. i - 1 : Swappable(k))

SwapIInv == /\ SwapTypeOK
        /\ Distinct
        /\ NothingLost
        /\ NothingNew
        /\ PartlySwapped
        /\ FoundSoFar
=============================================================================
