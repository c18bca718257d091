-------------------------- MODULE SequentialProofs --------------------------
(***************************************************************************)
(* The safety properties of the parts that run alone, in one thread: of    *)
(* the swap of the boot chain, for every list of names and every entries   *)
(* array without duplicate names; of a gpt_disk handle, for any number of  *)
(* edits; of the vibrator HAL, for any calibrations, durations,            *)
(* temperatures and number of failures; and of the init scripts, for any   *)
(* versions, dependencies, packages and number of boots.  At the end, with *)
(* the theorems of LinkHashProofs, JsonObjectProofs and JsonTokenerProofs, *)
(* the types of all the parts in their composition.                        *)
(***************************************************************************)
EXTENDS MCSequential, LinkHashProofs, JsonObjectProofs, JsonTokenerProofs, TLAPS

-----------------------------------------------------------------------------
(* GptSwap: SwapIInv is inductive.                                          *)

(* Names.                                                                   *)

LEMMA BackupFacts ==
    ASSUME NEW n \in Name
    PROVE  /\ Backup(n) \in Name
           /\ Len(Backup(n)) = Len(n) + 1
           /\ \A k \in 1 .. Len(n) : Backup(n)[k] = n[k]
           /\ Backup(n)[Len(n) + 1] = "bak"
           /\ Backup(n) # n
<1>1. n \in Seq(Parts)
  BY DEF Name
<1>0. "bak" \in Parts
  BY SwapAssumption
<1>2. /\ Backup(n) \in Seq(Parts)
      /\ Len(Backup(n)) = Len(n) + 1
      /\ \A k \in 1 .. Len(n) : Backup(n)[k] = n[k]
      /\ Backup(n)[Len(n) + 1] = "bak"
  BY <1>0, <1>1, AppendProperties DEF Backup
<1>3. Len(n) \in Nat
  BY <1>1
<1>4. Backup(n) # n
  BY <1>2, <1>3
<1> QED
  BY <1>2, <1>4 DEF Name

LEMMA BackupInjective ==
    ASSUME NEW m \in Name, NEW n \in Name, Backup(m) = Backup(n)
    PROVE  m = n
  BY AppendInjective DEF Backup, Name

LEMMA MatchesIs ==
    ASSUME NEW n \in Name, NEW e \in Name
    PROVE  Matches(n, e) <=> e \in {n, Backup(n)}
<1>1. ASSUME Matches(n, e), Len(e) = Len(n)
      PROVE  e = n
  <2>1. \A k \in 1 .. Len(e) : e[k] = n[k]
    BY <1>1 DEF Matches, HasPrefix
  <2> QED
    BY <1>1, <2>1, SeqEqual DEF Name
<1>2. ASSUME Matches(n, e), Len(e) # Len(n)
      PROVE  e = Backup(n)
  <2>1. Len(e) = Len(n) + 1 /\ e[Len(e)] = "bak"
    BY <1>2 DEF Matches
  <2>2. \A k \in 1 .. Len(n) : e[k] = n[k]
    BY <1>2 DEF Matches, HasPrefix
  <2>3. Backup(n) \in Name /\ Len(Backup(n)) = Len(e)
    BY <2>1, BackupFacts
  <2>4. \A k \in 1 .. Len(e) : e[k] = Backup(n)[k]
    <3> TAKE k \in 1 .. Len(e)
    <3>0. Len(n) \in Nat
      BY DEF Name
    <3>1. CASE k \in 1 .. Len(n)
      BY <3>1, <2>2, BackupFacts
    <3>2. CASE k = Len(n) + 1
      BY <3>2, <2>1, BackupFacts
    <3> QED
      BY <2>1, <3>0, <3>1, <3>2
  <2> QED
    BY <2>3, <2>4, SeqEqual DEF Name
<1>3. Matches(n, n)
  BY DEF Matches, HasPrefix, Name
<1>4. Matches(n, Backup(n))
  <2>1. Len(n) \in Nat
    BY DEF Name
  <2> QED
    BY <2>1, BackupFacts DEF Matches, HasPrefix
<1> QED
  BY <1>1, <1>2, <1>3, <1>4

\* The names of the list stand for pairs that have no entry in common.
LEMMA PairFacts ==
    ASSUME NEW k \in DOMAIN SwapList
    PROVE  /\ SwapList[k] \in Name
           /\ SwapList[k] # Backup(SwapList[k])
           /\ \A j \in DOMAIN SwapList : \A e : e \in Pair(j) /\ e \in Pair(k) => j = k
<1>1. \A j \in DOMAIN SwapList : SwapList[j] \in Name
  BY SwapAssumption, ElementOfSeq, LenProperties
<1>2. SwapList[k] # Backup(SwapList[k])
  BY <1>1, BackupFacts
<1>3. ASSUME NEW j \in DOMAIN SwapList, NEW e, e \in Pair(j), e \in Pair(k)
      PROVE  j = k
  <2>1. CASE e = SwapList[j]
    BY <2>1, <1>3, SwapAssumption DEF Pair
  <2>2. CASE e = Backup(SwapList[j]) /\ e = SwapList[k]
    BY <2>2, SwapAssumption
  <2>3. CASE e = Backup(SwapList[j]) /\ e = Backup(SwapList[k])
    <3>1. SwapList[j] = SwapList[k]
      BY <2>3, <1>1, BackupInjective
    <3> QED
      BY <3>1, SwapAssumption
  <2> QED
    BY <2>1, <2>2, <2>3, <1>3 DEF Pair
<1> QED
  BY <1>1, <1>2, <1>3

-----------------------------------------------------------------------------
(* What the reference makes of an entry.                                    *)

LEMMA TwinsIs ==
    ASSUME NEW k \in DOMAIN SwapList, NEW e \in Pair(k), NEW f
    PROVE  Twins(e, f) <=> ~ Skips(SwapList[k]) /\ f \in Pair(k) /\ f # e
<1>1. ASSUME Twins(e, f)
      PROVE  ~ Skips(SwapList[k]) /\ f \in Pair(k) /\ f # e
  <2>1. PICK j \in DOMAIN SwapList :
          /\ ~ Skips(SwapList[j])
          /\ \/ e = SwapList[j] /\ f = Backup(SwapList[j])
             \/ f = SwapList[j] /\ e = Backup(SwapList[j])
    BY <1>1 DEF Twins
  <2>2. e \in Pair(j)
    BY <2>1 DEF Pair
  <2>3. j = k
    BY <2>2, PairFacts
  <2> QED
    BY <2>1, <2>3, PairFacts DEF Pair
<1>2. ASSUME ~ Skips(SwapList[k]), f \in Pair(k), f # e
      PROVE  Twins(e, f)
  <2>1. \/ e = SwapList[k] /\ f = Backup(SwapList[k])
        \/ f = SwapList[k] /\ e = Backup(SwapList[k])
    BY <1>2 DEF Pair
  <2> QED
    BY <1>2, <2>1 DEF Twins
<1> QED
  BY <1>1, <1>2

\* An entry changes to the other one of its pair, if that one is there.
LEMMA TwinOfSwappable ==
    ASSUME NEW k \in DOMAIN SwapList, Swappable(k),
           NEW m \in DOMAIN original, original[m] \in Pair(k)
    PROVE  Twin(original, m) \in Pair(k) /\ Twin(original, m) # original[m]
<1>1. PICK f \in Pair(k) : f # original[m]
  BY PairFacts DEF Pair
<1>2. PICK l \in DOMAIN original : original[l] = f
  BY <1>1 DEF Swappable, IsIn
<1>3. Twins(original[m], original[l])
  BY <1>1, <1>2, TwinsIs DEF Swappable
<1>4. \E l2 \in DOMAIN original :
        /\ Twins(original[m], original[l2])
        /\ Twin(original, m) = original[l2]
  BY <1>3 DEF Twin
<1> QED
  BY <1>4, TwinsIs

LEMMA TwinOfOther ==
    ASSUME NEW m \in DOMAIN original,
           \A k \in DOMAIN SwapList : ~ (original[m] \in Pair(k) /\ Swappable(k))
    PROVE  Twin(original, m) = original[m]
<1>1. SUFFICES ASSUME NEW l \in DOMAIN original, Twins(original[m], original[l])
               PROVE  FALSE
  BY DEF Twin
<1>2. PICK k \in DOMAIN SwapList :
        /\ ~ Skips(SwapList[k])
        /\ \/ original[m] = SwapList[k] /\ original[l] = Backup(SwapList[k])
           \/ original[l] = SwapList[k] /\ original[m] = Backup(SwapList[k])
  BY <1>1 DEF Twins
<1>3. original[m] \in Pair(k) /\ Swappable(k)
  BY <1>2 DEF Pair, Swappable, IsIn
<1> QED
  BY <1>3

-----------------------------------------------------------------------------
(* The search.                                                              *)

LEMMA ArrayFacts ==
    ASSUME SwapTypeOK
    PROVE  /\ Len(pentries) \in Nat
           /\ DOMAIN pentries = 1 .. Len(pentries)
           /\ DOMAIN original = DOMAIN pentries
           /\ \A k \in DOMAIN pentries : pentries[k] \in Name
           /\ DOMAIN SwapList = 1 .. Len(SwapList)
           /\ Len(SwapList) \in Nat
  BY SwapAssumption, LenProperties, ElementOfSeq DEF SwapTypeOK

LEMMA HitsAre ==
    ASSUME SwapTypeOK, NEW k \in DOMAIN SwapList, NEW from \in Nat \ {0}
    PROVE  Hits(SwapList[k], from) =
             {m \in DOMAIN pentries : m >= from /\ pentries[m] \in Pair(k)}
<1>1. SwapList[k] \in Name
  BY PairFacts
<1>2. \A m \in DOMAIN pentries :
        Matches(SwapList[k], pentries[m]) <=> pentries[m] \in Pair(k)
  BY <1>1, ArrayFacts, MatchesIs DEF Pair
<1>3. \A m : m \in from .. Len(pentries) <=> m \in DOMAIN pentries /\ m >= from
  BY ArrayFacts
<1> QED
  BY <1>2, <1>3 DEF Hits

LEMMA SeekFinds ==
    ASSUME SwapTypeOK, NEW k \in DOMAIN SwapList, NEW from \in Nat \ {0},
           Hits(SwapList[k], from) # {}
    PROVE  /\ Seek(SwapList[k], from) \in Hits(SwapList[k], from)
           /\ \A m \in Hits(SwapList[k], from) : Seek(SwapList[k], from) <= m
<1> DEFINE H == Hits(SwapList[k], from)
<1>1. H \in SUBSET Nat
  BY HitsAre, ArrayFacts
<1>2. \E x \in H : \A y \in H : x <= y
  BY <1>1, LeastElement
<1> QED
  BY <1>2 DEF Seek

\* The search finds the two entries of a pair if and only if both are there.
LEMMA HasBothIs ==
    ASSUME SwapTypeOK, Distinct, NEW k \in DOMAIN SwapList
    PROVE  HasBoth(SwapList[k]) <=> \A e \in Pair(k) : IsIn(e, pentries)
<1> DEFINE n == SwapList[k]
<1>1. ASSUME HasBoth(n)
      PROVE  \A e \in Pair(k) : IsIn(e, pentries)
  <2>1. First(n) \in Hits(n, 1)
    BY <1>1, SeekFinds DEF HasBoth, First
  <2>2. First(n) \in DOMAIN pentries /\ pentries[First(n)] \in Pair(k)
    BY <2>1, HitsAre
  <2>3. First(n) + 1 \in Nat \ {0}
    BY <2>2, ArrayFacts
  <2>4. PICK m \in Hits(n, First(n) + 1) : TRUE
    BY <1>1 DEF HasBoth
  <2>5. m \in DOMAIN pentries /\ m >= First(n) + 1 /\ pentries[m] \in Pair(k)
    BY <2>3, <2>4, HitsAre
  <2>6. pentries[m] # pentries[First(n)]
    BY <2>2, <2>5, ArrayFacts DEF Distinct
  <2> QED
    BY <2>2, <2>5, <2>6 DEF Pair, IsIn
<1>2. ASSUME \A e \in Pair(k) : IsIn(e, pentries)
      PROVE  HasBoth(n)
  <2>1. PICK x \in DOMAIN pentries : pentries[x] = n
    BY <1>2 DEF IsIn, Pair
  <2>2. PICK y \in DOMAIN pentries : pentries[y] = Backup(n)
    BY <1>2 DEF IsIn, Pair
  <2>3. x # y
    BY <2>1, <2>2, PairFacts
  <2>4. x \in Hits(n, 1) /\ y \in Hits(n, 1)
    BY <2>1, <2>2, HitsAre, ArrayFacts DEF Pair
  <2>5. First(n) \in Hits(n, 1) /\ First(n) <= x /\ First(n) <= y
    BY <2>4, SeekFinds DEF First
  <2>6. First(n) \in Nat /\ x \in Nat /\ y \in Nat
    BY <2>5, HitsAre, ArrayFacts
  <2>7. x >= First(n) + 1 \/ y >= First(n) + 1
    BY <2>3, <2>5, <2>6
  <2>8. x \in Hits(n, First(n) + 1) \/ y \in Hits(n, First(n) + 1)
    BY <2>1, <2>2, <2>6, <2>7, HitsAre DEF Pair
  <2> QED
    BY <2>4, <2>8 DEF HasBoth
<1> QED
  BY <1>1, <1>2

LEMMA FoundPlaces ==
    ASSUME SwapTypeOK, Distinct, NEW k \in DOMAIN SwapList, HasBoth(SwapList[k])
    PROVE  LET f == First(SwapList[k])
               s == Second(SwapList[k])
           IN  /\ f \in DOMAIN pentries /\ s \in DOMAIN pentries /\ f # s
               /\ Pair(k) = {pentries[f], pentries[s]}
               /\ pentries[f] # pentries[s]
<1> DEFINE n == SwapList[k]
<1>1. First(n) \in Hits(n, 1)
  BY SeekFinds DEF HasBoth, First
<1>2. First(n) \in DOMAIN pentries /\ pentries[First(n)] \in Pair(k)
  BY <1>1, HitsAre
<1>3. First(n) + 1 \in Nat \ {0}
  BY <1>2, ArrayFacts
<1>4. Second(n) \in Hits(n, First(n) + 1)
  BY <1>3, SeekFinds DEF HasBoth, Second
<1>5. /\ Second(n) \in DOMAIN pentries
      /\ Second(n) >= First(n) + 1
      /\ pentries[Second(n)] \in Pair(k)
  BY <1>3, <1>4, HitsAre
<1>6. First(n) # Second(n)
  BY <1>2, <1>5, ArrayFacts
<1>7. pentries[First(n)] # pentries[Second(n)]
  BY <1>2, <1>5, <1>6 DEF Distinct
<1> QED
  BY <1>2, <1>5, <1>6, <1>7 DEF Pair

-----------------------------------------------------------------------------
(* What an iteration does to the array.                                     *)

\* The entries of the pair change places, and no other entry moves.
LEMMA ExchangeMoves ==
    ASSUME SwapIInv, Exchange
    PROVE  /\ i \in DOMAIN SwapList
           /\ Swappable(i)
           /\ pentries' \in Seq(Name)
           /\ Len(pentries') = Len(pentries)
           /\ DOMAIN pentries' = DOMAIN pentries
           /\ \A m \in DOMAIN pentries :
                 IF pentries[m] \in Pair(i)
                 THEN pentries'[m] \in Pair(i) \ {pentries[m]}
                 ELSE pentries'[m] = pentries[m]
<1> DEFINE n == SwapList[i]
           f == First(n)
           s == Second(n)
<1>1. i \in DOMAIN SwapList
  BY ArrayFacts DEF SwapIInv, SwapTypeOK, Exchange, Looping
<1>2. ~ Skips(n) /\ HasBoth(n) /\ pentries' = Exchanged(pentries, f, s)
  BY DEF Exchange
<1>3. \A e \in Pair(i) : IsIn(e, pentries)
  BY <1>1, <1>2, HasBothIs DEF SwapIInv
<1>4. Swappable(i)
  BY <1>2, <1>3 DEF Swappable, SwapIInv, NothingNew, IsIn
<1>5. /\ f \in DOMAIN pentries /\ s \in DOMAIN pentries /\ f # s
      /\ Pair(i) = {pentries[f], pentries[s]}
      /\ pentries[f] # pentries[s]
  BY <1>1, <1>2, FoundPlaces DEF SwapIInv
<1> HIDE DEF n, f, s
<1>6. pentries' = [pentries EXCEPT ![f] = pentries[s], ![s] = pentries[f]]
  BY <1>2 DEF Exchanged
<1>7. pentries \in Seq(Name) /\ DOMAIN pentries = 1 .. Len(pentries)
  BY ArrayFacts DEF SwapIInv, SwapTypeOK
<1>8. pentries[f] \in Name /\ pentries[s] \in Name
  BY <1>5, <1>7, ElementOfSeq
<1>9. pentries' \in Seq(Name) /\ Len(pentries') = Len(pentries)
  BY <1>5, <1>6, <1>7, <1>8, ExceptSeq
<1>10. DOMAIN pentries' = DOMAIN pentries
  BY <1>6
<1>11. \A m \in DOMAIN pentries :
         /\ pentries'[m] = IF m = f THEN pentries[s]
                           ELSE IF m = s THEN pentries[f] ELSE pentries[m]
         /\ pentries[m] \in Pair(i) <=> m = f \/ m = s
  BY <1>5, <1>6 DEF SwapIInv, Distinct
<1> QED
  BY <1>1, <1>4, <1>5, <1>9, <1>10, <1>11

\* An iteration without exchange is one for a pair that is not to be swapped.
LEMMA ContinueLeaves ==
    ASSUME SwapIInv, Continue
    PROVE  i \in DOMAIN SwapList /\ ~ Swappable(i)
<1>1. i \in DOMAIN SwapList
  BY ArrayFacts DEF SwapIInv, SwapTypeOK, Continue, Looping
<1>2. CASE Skips(SwapList[i])
  BY <1>1, <1>2 DEF Swappable
<1>3. CASE ~ HasBoth(SwapList[i])
  <2>1. PICK e \in Pair(i) : ~ IsIn(e, pentries)
    BY <1>1, <1>3, HasBothIs DEF SwapIInv
  <2>2. ~ IsIn(e, original)
    BY <2>1 DEF SwapIInv, NothingLost, IsIn
  <2> QED
    BY <1>1, <2>2 DEF Swappable
<1> QED
  BY <1>1, <1>2, <1>3 DEF Continue

\* One more iteration is done with one more pair.
LEMMA DoneNext ==
    ASSUME SwapIInv, i \in DOMAIN SwapList, i' = i + 1
    PROVE  \A e : Done(e)' <=> Done(e) \/ e \in Pair(i)
<1>1. i \in Nat
  BY DEF SwapIInv, SwapTypeOK
<1>2. \A k : k \in 1 .. i' - 1 <=> k \in 1 .. i - 1 \/ k = i
  BY <1>1, ArrayFacts DEF SwapIInv
<1> QED
  BY <1>2 DEF Done

-----------------------------------------------------------------------------
(* The invariant.                                                           *)

LEMMA SwapInitIInv ==
    ASSUME SwapInit
    PROVE  SwapIInv
<1>1. original \in Seq(Name) /\ pentries = original
  BY SwapAssumption DEF SwapInit
<1>2. SwapTypeOK
  BY <1>1, SwapAssumption, LenProperties DEF SwapInit, SwapTypeOK
<1>3. Distinct
  BY SwapAssumption DEF SwapInit, Distinct
<1>4. NothingLost /\ NothingNew
  BY <1>1 DEF NothingLost, NothingNew, IsIn
<1>5. PartlySwapped
  <2> SUFFICES ASSUME NEW m \in DOMAIN original
               PROVE  pentries[m] = IF calls % 2 = 1 <=> Done(original[m])
                                    THEN Twin(original, m) ELSE original[m]
    BY DEF PartlySwapped
  <2>1. calls % 2 # 1
    BY DEF SwapInit
  <2>2. CASE Done(original[m])
    BY <1>1, <2>1, <2>2
  <2>3. CASE ~ Done(original[m])
    <3>1. \A k \in DOMAIN SwapList : original[m] \notin Pair(k)
      BY <1>2, <2>3, ArrayFacts DEF Done, SwapInit
    <3>2. Twin(original, m) = original[m]
      BY <3>1, TwinOfOther
    <3> QED
      BY <1>1, <3>2
  <2> QED
    BY <2>2, <2>3
<1>6. FoundSoFar
  BY DEF SwapInit, FoundSoFar
<1> QED
  BY <1>2, <1>3, <1>4, <1>5, <1>6 DEF SwapIInv

LEMMA CallIInv ==
    ASSUME SwapIInv, SwapCall
    PROVE  SwapIInv'
<1>1. /\ calls \in Nat /\ calls' = calls + 1 /\ calls' \in 0 .. MaxCalls
      /\ i = Len(SwapList) + 1 /\ i' = 1
      /\ backup_not_found' = 1
      /\ UNCHANGED <<original, pentries>>
  BY SwapAssumption, ArrayFacts DEF SwapIInv, SwapTypeOK, SwapCall, Looping
<1>2. SwapTypeOK'
  BY <1>1, ArrayFacts DEF SwapIInv, SwapTypeOK
<1>3. Distinct' /\ NothingLost' /\ NothingNew'
  BY <1>1 DEF SwapIInv, Distinct, NothingLost, NothingNew, IsIn
<1>4. PartlySwapped'
  <2> SUFFICES ASSUME NEW m \in DOMAIN original
               PROVE  pentries[m] = IF calls' % 2 = 1 <=> Done(original[m])'
                                    THEN Twin(original, m) ELSE original[m]
    BY <1>1 DEF PartlySwapped, Done
  <2>1. (calls' % 2 = 1) <=> ~ (calls % 2 = 1)
    BY <1>1
  <2>2. ~ Done(original[m])'
    BY <1>1 DEF Done
  <2>3. CASE Done(original[m])
    BY <2>1, <2>2, <2>3 DEF SwapIInv, PartlySwapped
  <2>4. CASE ~ Done(original[m])
    <3>1. \A k \in DOMAIN SwapList : original[m] \notin Pair(k)
      BY <1>1, <2>4, ArrayFacts DEF SwapIInv, Done
    <3>2. Twin(original, m) = original[m]
      BY <3>1, TwinOfOther
    <3> QED
      BY <3>2 DEF SwapIInv, PartlySwapped
  <2> QED
    BY <2>3, <2>4
<1>5. FoundSoFar'
  BY <1>1 DEF FoundSoFar
<1> QED
  BY <1>2, <1>3, <1>4, <1>5 DEF SwapIInv

LEMMA ContinueIInv ==
    ASSUME SwapIInv, Continue
    PROVE  SwapIInv'
<1>1. i \in DOMAIN SwapList /\ ~ Swappable(i)
  BY ContinueLeaves
<1>2. i' = i + 1 /\ UNCHANGED <<original, pentries, calls, backup_not_found>>
  BY DEF Continue
<1>3. SwapTypeOK'
  BY <1>1, <1>2, ArrayFacts DEF SwapIInv, SwapTypeOK
<1>4. Distinct' /\ NothingLost' /\ NothingNew'
  BY <1>2 DEF SwapIInv, Distinct, NothingLost, NothingNew, IsIn
<1>5. PartlySwapped'
  <2> SUFFICES ASSUME NEW m \in DOMAIN original
               PROVE  pentries[m] = IF calls % 2 = 1 <=> Done(original[m])'
                                    THEN Twin(original, m) ELSE original[m]
    BY <1>2 DEF PartlySwapped, Done
  <2>1. CASE original[m] \in Pair(i)
    <3>1. \A k \in DOMAIN SwapList : ~ (original[m] \in Pair(k) /\ Swappable(k))
      BY <1>1, <2>1, PairFacts
    <3>2. Twin(original, m) = original[m]
      BY <3>1, TwinOfOther
    <3> QED
      BY <3>2 DEF SwapIInv, PartlySwapped
  <2>2. CASE original[m] \notin Pair(i)
    <3>1. Done(original[m])' <=> Done(original[m])
      BY <1>1, <1>2, <2>2, DoneNext
    <3> QED
      BY <3>1 DEF SwapIInv, PartlySwapped
  <2> QED
    BY <2>1, <2>2
<1>6. FoundSoFar'
  <2>1. \A k : Swappable(k)' <=> Swappable(k)
    BY <1>2 DEF Swappable, IsIn
  <2>2. \A k : k \in 1 .. i' - 1 <=> k \in 1 .. i - 1 \/ k = i
    BY <1>1, <1>2, ArrayFacts DEF SwapIInv
  <2>3. (\E k \in 1 .. i' - 1 : Swappable(k)') <=> \E k \in 1 .. i - 1 : Swappable(k)
    BY <1>1, <2>1, <2>2
  <2> QED
    BY <1>2, <2>3 DEF SwapIInv, FoundSoFar
<1> QED
  BY <1>3, <1>4, <1>5, <1>6 DEF SwapIInv

LEMMA ExchangeIInv ==
    ASSUME SwapIInv, Exchange
    PROVE  SwapIInv'
<1>1. /\ i \in DOMAIN SwapList
      /\ Swappable(i)
      /\ pentries' \in Seq(Name)
      /\ Len(pentries') = Len(pentries)
      /\ DOMAIN pentries' = DOMAIN pentries
  BY ExchangeMoves
<1>2. \A m \in DOMAIN pentries :
        /\ pentries[m] \in Pair(i) => pentries'[m] \in Pair(i) /\ pentries'[m] # pentries[m]
        /\ pentries[m] \notin Pair(i) => pentries'[m] = pentries[m]
  BY ExchangeMoves
<1>3. i' = i + 1 /\ backup_not_found' = 0 /\ UNCHANGED <<original, calls>>
  BY DEF Exchange, Found
<1>4. DOMAIN original = DOMAIN pentries
  BY ArrayFacts DEF SwapIInv
<1>5. SwapTypeOK'
  BY <1>1, <1>3, ArrayFacts DEF SwapIInv, SwapTypeOK
<1>6. Distinct'
  <2>1. \A j, k \in DOMAIN pentries : pentries'[j] = pentries'[k] => j = k
    BY <1>2 DEF SwapIInv, Distinct, Pair
  <2> QED
    BY <1>1, <1>3, <2>1 DEF SwapIInv, Distinct
<1>7. NothingNew'
  <2>1. \A m \in DOMAIN pentries : IsIn(pentries'[m], original)
    BY <1>1, <1>2 DEF SwapIInv, NothingNew, Swappable
  <2> QED
    BY <1>1, <1>3, <2>1 DEF NothingNew, IsIn
<1>8. NothingLost'
  <2> SUFFICES ASSUME NEW m \in DOMAIN original
               PROVE  \E l \in DOMAIN pentries : pentries'[l] = original[m]
    BY <1>1, <1>3 DEF NothingLost
  <2>1. PICK x \in DOMAIN pentries : pentries[x] = original[m]
    BY DEF SwapIInv, NothingLost
  <2>2. CASE original[m] \notin Pair(i)
    BY <1>2, <2>1, <2>2
  <2>3. CASE original[m] \in Pair(i)
    <3>1. PICK e \in Pair(i) : e # original[m]
      BY <1>1, PairFacts DEF Pair
    <3>2. PICK k \in DOMAIN original : original[k] = e
      BY <1>1, <3>1 DEF Swappable, IsIn
    <3>3. PICK y \in DOMAIN pentries : pentries[y] = e
      BY <3>2 DEF SwapIInv, NothingLost
    <3>4. pentries'[y] \in Pair(i) /\ pentries'[y] # e
      BY <1>2, <3>1, <3>3
    <3>5. pentries'[y] = original[m]
      BY <2>3, <3>1, <3>4 DEF Pair
    <3> QED
      BY <3>5
  <2> QED
    BY <2>2, <2>3
<1>9. PartlySwapped'
  <2> SUFFICES ASSUME NEW m \in DOMAIN original
               PROVE  pentries'[m] = IF calls % 2 = 1 <=> Done(original[m])'
                                     THEN Twin(original, m) ELSE original[m]
    BY <1>3 DEF PartlySwapped, Done
  <2>1. pentries[m] \in {Twin(original, m), original[m]}
    BY DEF SwapIInv, PartlySwapped
  <2>2. CASE original[m] \in Pair(i)
    <3>1. ~ Done(original[m])
      BY <1>1, <2>2, PairFacts, ArrayFacts DEF SwapIInv, SwapTypeOK, Done
    <3>2. Done(original[m])'
      BY <1>1, <1>3, <2>2, DoneNext
    <3>3. Twin(original, m) \in Pair(i) /\ Twin(original, m) # original[m]
      BY <1>1, <2>2, TwinOfSwappable
    <3>4. pentries[m] = IF calls % 2 = 1 THEN original[m] ELSE Twin(original, m)
      BY <3>1 DEF SwapIInv, PartlySwapped
    <3>5. pentries'[m] \in Pair(i) /\ pentries'[m] # pentries[m]
      BY <1>2, <1>4, <2>1, <2>2, <3>3
    <3>6. pentries'[m] = IF calls % 2 = 1 THEN Twin(original, m) ELSE original[m]
      BY <2>2, <3>3, <3>4, <3>5 DEF Pair
    <3> QED
      BY <3>2, <3>6
  <2>3. CASE original[m] \notin Pair(i)
    <3>1. Twin(original, m) \notin Pair(i)
      <4>1. CASE \E k \in DOMAIN SwapList : original[m] \in Pair(k) /\ Swappable(k)
        BY <1>1, <2>3, <4>1, TwinOfSwappable, PairFacts
      <4>2. CASE \A k \in DOMAIN SwapList : ~ (original[m] \in Pair(k) /\ Swappable(k))
        BY <2>3, <4>2, TwinOfOther
      <4> QED
        BY <4>1, <4>2
    <3>2. pentries'[m] = pentries[m]
      BY <1>2, <1>4, <2>1, <2>3, <3>1
    <3>3. Done(original[m])' <=> Done(original[m])
      BY <1>1, <1>3, <2>3, DoneNext
    <3> QED
      BY <3>2, <3>3 DEF SwapIInv, PartlySwapped
  <2> QED
    BY <2>2, <2>3
<1>10. FoundSoFar'
  <2>1. Swappable(i)
    BY <1>1
  <2>2. \A k : Swappable(k)' <=> Swappable(k)
    BY <1>3 DEF Swappable, IsIn
  <2>3. i \in 1 .. i' - 1
    BY <1>1, <1>3, ArrayFacts DEF SwapIInv
  <2> QED
    BY <1>3, <2>1, <2>2, <2>3 DEF FoundSoFar
<1> QED
  BY <1>5, <1>6, <1>7, <1>8, <1>9, <1>10 DEF SwapIInv

\* Every iteration of every call keeps the invariant: what the array holds is
\* determined by the pairs that were gone through and the parity of the call.
THEOREM SwapInvariance == SwapSpec => []SwapIInv
<1>1. SwapInit => SwapIInv
  BY SwapInitIInv
<1>2. SwapIInv /\ [SwapNext]_swapVars => SwapIInv'
  <2> SUFFICES ASSUME SwapIInv, [SwapNext]_swapVars
               PROVE  SwapIInv'
    OBVIOUS
  <2>1. CASE UNCHANGED swapVars
    <3>1. /\ original' = original /\ pentries' = pentries /\ calls' = calls /\ i' = i
          /\ backup_not_found' = backup_not_found
      BY <2>1 DEF swapVars
    <3>2. SwapTypeOK' /\ Distinct'
      BY <3>1 DEF SwapIInv, SwapTypeOK, Distinct
    <3>3. NothingLost' /\ NothingNew'
      BY <3>1 DEF SwapIInv, NothingLost, NothingNew, IsIn
    <3>4. PartlySwapped'
      BY <3>1 DEF SwapIInv, PartlySwapped, Done
    <3>5. FoundSoFar'
      BY <3>1 DEF SwapIInv, FoundSoFar, Swappable, IsIn
    <3> QED
      BY <3>2, <3>3, <3>4, <3>5 DEF SwapIInv
  <2> QED
    BY <2>1, CallIInv, ContinueIInv, ExchangeIInv DEF SwapNext
<1> QED
  BY <1>1, <1>2, PTL DEF SwapSpec

-----------------------------------------------------------------------------
(* The properties.                                                          *)

\* Every variable keeps its type, the entries array its length.
THEOREM SwapTypeCorrect == SwapSpec => []SwapTypeOK
<1>1. SwapIInv => SwapTypeOK
  BY DEF SwapIInv
<1> QED
  BY <1>1, SwapInvariance, PTL

\* The memcpys of an iteration never lose an entry of the array.
THEOREM KeepsEntries == SwapSpec => []NothingLost
<1>1. SwapIInv => NothingLost
  BY DEF SwapIInv
<1> QED
  BY <1>1, SwapInvariance, PTL

\* Whatever the order of the entries, an odd call leaves exactly the pairs
\* that have a backup exchanged, and an even call restores the array.
THEOREM SwapsExactlyThePairs == SwapSpec => []ExchangesPairs
<1>1. ASSUME SwapIInv, ~ Looping
      PROVE  pentries = IF calls % 2 = 1 THEN Swapped(original) ELSE original
  <2>1. i = Len(SwapList) + 1
    BY <1>1, ArrayFacts DEF SwapIInv, SwapTypeOK, Looping
  <2>2. \A m \in DOMAIN original :
          pentries[m] = IF calls % 2 = 1 THEN Twin(original, m) ELSE original[m]
    <3> TAKE m \in DOMAIN original
    <3>1. CASE Done(original[m])
      BY <1>1, <3>1 DEF SwapIInv, PartlySwapped
    <3>2. CASE ~ Done(original[m])
      <4>1. \A k \in DOMAIN SwapList : original[m] \notin Pair(k)
        BY <1>1, <2>1, <3>2, ArrayFacts DEF SwapIInv, Done
      <4>2. Twin(original, m) = original[m]
        BY <4>1, TwinOfOther
      <4> QED
        BY <1>1, <4>2 DEF SwapIInv, PartlySwapped
    <3> QED
      BY <3>1, <3>2
  <2>3. original \in Seq(Name) /\ pentries \in Seq(Name) /\ Len(pentries) = Len(original)
    BY <1>1 DEF SwapIInv, SwapTypeOK
  <2>4. CASE calls % 2 = 1
    <3>1. pentries = [m \in DOMAIN original |-> Twin(original, m)]
      BY <2>2, <2>3, <2>4
    <3> QED
      BY <2>4, <3>1 DEF Swapped
  <2>5. CASE calls % 2 # 1
    BY <2>2, <2>3, <2>5, SeqEqual
  <2> QED
    BY <2>4, <2>5
<1>2. SwapIInv => ExchangesPairs
  BY <1>1 DEF ExchangesPairs
<1> QED
  BY <1>2, SwapInvariance, PTL

\* What a call returns tells whether there was a pair to exchange.
THEOREM ReturnsIfNone == SwapSpec => []TellsIfNone
<1>1. ASSUME SwapIInv, ~ Looping, calls > 0
      PROVE  backup_not_found = 1 <=> Swapped(original) = original
  <2>1. i = Len(SwapList) + 1
    BY <1>1, ArrayFacts DEF SwapIInv, SwapTypeOK, Looping
  <2>2. backup_not_found = 0 <=> \E k \in DOMAIN SwapList : Swappable(k)
    <3>1. \A k : k \in 1 .. i - 1 <=> k \in DOMAIN SwapList
      BY <1>1, <2>1, ArrayFacts DEF SwapIInv
    <3> QED
      BY <1>1, <3>1 DEF SwapIInv, FoundSoFar
  <2>3. ASSUME NEW k \in DOMAIN SwapList, Swappable(k)
        PROVE  Swapped(original) # original
    <3>1. PICK m \in DOMAIN original : original[m] = SwapList[k]
      BY <2>3 DEF Swappable, Pair, IsIn
    <3>2. Twin(original, m) # original[m]
      BY <2>3, <3>1, TwinOfSwappable DEF Pair
    <3>3. Swapped(original)[m] # original[m]
      BY <3>2 DEF Swapped
    <3> QED
      BY <3>3
  <2>4. ASSUME \A k \in DOMAIN SwapList : ~ Swappable(k)
        PROVE  Swapped(original) = original
    <3>1. \A m \in DOMAIN original : Twin(original, m) = original[m]
      BY <2>4, TwinOfOther
    <3>2. original = [m \in DOMAIN original |-> original[m]]
      BY <1>1 DEF SwapIInv, SwapTypeOK
    <3> QED
      BY <3>1, <3>2 DEF Swapped
  <2>5. backup_not_found \in {0, 1}
    BY <1>1 DEF SwapIInv, SwapTypeOK
  <2> QED
    BY <2>2, <2>3, <2>4, <2>5
<1>2. SwapIInv => TellsIfNone
  BY <1>1 DEF TellsIfNone
<1> QED
  BY <1>2, SwapInvariance, PTL

\* No iteration of gpt_boot_chain_swap loses an entry, a call exchanges exactly
\* the pairs that have a backup, and its result tells whether there are any.
THEOREM SwapIsCorrect == SwapSpec => []SwapCorrect
<1>1. NothingLost /\ ExchangesPairs /\ TellsIfNone => SwapCorrect
  BY DEF SwapCorrect
<1> QED
  BY <1>1, KeepsEntries, SwapsExactlyThePairs, ReturnsIfNone, PTL

-----------------------------------------------------------------------------
(* GptDisk: DiskIInv is inductive.  Each part of it is proved by a lemma of *)
(* its own, one step per action, from the parts before it.                  *)

USE DEF gptFlash, Places, Reading, Writing

-----------------------------------------------------------------------------
(* Facts about the data.                                                    *)

\* A handle that may be used has all its headers and arrays.
Handle == [st : {"init"}, hdr : GptHeaders, hdrBak : GptHeaders, arr : PentryArrays,
          arrBak : PentryArrays]
LEMMA WholeHandle ==
    ASSUME DiskTypeOK, disk.st = "init"
    PROVE  disk \in Handle
  BY DEF DiskTypeOK, Handles, Handle

LEMMA LostTypes == Torn \in PentryArrays /\ LostHeader \in GptHeaders
  BY DEF PentryArrays, LostHeader, GptHeaders

LEMMA HeaderForms ==
    ASSUME NEW h \in GptHeaders, NEW s, NEW a
    PROVE  /\ h.crc \in BOOLEAN
           /\ [h EXCEPT !.sig = s] = [sig |-> s, crc |-> h.crc, ecrc |-> h.ecrc]
           /\ [h EXCEPT !.ecrc = a] = [sig |-> h.sig, crc |-> h.crc, ecrc |-> a]
<1>1. PICK t \in {"ok", "bad"}, b \in BOOLEAN, e \in PentryArrays :
         h = [sig |-> t, crc |-> b, ecrc |-> e]
  BY DEF GptHeaders
<1>2. [h EXCEPT !.sig = s] = [sig |-> s, crc |-> h.crc, ecrc |-> h.ecrc]
  BY <1>1
<1>3. [h EXCEPT !.ecrc = a] = [sig |-> h.sig, crc |-> h.crc, ecrc |-> a]
  BY <1>1
<1> QED
  BY <1>1, <1>2, <1>3

\* The boot chain swap of an array gives an array, a torn one only of a torn.
LEMMA OtherArray ==
    ASSUME NEW a \in PentryArrays
    PROVE  Other(a) \in PentryArrays /\ (a # Torn => Other(a) # Torn)
<1>1. CASE a = Torn
  BY <1>1, LostTypes DEF Other, Torn
<1>2. CASE a # Torn
  <2>1. a \in WholeArrays
    BY <1>2 DEF PentryArrays
  <2>2. PICK c \in {"main", "bak"}, e \in 0 .. MaxEdits : a = [chain |-> c, edit |-> e]
    BY <2>1 DEF WholeArrays
  <2>3. CASE c = "main"
    BY <2>2, <2>3 DEF Other, PentryArrays, WholeArrays, Torn
  <2>4. CASE c = "bak"
    BY <2>2, <2>4 DEF Other, PentryArrays, WholeArrays, Torn
  <2> QED
    BY <2>3, <2>4
<1> QED
  BY <1>1, <1>2

LEMMA EditedArray ==
    ASSUME NEW a \in PentryArrays, edits \in 0 .. MaxEdits, edits < MaxEdits
    PROVE  Edited(a) \in PentryArrays /\ (a # Torn => Edited(a) # Torn)
<1>1. CASE a = Torn
  BY <1>1, LostTypes DEF Edited
<1>2. CASE a # Torn
  <2>1. PICK c \in {"main", "bak"}, e \in 0 .. MaxEdits : a = [chain |-> c, edit |-> e]
    BY <1>2 DEF PentryArrays, WholeArrays
  <2>2. Edited(a) = [chain |-> c, edit |-> edits + 1]
    BY <1>2, <2>1 DEF Edited
  <2>3. edits + 1 \in 0 .. MaxEdits
    BY DiskAssumption
  <2> QED
    BY <2>2, <2>3 DEF PentryArrays, WholeArrays, Torn
<1> QED
  BY <1>1, <1>2

\* What each completed stage leaves.
LEMMA AfterMain ==
    ASSUME DiskTypeOK, StageMain
    PROVE  /\ header' \in [Places -> GptHeaders]
           /\ entriesOf' \in [Places -> PentryArrays]
           /\ header'["prim"] = [sig |-> "bad", crc |-> TRUE, ecrc |-> entriesOf["prim"]]
           /\ header'["sec"] = [sig |-> "ok", crc |-> TRUE, ecrc |-> Other(entriesOf["prim"])]
           /\ entriesOf'["prim"] = entriesOf["prim"]
           /\ entriesOf'["sec"] = Other(entriesOf["prim"])
           /\ header["prim"].crc /\ header["prim"].ecrc = entriesOf["prim"]
           /\ header["prim"].sig = "ok" /\ header["sec"].sig = "ok"
<1> DEFINE bak == Other(entriesOf["prim"])
<1>1. header["prim"] \in GptHeaders /\ header["sec"] \in GptHeaders /\ entriesOf["prim"] \in PentryArrays
  BY DEF DiskTypeOK
<1>2. bak \in PentryArrays
  BY <1>1, OtherArray
<1>3. /\ header["prim"].crc /\ header["sec"].crc
      /\ header["prim"].sig = "ok" /\ header["sec"].sig = "ok"
      /\ header["prim"].ecrc = entriesOf["prim"]
  BY <1>1 DEF StageMain, StateOf, ArrayCrcGood, GptHeaders
<1>4. /\ header' = [prim |-> [header["prim"] EXCEPT !.sig = "bad"],
                    sec  |-> [header["sec"] EXCEPT !.ecrc = bak]]
      /\ entriesOf' = [entriesOf EXCEPT !["sec"] = bak]
  BY DEF StageMain
<1>5. /\ [header["prim"] EXCEPT !.sig = "bad"]
             = [sig |-> "bad", crc |-> TRUE, ecrc |-> entriesOf["prim"]]
      /\ [header["sec"] EXCEPT !.ecrc = bak] = [sig |-> "ok", crc |-> TRUE, ecrc |-> bak]
  <2>1. /\ header["prim"].crc = TRUE /\ header["sec"].crc = TRUE
    BY <1>1, <1>3, HeaderForms
  <2>2. [header["prim"] EXCEPT !.sig = "bad"]
           = [sig |-> "bad", crc |-> header["prim"].crc, ecrc |-> header["prim"].ecrc]
    BY <1>1, HeaderForms
  <2>3. [header["sec"] EXCEPT !.ecrc = bak]
           = [sig |-> header["sec"].sig, crc |-> header["sec"].crc, ecrc |-> bak]
    BY <1>1, HeaderForms
  <2> QED
    BY <1>3, <2>1, <2>2, <2>3
<1>6. header'["prim"] \in GptHeaders /\ header'["sec"] \in GptHeaders
  BY <1>1, <1>2, <1>4, <1>5 DEF GptHeaders
<1>7. header' \in [Places -> GptHeaders]
  BY <1>4, <1>6
<1>8. entriesOf' \in [Places -> PentryArrays]
  BY <1>2, <1>4 DEF DiskTypeOK
<1> QED
  BY <1>3, <1>4, <1>5, <1>7, <1>8 DEF DiskTypeOK

LEMMA AfterBackup ==
    ASSUME DiskTypeOK, StageBackup
    PROVE  /\ header' \in [Places -> GptHeaders]
           /\ entriesOf' = entriesOf
           /\ header'["prim"] = [sig |-> "ok", crc |-> TRUE, ecrc |-> header["prim"].ecrc]
           /\ header'["sec"] = [sig |-> "bad", crc |-> TRUE, ecrc |-> header["sec"].ecrc]
           /\ header["prim"].crc /\ header["prim"].sig = "bad" /\ header["sec"].crc
<1>1. header["prim"] \in GptHeaders /\ header["sec"] \in GptHeaders
  BY DEF DiskTypeOK
<1>2. header["prim"].crc /\ header["prim"].sig = "bad" /\ header["sec"].crc
  BY <1>1 DEF StageBackup, StateOf, GptHeaders
<1>3. /\ header' = [prim |-> [header["prim"] EXCEPT !.sig = "ok"],
                    sec  |-> [header["sec"] EXCEPT !.sig = "bad"]]
      /\ entriesOf' = entriesOf
  BY DEF StageBackup
<1>4. /\ [header["prim"] EXCEPT !.sig = "ok"]
             = [sig |-> "ok", crc |-> TRUE, ecrc |-> header["prim"].ecrc]
      /\ [header["sec"] EXCEPT !.sig = "bad"]
             = [sig |-> "bad", crc |-> TRUE, ecrc |-> header["sec"].ecrc]
  <2>1. header["prim"].crc = TRUE /\ header["sec"].crc = TRUE
    BY <1>1, <1>2, HeaderForms
  <2>2. [header["prim"] EXCEPT !.sig = "ok"]
           = [sig |-> "ok", crc |-> header["prim"].crc, ecrc |-> header["prim"].ecrc]
    BY <1>1, HeaderForms
  <2>3. [header["sec"] EXCEPT !.sig = "bad"]
           = [sig |-> "bad", crc |-> header["sec"].crc, ecrc |-> header["sec"].ecrc]
    BY <1>1, HeaderForms
  <2> QED
    BY <2>1, <2>2, <2>3
<1>5. header'["prim"] \in GptHeaders /\ header'["sec"] \in GptHeaders
  BY <1>1, <1>3, <1>4 DEF GptHeaders
<1> QED
  BY <1>2, <1>3, <1>4, <1>5

\* New CRCs and an edit change of a handle what they are meant to.
LEMMA AfterUpdateCrc ==
    ASSUME DiskTypeOK, UpdateCrc
    PROVE  /\ disk' \in Handle
           /\ disk'.hdr = [sig |-> disk.hdr.sig, crc |-> TRUE, ecrc |-> disk.arr]
           /\ disk'.arr = disk.arr
<1>1. disk \in Handle
  BY WholeHandle DEF UpdateCrc, Usable
<1>2. /\ disk.hdr \in GptHeaders /\ disk.hdrBak \in GptHeaders
      /\ disk.arr \in PentryArrays /\ disk.arrBak \in PentryArrays
  BY <1>1 DEF Handle
<1>3. /\ WithCrcs(disk.hdr, disk.arr)
             = [sig |-> disk.hdr.sig, crc |-> TRUE, ecrc |-> disk.arr]
      /\ WithCrcs(disk.hdr, disk.arr) \in GptHeaders
      /\ WithCrcs(disk.hdrBak, disk.arrBak)
             = [sig |-> disk.hdrBak.sig, crc |-> TRUE, ecrc |-> disk.arrBak]
      /\ WithCrcs(disk.hdrBak, disk.arrBak) \in GptHeaders
  <2>1. /\ WithCrcs(disk.hdr, disk.arr)
               = [sig |-> disk.hdr.sig, crc |-> TRUE, ecrc |-> disk.arr]
        /\ WithCrcs(disk.hdrBak, disk.arrBak)
               = [sig |-> disk.hdrBak.sig, crc |-> TRUE, ecrc |-> disk.arrBak]
    BY DEF WithCrcs
  <2> QED
    BY <1>2, <2>1 DEF GptHeaders
<1>4. disk' = [st |-> "init", hdr |-> WithCrcs(disk.hdr, disk.arr),
               hdrBak |-> WithCrcs(disk.hdrBak, disk.arrBak),
               arr |-> disk.arr, arrBak |-> disk.arrBak]
  BY <1>1 DEF UpdateCrc, Handle
<1> QED
  BY <1>2, <1>3, <1>4 DEF Handle

LEMMA AfterEdit ==
    ASSUME DiskTypeOK, NEW instance \in Places, EditPentry(instance)
    PROVE  /\ disk' \in Handle
           /\ disk'.hdr = disk.hdr
           /\ disk.arr # Torn => disk'.arr # Torn
           /\ ~ past'.crcs
<1>1. disk \in Handle
  BY WholeHandle DEF EditPentry, Usable
<1>2. disk.arr \in PentryArrays /\ disk.arrBak \in PentryArrays
  BY <1>1 DEF Handle
<1>3. edits \in 0 .. MaxEdits /\ edits < MaxEdits
  BY DEF EditPentry, DiskTypeOK
<1>4. /\ Edited(disk.arr) \in PentryArrays /\ Edited(disk.arrBak) \in PentryArrays
      /\ disk.arr # Torn => Edited(disk.arr) # Torn
  BY <1>2, <1>3, EditedArray
<1>5. disk' \in {[disk EXCEPT !.arr = Edited(disk.arr)], [disk EXCEPT !.arrBak = Edited(disk.arrBak)]}
  BY DEF EditPentry
<1>6. ~ past'.crcs
  BY DEF EditPentry, DiskTypeOK
<1> QED
  BY <1>1, <1>4, <1>5, <1>6 DEF Handle

-----------------------------------------------------------------------------
(* The parts of the invariant.                                              *)

\* Every step keeps the types.
LEMMA DiskTypeStep ==
    ASSUME DiskTypeOK, ShapeInv, DiskNext
    PROVE  DiskTypeOK'
<1>1. CASE DiskAlloc
  BY <1>1, LostTypes, DiskAssumption DEF DiskAlloc, NoPast, DiskTypeOK,
     GptHeaders, Handles, ShapeInv
<1>2. CASE DiskFree
  BY <1>2, LostTypes, DiskAssumption DEF DiskFree, DiskTypeOK, GptHeaders,
     Handles, ShapeInv
<1>3. CASE ReadHeader
  BY <1>3, LostTypes, DiskAssumption DEF ReadHeader, HeaderRead, DiskTypeOK,
     GptHeaders, Handles, ShapeInv
<1>4. CASE ReadBackupHeader
  BY <1>4, LostTypes, DiskAssumption DEF ReadBackupHeader, ReadsOn,
     DiskTypeOK, GptHeaders, Handles, ShapeInv
<1>5. CASE ReadPentries
  BY <1>5, LostTypes, DiskAssumption DEF ReadPentries, ReadsOn, DiskTypeOK,
     GptHeaders, Handles, ShapeInv
<1>6. CASE ReadBackupPentries
  BY <1>6, LostTypes, DiskAssumption DEF ReadBackupPentries, ReadsOn,
     DiskTypeOK, GptHeaders, Handles, ShapeInv
<1>7. CASE InfoFails
  BY <1>7, LostTypes, DiskAssumption DEF InfoFails, Uninitialized, DiskTypeOK,
     GptHeaders, Handles, ShapeInv
<1>8. ASSUME NEW instance \in Places, EditPentry(instance)
      PROVE  DiskTypeOK'
  <2>1. disk' \in Handles
    BY <1>8, AfterEdit DEF Handle, Handles
  <2>2. /\ UNCHANGED <<header, entriesOf, diskPc>> /\ diskPc = "idle" /\ rc' = "none"
        /\ edits' = edits + 1 /\ edits < MaxEdits
    BY <1>8 DEF EditPentry, Usable
  <2>3. past' \in [stale : BOOLEAN, damaged : BOOLEAN, crcs : BOOLEAN, harmed : BOOLEAN]
    BY <1>8 DEF EditPentry, DiskTypeOK
  <2>4. edits' \in 0 .. MaxEdits
    BY <2>2, DiskAssumption DEF DiskTypeOK
  <2> QED
    BY <2>1, <2>2, <2>3, <2>4 DEF DiskTypeOK
<1>9. CASE UpdateCrc
  BY <1>9, LostTypes, DiskAssumption DEF UpdateCrc, Usable, WithCrcs,
     DiskTypeOK, GptHeaders, Handles, ShapeInv
<1>10. CASE DiskCommit
  BY <1>10, LostTypes, DiskAssumption DEF DiskCommit, Usable, UnderWay,
     StateOf, DiskTypeOK, GptHeaders, Handles, ShapeInv
<1>11. CASE WriteDiskHeader
  BY <1>11, LostTypes, DiskAssumption DEF WriteDiskHeader, SetHeader,
     HeaderPlace, DiskTypeOK, GptHeaders, Handles, ShapeInv
<1>12. CASE WriteDiskPentries
  BY <1>12, LostTypes, DiskAssumption DEF WriteDiskPentries, SetPentries,
     DiskTypeOK, GptHeaders, Handles, ShapeInv
<1>13. CASE CommitFails
  BY <1>13, LostTypes, DiskAssumption DEF CommitFails, InterruptedCommit,
     SetHeader, HeaderPlace, SetPentries, DiskTypeOK, GptHeaders, Handles,
     ShapeInv
<1>14. CASE DiskPowerLoss
  BY <1>14, LostTypes, DiskAssumption DEF DiskPowerLoss, InterruptedCommit,
     SetHeader, HeaderPlace, SetPentries, DiskTypeOK, GptHeaders, Handles,
     ShapeInv
<1>15. CASE StageMain
  <2>1. UNCHANGED <<disk, diskPc, edits>> /\ rc' = "none"
    BY <1>15 DEF StageMain, Stage
  <2>2. past' = [past EXCEPT !.stale = TRUE, !.harmed = @ \/ diskPc \in Writing]
    BY <1>15 DEF StageMain, Stage
  <2>3. entriesOf["prim"] \in PentryArrays
    BY DEF DiskTypeOK, DiskIInv
  <2> QED
    BY <1>15, <2>1, <2>2, <2>3, AfterMain, OtherArray DEF DiskTypeOK
<1>16. CASE StageBackup
  <2>1. UNCHANGED <<disk, diskPc, edits>> /\ rc' = "none"
    BY <1>16 DEF StageBackup, Stage
  <2>2. past' = [past EXCEPT !.stale = TRUE, !.harmed = @ \/ diskPc \in Writing]
    BY <1>16 DEF StageBackup, Stage
  <2> QED
    BY <1>16, <2>1, <2>2, AfterBackup DEF DiskTypeOK
<1>17. CASE StageFinalize
  <2>1. UNCHANGED <<disk, diskPc, edits>> /\ rc' = "none"
    BY <1>17 DEF StageFinalize, Stage
  <2>2. past' = [past EXCEPT !.stale = TRUE, !.harmed = @ \/ diskPc \in Writing]
    BY <1>17 DEF StageFinalize, Stage
  <2>3. PICK h \in GptHeaders, a \in PentryArrays : h = header["sec"] /\ a = entriesOf["prim"]
    BY DEF DiskTypeOK
  <2>4. /\ header' = [header EXCEPT !["sec"] = [sig |-> "ok", crc |-> h.crc, ecrc |-> a]]
        /\ entriesOf' = [entriesOf EXCEPT !["sec"] = a]
    <3>1. header' = [header EXCEPT !["sec"] = [[@ EXCEPT !.sig = "ok"] EXCEPT !.ecrc = a]]
      BY <1>17, <2>3 DEF StageFinalize
    <3>2. [[h EXCEPT !.sig = "ok"] EXCEPT !.ecrc = a] = [sig |-> "ok", crc |-> h.crc, ecrc |-> a]
      <4>1. [h EXCEPT !.sig = "ok"] = [sig |-> "ok", crc |-> h.crc, ecrc |-> h.ecrc]
        BY HeaderForms
      <4>2. h.crc \in BOOLEAN /\ h.ecrc \in PentryArrays
        BY DEF GptHeaders
      <4>3. PICK g \in GptHeaders : g = [sig |-> "ok", crc |-> h.crc, ecrc |-> h.ecrc]
        BY <4>2 DEF GptHeaders
      <4>4. [g EXCEPT !.ecrc = a] = [sig |-> g.sig, crc |-> g.crc, ecrc |-> a]
        BY HeaderForms
      <4>5. g.sig = "ok" /\ g.crc = h.crc
        BY <4>3
      <4> QED
        BY <4>1, <4>3, <4>4, <4>5
    <3>3. header' = [header EXCEPT !["sec"] = [[h EXCEPT !.sig = "ok"] EXCEPT !.ecrc = a]]
      BY <2>3, <3>1
    <3> QED
      BY <1>17, <2>3, <3>2, <3>3 DEF StageFinalize
  <2>5. [sig |-> "ok", crc |-> h.crc, ecrc |-> a] \in GptHeaders
    BY DEF GptHeaders
  <2>6. header' \in [Places -> GptHeaders] /\ entriesOf' \in [Places -> PentryArrays]
    BY <2>4, <2>5 DEF DiskTypeOK
  <2> QED
    BY <2>1, <2>2, <2>6 DEF DiskTypeOK
<1> QED
  BY <1>1, <1>2, <1>3, <1>4, <1>5, <1>6, <1>7, <1>8, <1>9, <1>10, <1>11,
     <1>12, <1>13, <1>14, <1>15, <1>16, <1>17 DEF DiskNext, GetDiskInfo,
     CommitStep

\* A handle is filled step by step.
LEMMA ShapeStep ==
    ASSUME DiskTypeOK, ShapeInv, DiskNext
    PROVE  ShapeInv'
<1>1. CASE DiskAlloc
  BY <1>1 DEF DiskAlloc, NoPast, DiskTypeOK, ShapeInv
<1>2. CASE DiskFree
  BY <1>2 DEF DiskFree, DiskTypeOK, ShapeInv
<1>3. CASE ReadHeader
  BY <1>3 DEF ReadHeader, HeaderRead, DiskTypeOK, ShapeInv
<1>4. CASE ReadBackupHeader
  BY <1>4 DEF ReadBackupHeader, ReadsOn, DiskTypeOK, ShapeInv
<1>5. CASE ReadPentries
  BY <1>5 DEF ReadPentries, ReadsOn, DiskTypeOK, ShapeInv
<1>6. CASE ReadBackupPentries
  BY <1>6 DEF ReadBackupPentries, ReadsOn, DiskTypeOK, ShapeInv
<1>7. CASE InfoFails
  BY <1>7 DEF InfoFails, Uninitialized, DiskTypeOK, ShapeInv
<1>8. ASSUME NEW instance \in Places, EditPentry(instance)
      PROVE  ShapeInv'
  BY <1>8 DEF EditPentry, Usable, Edited, DiskTypeOK, ShapeInv
<1>9. CASE UpdateCrc
  BY <1>9 DEF UpdateCrc, Usable, WithCrcs, DiskTypeOK, ShapeInv
<1>10. CASE DiskCommit
  BY <1>10 DEF DiskCommit, Usable, UnderWay, StateOf, DiskTypeOK, ShapeInv
<1>11. CASE WriteDiskHeader
  BY <1>11 DEF WriteDiskHeader, SetHeader, HeaderPlace, DiskTypeOK, ShapeInv
<1>12. CASE WriteDiskPentries
  BY <1>12 DEF WriteDiskPentries, SetPentries, DiskTypeOK, ShapeInv
<1>13. CASE CommitFails
  BY <1>13 DEF CommitFails, InterruptedCommit, SetHeader, HeaderPlace,
     SetPentries, DiskTypeOK, ShapeInv
<1>14. CASE DiskPowerLoss
  BY <1>14 DEF DiskPowerLoss, InterruptedCommit, SetHeader, HeaderPlace,
     SetPentries, DiskTypeOK, ShapeInv
<1>15. CASE StageMain
  BY <1>15 DEF StageMain, Stage, StateOf, ArrayCrcGood, DiskTypeOK, ShapeInv
<1>16. CASE StageBackup
  BY <1>16 DEF StageBackup, Stage, StateOf, DiskTypeOK, ShapeInv
<1>17. CASE StageFinalize
  BY <1>17 DEF StageFinalize, Stage, StateOf, ArrayCrcGood, DiskTypeOK,
     ShapeInv
<1> QED
  BY <1>1, <1>2, <1>3, <1>4, <1>5, <1>6, <1>7, <1>8, <1>9, <1>10, <1>11,
     <1>12, <1>13, <1>14, <1>15, <1>16, <1>17 DEF DiskNext, GetDiskInfo,
     CommitStep

\* No commit touches the secondary GPT.
LEMMA SecondaryStep ==
    ASSUME DiskTypeOK, ShapeInv, SecondaryInv, HandleInv, DiskNext
    PROVE  SecondaryInv'
<1>1. CASE DiskAlloc
  BY <1>1, LostTypes DEF DiskAlloc, NoPast, DiskTypeOK, SecondaryInv,
     ShapeInv, ArrayCrcGood
<1>2. CASE DiskFree
  BY <1>2, LostTypes DEF DiskFree, DiskTypeOK, SecondaryInv, ShapeInv,
     ArrayCrcGood
<1>3. CASE ReadHeader
  BY <1>3, LostTypes DEF ReadHeader, HeaderRead, DiskTypeOK, SecondaryInv,
     ShapeInv, ArrayCrcGood
<1>4. CASE ReadBackupHeader
  BY <1>4, LostTypes DEF ReadBackupHeader, ReadsOn, DiskTypeOK, SecondaryInv,
     ShapeInv, ArrayCrcGood
<1>5. CASE ReadPentries
  BY <1>5, LostTypes DEF ReadPentries, ReadsOn, DiskTypeOK, SecondaryInv,
     ShapeInv, ArrayCrcGood
<1>6. CASE ReadBackupPentries
  BY <1>6, LostTypes DEF ReadBackupPentries, ReadsOn, DiskTypeOK,
     SecondaryInv, ShapeInv, ArrayCrcGood
<1>7. CASE InfoFails
  BY <1>7, LostTypes DEF InfoFails, Uninitialized, DiskTypeOK, SecondaryInv,
     ShapeInv, ArrayCrcGood
<1>8. ASSUME NEW instance \in Places, EditPentry(instance)
      PROVE  SecondaryInv'
  BY <1>8, LostTypes DEF EditPentry, Usable, Edited, DiskTypeOK, SecondaryInv,
     ShapeInv, ArrayCrcGood
<1>9. CASE UpdateCrc
  BY <1>9, LostTypes DEF UpdateCrc, Usable, WithCrcs, DiskTypeOK,
     SecondaryInv, ShapeInv, ArrayCrcGood
<1>10. CASE DiskCommit
  BY <1>10, LostTypes DEF DiskCommit, Usable, UnderWay, StateOf, DiskTypeOK,
     SecondaryInv, ShapeInv, ArrayCrcGood
<1>11. CASE WriteDiskHeader
  BY <1>11 DEF WriteDiskHeader, SetHeader, HeaderPlace, DiskTypeOK,
     SecondaryInv, ArrayCrcGood, HandleInv, HasHeader
<1>12. CASE WriteDiskPentries
  BY <1>12, LostTypes DEF WriteDiskPentries, SetPentries, DiskTypeOK,
     SecondaryInv, ShapeInv, ArrayCrcGood
<1>13. CASE CommitFails
  BY <1>13, LostTypes DEF CommitFails, InterruptedCommit, SetHeader,
     HeaderPlace, SetPentries, DiskTypeOK, SecondaryInv, ShapeInv,
     ArrayCrcGood
<1>14. CASE DiskPowerLoss
  BY <1>14, LostTypes DEF DiskPowerLoss, InterruptedCommit, SetHeader,
     HeaderPlace, SetPentries, DiskTypeOK, SecondaryInv, ShapeInv,
     ArrayCrcGood
<1>15. CASE StageMain
  <2>1. UNCHANGED <<disk, diskPc, edits>> /\ rc' = "none"
    BY <1>15 DEF StageMain, Stage
  <2>2. past' = [past EXCEPT !.stale = TRUE, !.harmed = @ \/ diskPc \in Writing]
    BY <1>15 DEF StageMain, Stage
  <2>3. entriesOf["prim"] \in PentryArrays
    BY DEF DiskTypeOK, DiskIInv
  <2> QED
    BY <1>15, <2>1, <2>2, <2>3, AfterMain, OtherArray DEF SecondaryInv,
       ArrayCrcGood
<1>16. CASE StageBackup
  <2>1. UNCHANGED <<disk, diskPc, edits>> /\ rc' = "none"
    BY <1>16 DEF StageBackup, Stage
  <2>2. past' = [past EXCEPT !.stale = TRUE, !.harmed = @ \/ diskPc \in Writing]
    BY <1>16 DEF StageBackup, Stage
  <2> QED
    BY <1>16, <2>1, <2>2, AfterBackup DEF SecondaryInv, ArrayCrcGood
<1>17. CASE StageFinalize
  BY <1>17, LostTypes DEF StageFinalize, Stage, StateOf, ArrayCrcGood,
     DiskTypeOK, SecondaryInv, ShapeInv
<1> QED
  BY <1>1, <1>2, <1>3, <1>4, <1>5, <1>6, <1>7, <1>8, <1>9, <1>10, <1>11,
     <1>12, <1>13, <1>14, <1>15, <1>16, <1>17 DEF DiskNext, GetDiskInfo,
     CommitStep

\* An update spoils one GPT only while the other is intact.
LEMMA FlashStep ==
    ASSUME DiskIInv, DiskNext
    PROVE  FlashInv'
<1>1. CASE DiskAlloc
  BY <1>1, LostTypes DEF DiskAlloc, NoPast, DiskIInv, DiskTypeOK, ShapeInv,
     SecondaryInv, FlashInv, CommitInv, Accepted, ArrayCrcGood, StateOf
<1>2. CASE DiskFree
  BY <1>2, LostTypes DEF DiskFree, DiskIInv, DiskTypeOK, ShapeInv,
     SecondaryInv, FlashInv, CommitInv, Accepted, ArrayCrcGood, StateOf
<1>3. CASE ReadHeader
  BY <1>3, LostTypes DEF ReadHeader, HeaderRead, DiskIInv, DiskTypeOK,
     ShapeInv, SecondaryInv, FlashInv, CommitInv, Accepted, ArrayCrcGood,
     StateOf
<1>4. CASE ReadBackupHeader
  BY <1>4, LostTypes DEF ReadBackupHeader, ReadsOn, DiskIInv, DiskTypeOK,
     ShapeInv, SecondaryInv, FlashInv, CommitInv, Accepted, ArrayCrcGood,
     StateOf
<1>5. CASE ReadPentries
  BY <1>5, LostTypes DEF ReadPentries, ReadsOn, DiskIInv, DiskTypeOK,
     ShapeInv, SecondaryInv, FlashInv, CommitInv, Accepted, ArrayCrcGood,
     StateOf
<1>6. CASE ReadBackupPentries
  BY <1>6, LostTypes DEF ReadBackupPentries, ReadsOn, DiskIInv, DiskTypeOK,
     ShapeInv, SecondaryInv, FlashInv, CommitInv, Accepted, ArrayCrcGood,
     StateOf
<1>7. CASE InfoFails
  BY <1>7, LostTypes DEF InfoFails, Uninitialized, DiskIInv, DiskTypeOK,
     ShapeInv, SecondaryInv, FlashInv, CommitInv, Accepted, ArrayCrcGood,
     StateOf
<1>8. ASSUME NEW instance \in Places, EditPentry(instance)
      PROVE  FlashInv'
  BY <1>8, LostTypes DEF EditPentry, Usable, Edited, DiskIInv, DiskTypeOK,
     ShapeInv, SecondaryInv, FlashInv, CommitInv, Accepted, ArrayCrcGood,
     StateOf
<1>9. CASE UpdateCrc
  BY <1>9, LostTypes DEF UpdateCrc, Usable, WithCrcs, DiskIInv, DiskTypeOK,
     ShapeInv, SecondaryInv, FlashInv, CommitInv, Accepted, ArrayCrcGood,
     StateOf
<1>10. CASE DiskCommit
  BY <1>10, LostTypes DEF DiskCommit, Usable, UnderWay, StateOf, DiskIInv,
     DiskTypeOK, ShapeInv, SecondaryInv, FlashInv, CommitInv, Accepted,
     ArrayCrcGood
<1>11. CASE WriteDiskHeader
  BY <1>11 DEF WriteDiskHeader, SetHeader, HeaderPlace, HandleInv, HasHeader,
     DiskIInv, DiskTypeOK, SecondaryInv, FlashInv, CommitInv, Accepted,
     ArrayCrcGood, StateOf
<1>12. CASE WriteDiskPentries
  BY <1>12, LostTypes DEF WriteDiskPentries, SetPentries, DiskIInv,
     DiskTypeOK, ShapeInv, SecondaryInv, FlashInv, CommitInv, Accepted,
     ArrayCrcGood, StateOf
<1>13. CASE CommitFails
  <2>1. CASE UNCHANGED <<header, entriesOf>>
    BY <1>13, <2>1 DEF CommitFails, DiskIInv, FlashInv, Accepted, ArrayCrcGood, StateOf
  <2>2. CASE diskPc = "header" /\ SetHeader(LostHeader)
    BY <1>13, <2>2 DEF CommitFails, SetHeader, HeaderPlace, DiskIInv,
       DiskTypeOK, SecondaryInv, FlashInv, CommitInv, Accepted, ArrayCrcGood,
       StateOf, LostHeader
  <2>3. CASE diskPc = "array" /\ SetPentries(Torn)
    BY <1>13, <2>3 DEF CommitFails, SetPentries, DiskIInv, DiskTypeOK,
       SecondaryInv, FlashInv, CommitInv, Accepted, ArrayCrcGood, StateOf
  <2> QED
    BY <1>13, <2>1, <2>2, <2>3 DEF CommitFails, InterruptedCommit
<1>14. CASE DiskPowerLoss
  <2>1. CASE UNCHANGED <<header, entriesOf>>
    BY <1>14, <2>1 DEF DiskPowerLoss, DiskIInv, FlashInv, Accepted, ArrayCrcGood, StateOf
  <2>2. CASE diskPc = "header" /\ SetHeader(LostHeader)
    BY <1>14, <2>2 DEF DiskPowerLoss, SetHeader, HeaderPlace, DiskIInv,
       DiskTypeOK, SecondaryInv, FlashInv, CommitInv, Accepted, ArrayCrcGood,
       StateOf, LostHeader
  <2>3. CASE diskPc = "array" /\ SetPentries(Torn)
    BY <1>14, <2>3 DEF DiskPowerLoss, SetPentries, DiskIInv, DiskTypeOK,
       SecondaryInv, FlashInv, CommitInv, Accepted, ArrayCrcGood, StateOf
  <2> QED
    BY <1>14, <2>1, <2>2, <2>3 DEF DiskPowerLoss, InterruptedCommit
<1>15. CASE StageMain
  <2>1. UNCHANGED <<disk, diskPc, edits>> /\ rc' = "none"
    BY <1>15 DEF StageMain, Stage
  <2>2. past' = [past EXCEPT !.stale = TRUE, !.harmed = @ \/ diskPc \in Writing]
    BY <1>15 DEF StageMain, Stage
  <2>3. entriesOf["prim"] \in PentryArrays
    BY DEF DiskTypeOK, DiskIInv
  <2> QED
    BY <1>15, <2>1, <2>2, <2>3, AfterMain, OtherArray DEF FlashInv, Accepted,
       ArrayCrcGood, StateOf, DiskIInv, DiskTypeOK, SecondaryInv
<1>16. CASE StageBackup
  <2>1. UNCHANGED <<disk, diskPc, edits>> /\ rc' = "none"
    BY <1>16 DEF StageBackup, Stage
  <2>2. past' = [past EXCEPT !.stale = TRUE, !.harmed = @ \/ diskPc \in Writing]
    BY <1>16 DEF StageBackup, Stage
  <2> QED
    BY <1>16, <2>1, <2>2, AfterBackup DEF FlashInv, Accepted, ArrayCrcGood,
       StateOf, DiskIInv, DiskTypeOK, SecondaryInv
<1>17. CASE StageFinalize
  BY <1>17, LostTypes DEF StageFinalize, Stage, StateOf, ArrayCrcGood,
     DiskIInv, DiskTypeOK, ShapeInv, SecondaryInv, FlashInv, CommitInv,
     Accepted
<1> QED
  BY <1>1, <1>2, <1>3, <1>4, <1>5, <1>6, <1>7, <1>8, <1>9, <1>10, <1>11,
     <1>12, <1>13, <1>14, <1>15, <1>16, <1>17 DEF DiskNext, GetDiskInfo,
     CommitStep

\* What a handle holds goes out of date only with a stage.
LEMMA HandleStep ==
    ASSUME DiskIInv, DiskNext
    PROVE  HandleInv'
<1>1. CASE DiskAlloc
  BY <1>1, LostTypes DEF DiskAlloc, NoPast, DiskIInv, DiskTypeOK, ShapeInv,
     SecondaryInv, FlashInv, HandleInv, CommitInv, HasHeader, HasArray
<1>2. CASE DiskFree
  BY <1>2, LostTypes DEF DiskFree, DiskIInv, DiskTypeOK, ShapeInv,
     SecondaryInv, FlashInv, HandleInv, CommitInv, HasHeader, HasArray
<1>3. CASE ReadHeader
  BY <1>3, LostTypes DEF ReadHeader, HeaderRead, DiskIInv, DiskTypeOK,
     ShapeInv, SecondaryInv, FlashInv, HandleInv, CommitInv, HasHeader,
     HasArray
<1>4. CASE ReadBackupHeader
  BY <1>4, LostTypes DEF ReadBackupHeader, ReadsOn, DiskIInv, DiskTypeOK,
     ShapeInv, SecondaryInv, FlashInv, HandleInv, CommitInv, HasHeader,
     HasArray
<1>5. CASE ReadPentries
  BY <1>5, LostTypes DEF ReadPentries, ReadsOn, DiskIInv, DiskTypeOK,
     ShapeInv, SecondaryInv, FlashInv, HandleInv, CommitInv, HasHeader,
     HasArray
<1>6. CASE ReadBackupPentries
  BY <1>6, LostTypes DEF ReadBackupPentries, ReadsOn, DiskIInv, DiskTypeOK,
     ShapeInv, SecondaryInv, FlashInv, HandleInv, CommitInv, HasHeader,
     HasArray
<1>7. CASE InfoFails
  BY <1>7, LostTypes DEF InfoFails, Uninitialized, DiskIInv, DiskTypeOK,
     ShapeInv, SecondaryInv, FlashInv, HandleInv, CommitInv, HasHeader,
     HasArray
<1>8. ASSUME NEW instance \in Places, EditPentry(instance)
      PROVE  HandleInv'
  <2>1. disk.st = "init" /\ diskPc = "idle" /\ UNCHANGED <<header, diskPc>>
    BY <1>8 DEF EditPentry, Usable
  <2>2. past' = [past EXCEPT !.crcs = FALSE]
    BY <1>8 DEF EditPentry
  <2> QED
    BY <1>8, <2>1, <2>2, AfterEdit DEF DiskIInv, DiskTypeOK, HandleInv,
       HasHeader, HasArray
<1>9. CASE UpdateCrc
  <2>1. disk.st = "init" /\ diskPc = "idle" /\ UNCHANGED <<header, diskPc>>
    BY <1>9 DEF UpdateCrc, Usable
  <2>2. past' = [past EXCEPT !.crcs = TRUE]
    BY <1>9 DEF UpdateCrc
  <2> QED
    BY <1>9, <2>1, <2>2, AfterUpdateCrc DEF DiskIInv, DiskTypeOK, HandleInv,
       HasHeader, HasArray
<1>10. CASE DiskCommit
  BY <1>10, LostTypes DEF DiskCommit, Usable, UnderWay, StateOf, DiskIInv,
     DiskTypeOK, ShapeInv, SecondaryInv, FlashInv, HandleInv, CommitInv,
     HasHeader, HasArray
<1>11. CASE WriteDiskHeader
  BY <1>11, LostTypes DEF WriteDiskHeader, SetHeader, HeaderPlace, DiskIInv,
     DiskTypeOK, ShapeInv, SecondaryInv, FlashInv, HandleInv, CommitInv,
     HasHeader, HasArray
<1>12. CASE WriteDiskPentries
  BY <1>12, LostTypes DEF WriteDiskPentries, SetPentries, DiskIInv,
     DiskTypeOK, ShapeInv, SecondaryInv, FlashInv, HandleInv, CommitInv,
     HasHeader, HasArray
<1>13. CASE CommitFails
  <2>1. disk.st = "init" /\ UNCHANGED <<disk, past>>
    BY <1>13 DEF CommitFails, DiskIInv, DiskTypeOK
  <2>2. CASE header' = header
    BY <1>13, <2>1, <2>2 DEF DiskIInv, DiskTypeOK, HandleInv, HasHeader,
       HasArray
  <2>3. CASE diskPc = "header" /\ header' = [header EXCEPT !["prim"] = LostHeader]
    BY <1>13, <2>1, <2>3 DEF DiskIInv, DiskTypeOK, HandleInv, HasHeader,
       HasArray, CommitInv, LostHeader
  <2> QED
    BY <1>13, <2>2, <2>3 DEF CommitFails, InterruptedCommit, SetHeader, HeaderPlace, SetPentries
<1>14. CASE DiskPowerLoss
  BY <1>14, LostTypes DEF DiskPowerLoss, InterruptedCommit, SetHeader,
     HeaderPlace, SetPentries, DiskIInv, DiskTypeOK, ShapeInv, SecondaryInv,
     FlashInv, HandleInv, CommitInv, HasHeader, HasArray
<1>15. CASE StageMain
  BY <1>15, LostTypes DEF StageMain, Stage, StateOf, ArrayCrcGood, DiskIInv,
     DiskTypeOK, ShapeInv, SecondaryInv, FlashInv, HandleInv, CommitInv,
     HasHeader, HasArray
<1>16. CASE StageBackup
  BY <1>16, LostTypes DEF StageBackup, Stage, StateOf, DiskIInv, DiskTypeOK,
     ShapeInv, SecondaryInv, FlashInv, HandleInv, CommitInv, HasHeader,
     HasArray
<1>17. CASE StageFinalize
  BY <1>17, LostTypes DEF StageFinalize, Stage, StateOf, ArrayCrcGood,
     DiskIInv, DiskTypeOK, ShapeInv, SecondaryInv, FlashInv, HandleInv,
     CommitInv, HasHeader, HasArray
<1> QED
  BY <1>1, <1>2, <1>3, <1>4, <1>5, <1>6, <1>7, <1>8, <1>9, <1>10, <1>11,
     <1>12, <1>13, <1>14, <1>15, <1>16, <1>17 DEF DiskNext, GetDiskInfo,
     CommitStep

\* A commit of a sound handle writes what belongs there.
LEMMA CommitInvStep ==
    ASSUME DiskIInv, DiskNext
    PROVE  CommitInv'
<1>1. CASE DiskAlloc
  BY <1>1, LostTypes DEF DiskAlloc, NoPast, DiskIInv, DiskTypeOK, ShapeInv,
     SecondaryInv, HandleInv, CommitInv, HasHeader
<1>2. CASE DiskFree
  BY <1>2, LostTypes DEF DiskFree, DiskIInv, DiskTypeOK, ShapeInv,
     SecondaryInv, HandleInv, CommitInv, HasHeader
<1>3. CASE ReadHeader
  BY <1>3, LostTypes DEF ReadHeader, HeaderRead, DiskIInv, DiskTypeOK,
     ShapeInv, SecondaryInv, HandleInv, CommitInv, HasHeader
<1>4. CASE ReadBackupHeader
  BY <1>4, LostTypes DEF ReadBackupHeader, ReadsOn, DiskIInv, DiskTypeOK,
     ShapeInv, SecondaryInv, HandleInv, CommitInv, HasHeader
<1>5. CASE ReadPentries
  BY <1>5, LostTypes DEF ReadPentries, ReadsOn, DiskIInv, DiskTypeOK,
     ShapeInv, SecondaryInv, HandleInv, CommitInv, HasHeader
<1>6. CASE ReadBackupPentries
  BY <1>6, LostTypes DEF ReadBackupPentries, ReadsOn, DiskIInv, DiskTypeOK,
     ShapeInv, SecondaryInv, HandleInv, CommitInv, HasHeader
<1>7. CASE InfoFails
  BY <1>7, LostTypes DEF InfoFails, Uninitialized, DiskIInv, DiskTypeOK,
     ShapeInv, SecondaryInv, HandleInv, CommitInv, HasHeader
<1>8. ASSUME NEW instance \in Places, EditPentry(instance)
      PROVE  CommitInv'
  BY <1>8, LostTypes DEF EditPentry, Usable, Edited, DiskIInv, DiskTypeOK,
     ShapeInv, SecondaryInv, HandleInv, CommitInv, HasHeader
<1>9. CASE UpdateCrc
  BY <1>9, LostTypes DEF UpdateCrc, Usable, WithCrcs, DiskIInv, DiskTypeOK,
     ShapeInv, SecondaryInv, HandleInv, CommitInv, HasHeader
<1>10. CASE DiskCommit
  <2>1. /\ disk.st = "init" /\ diskPc' = "header" /\ rc' = "none"
        /\ UNCHANGED <<header, disk>>
    BY <1>10 DEF DiskCommit, Usable
  <2>2. past' = [past EXCEPT !.harmed = @ \/ past.damaged \/ UnderWay
                                        \/ disk.hdr.sig = "bad"]
    BY <1>10 DEF DiskCommit
  <2>3. CASE UnderWay \/ disk.hdr.sig = "bad" \/ past.damaged \/ past.harmed
    BY <2>2, <2>3 DEF DiskIInv, DiskTypeOK, CommitInv
  <2>4. CASE ~ (UnderWay \/ disk.hdr.sig = "bad" \/ past.damaged \/ past.harmed)
    <3>1. header["sec"] \in GptHeaders /\ header["sec"].crc /\ StateOf("sec") # "BAD_SIGNATURE"
      BY <2>4 DEF UnderWay, DiskIInv, DiskTypeOK, SecondaryInv
    <3>2. header["sec"].sig = "ok"
      BY <3>1 DEF StateOf, GptHeaders
    <3>3. header["prim"].crc => header["prim"].sig = "ok"
      <4>1. header["prim"] \in GptHeaders /\ StateOf("prim") # "BAD_SIGNATURE"
        BY <2>4 DEF UnderWay, DiskIInv, DiskTypeOK
      <4> QED
        BY <4>1 DEF StateOf, GptHeaders
    <3>4. disk.hdr.sig \in {"ok", "bad"}
      BY <2>1, WholeHandle DEF DiskIInv, Handle, GptHeaders
    <3>5. disk.hdr.sig = "ok"
      BY <2>4, <3>4
    <3> QED
      BY <2>1, <2>2, <2>4, <3>2, <3>3, <3>5 DEF DiskIInv, DiskTypeOK, CommitInv
  <2> QED
    BY <2>3, <2>4
<1>11. CASE WriteDiskHeader
  BY <1>11, LostTypes DEF WriteDiskHeader, SetHeader, HeaderPlace, DiskIInv,
     DiskTypeOK, ShapeInv, SecondaryInv, HandleInv, CommitInv, HasHeader
<1>12. CASE WriteDiskPentries
  <2>1. /\ diskPc = "array" /\ disk.st = "init" /\ diskPc' = "idle" /\ rc' = "ok"
        /\ UNCHANGED <<header, disk, past>> /\ entriesOf'["prim"] = disk.arr
    BY <1>12 DEF WriteDiskPentries, SetPentries, DiskIInv, DiskTypeOK
  <2>2. disk.hdr.crc \/ disk.hdr = LostHeader
    BY <2>1 DEF DiskIInv, HandleInv, HasHeader
  <2> QED
    BY <2>1, <2>2 DEF DiskIInv, CommitInv, LostHeader
<1>13. CASE CommitFails
  BY <1>13, LostTypes DEF CommitFails, InterruptedCommit, SetHeader,
     HeaderPlace, SetPentries, DiskIInv, DiskTypeOK, ShapeInv, SecondaryInv,
     HandleInv, CommitInv, HasHeader
<1>14. CASE DiskPowerLoss
  BY <1>14, LostTypes DEF DiskPowerLoss, InterruptedCommit, SetHeader,
     HeaderPlace, SetPentries, DiskIInv, DiskTypeOK, ShapeInv, SecondaryInv,
     HandleInv, CommitInv, HasHeader
<1>15. CASE StageMain
  BY <1>15, LostTypes DEF StageMain, Stage, StateOf, ArrayCrcGood, DiskIInv,
     DiskTypeOK, ShapeInv, SecondaryInv, HandleInv, CommitInv, HasHeader
<1>16. CASE StageBackup
  BY <1>16, LostTypes DEF StageBackup, Stage, StateOf, DiskIInv, DiskTypeOK,
     ShapeInv, SecondaryInv, HandleInv, CommitInv, HasHeader
<1>17. CASE StageFinalize
  BY <1>17, LostTypes DEF StageFinalize, Stage, StateOf, ArrayCrcGood,
     DiskIInv, DiskTypeOK, ShapeInv, SecondaryInv, HandleInv, CommitInv,
     HasHeader
<1> QED
  BY <1>1, <1>2, <1>3, <1>4, <1>5, <1>6, <1>7, <1>8, <1>9, <1>10, <1>11,
     <1>12, <1>13, <1>14, <1>15, <1>16, <1>17 DEF DiskNext, GetDiskInfo,
     CommitStep

-----------------------------------------------------------------------------
(* The invariant and what follows from it.                                  *)

LEMMA DiskInitIInv ==
    ASSUME DiskInit
    PROVE  DiskIInv
<1>1. [chain |-> "main", edit |-> 0] \in PentryArrays /\ [chain |-> "main", edit |-> 0] # Torn
  BY DiskAssumption DEF PentryArrays, WholeArrays, Torn
<1>2. DiskTypeOK
  <2>1. header \in [Places -> GptHeaders] /\ entriesOf \in [Places -> PentryArrays]
    BY <1>1 DEF DiskInit, GptHeaders
  <2>2. disk \in Handles /\ edits \in 0 .. MaxEdits
    BY DiskAssumption DEF DiskInit, Handles
  <2>3. diskPc = "idle" /\ rc = "none"
    BY DEF DiskInit
  <2>4. past \in [stale : BOOLEAN, damaged : BOOLEAN, crcs : BOOLEAN, harmed : BOOLEAN]
    BY DEF DiskInit, NoPast
  <2> QED
    BY <2>1, <2>2, <2>3, <2>4 DEF DiskTypeOK
<1>3. ShapeInv /\ SecondaryInv /\ FlashInv
  BY <1>1 DEF DiskInit, ShapeInv, SecondaryInv, FlashInv, ArrayCrcGood
<1>4. HandleInv /\ CommitInv
  BY DEF DiskInit, HandleInv, HasHeader, HasArray, CommitInv
<1> QED
  BY <1>2, <1>3, <1>4 DEF DiskIInv

LEMMA DiskStutter ==
    ASSUME DiskIInv, UNCHANGED diskVars
    PROVE  DiskIInv'
  BY DEF diskVars, DiskIInv, DiskTypeOK, ShapeInv, SecondaryInv, FlashInv, HandleInv, CommitInv,
         HasHeader, HasArray, Accepted, StateOf, ArrayCrcGood

\* What is on flash and what is in a handle fit together, whatever callers and
\* updates do and wherever a commit is cut short.
THEOREM DiskInvariance == DiskSpec => []DiskIInv
<1>1. DiskInit => DiskIInv
  BY DiskInitIInv
<1>2. DiskIInv /\ [DiskNext]_diskVars => DiskIInv'
  <2> SUFFICES ASSUME DiskIInv, DiskNext
               PROVE  DiskIInv'
    BY DiskStutter
  <2>1. DiskTypeOK' /\ ShapeInv' /\ SecondaryInv'
    BY DiskTypeStep, ShapeStep, SecondaryStep DEF DiskIInv
  <2>2. FlashInv' /\ HandleInv' /\ CommitInv'
    BY FlashStep, HandleStep, CommitInvStep
  <2> QED
    BY <2>1, <2>2 DEF DiskIInv
<1> QED
  BY <1>1, <1>2, PTL DEF DiskSpec

\* A commit never costs the boot, and one that succeeds is one that counts, of a
\* handle older than any number of stages too: unless it comes during an update,
\* or the handle was read during one or from a damaged GPT.
THEOREM CommitsSafely == DiskSpec => []CommitSafe
<1>1. ASSUME DiskIInv
      PROVE  CommitSafe
  <2>0. header["prim"] \in GptHeaders /\ header["sec"] \in GptHeaders
    BY <1>1 DEF DiskIInv, DiskTypeOK
  <2>1. ASSUME ~ past.harmed
        PROVE  \E g \in Places : Intact(g)
    <3>1. CASE header["sec"].sig = "bad"
      <4>1. Accepted("prim") /\ header["prim"].crc
        BY <1>1, <2>1, <2>0, <3>1 DEF DiskIInv, FlashInv, Accepted, StateOf
      <4>2. header["prim"].ecrc # Torn /\ header["prim"].ecrc = entriesOf["prim"]
        BY <1>1, <2>1, <4>1 DEF DiskIInv, FlashInv, Accepted, ArrayCrcGood
      <4> QED
        BY <4>1, <4>2 DEF Intact
    <3>2. CASE header["sec"].sig # "bad"
      <4>1. header["sec"].crc /\ ArrayCrcGood("sec") /\ header["sec"].ecrc # Torn
        BY <1>1, <2>1 DEF DiskIInv, SecondaryInv, FlashInv
      <4>2. StateOf("sec") = "OK"
        BY <3>2, <4>1 DEF StateOf
      <4> QED
        BY <4>1, <4>2 DEF Intact, Accepted, ArrayCrcGood
    <3> QED
      BY <3>1, <3>2
  <2>2. CommitTakesEffect
    <3> SUFFICES ASSUME rc = "ok", past.crcs, ~ past.harmed, ~ past.damaged
                 PROVE  Accepted("prim") /\ entriesOf["prim"] = disk.arr
      BY DEF CommitTakesEffect
    <3>1. /\ disk.st = "init" /\ disk.hdr.sig = "ok" /\ disk.hdr.crc
          /\ header["prim"] = disk.hdr /\ entriesOf["prim"] = disk.arr
      BY <1>1 DEF DiskIInv, CommitInv
    <3>2. disk.hdr.ecrc = disk.arr
      BY <1>1, <3>1 DEF DiskIInv, HandleInv, HasArray
    <3> QED
      BY <3>1, <3>2 DEF Accepted, StateOf, ArrayCrcGood
  <2> QED
    BY <2>1, <2>2 DEF CommitSafe, DiskBootable
<1> QED
  BY <1>1, DiskInvariance, PTL

\* A commit never moves the LUN to another stage of an update: the stage stays as
\* it is, or cannot be read any more, for any sound handle of the last stage and
\* for an older one that does no harm.
THEOREM CommitsKeepStage == DiskSpec => CommitKeepsStage
<1>1. ASSUME DiskIInv, CommitStep, ~ Unreadable, ~ past.damaged, past.stale => ~ past.harmed
      PROVE  Unreadable' \/ \A g \in Places : StateOf(g)' = StateOf(g)
  <2>1. header' \in {header, [header EXCEPT !["prim"] = disk.hdr],
                     [header EXCEPT !["prim"] = LostHeader]}
    BY <1>1 DEF CommitStep, WriteDiskHeader, WriteDiskPentries, CommitFails,
       InterruptedCommit, SetHeader, HeaderPlace, SetPentries
  <2>2. disk.st = "init" /\ diskPc \in Writing
    BY <1>1 DEF DiskIInv, DiskTypeOK, CommitStep, WriteDiskHeader, WriteDiskPentries,
       CommitFails, Writing
  <2>3. header["prim"].crc
    BY <1>1 DEF Unreadable, StateOf
  <2>4. disk.hdr.crc /\ disk.hdr.sig = header["prim"].sig
    <3>1. CASE past.stale
      <4>1. disk.hdr.sig = "ok" /\ header["prim"].sig = "ok"
        BY <1>1, <2>2, <2>3, <3>1 DEF DiskIInv, CommitInv
      <4>2. disk.hdr.crc \/ disk.hdr = LostHeader
        BY <1>1, <2>2 DEF DiskIInv, HandleInv, HasHeader
      <4> QED
        BY <4>1, <4>2 DEF LostHeader
    <3>2. CASE ~ past.stale
      BY <1>1, <2>2, <2>3, <3>2 DEF DiskIInv, HandleInv, HasHeader
    <3> QED
      BY <3>1, <3>2
  <2>5. CASE header' = header
    BY <2>5 DEF StateOf
  <2>6. CASE header' = [header EXCEPT !["prim"] = disk.hdr]
    BY <1>1, <2>3, <2>4, <2>6 DEF StateOf, DiskIInv, DiskTypeOK
  <2>7. CASE header' = [header EXCEPT !["prim"] = LostHeader]
    <3>1. ~ header'["prim"].crc
      BY <1>1, <2>7 DEF DiskIInv, DiskTypeOK, LostHeader
    <3> QED
      BY <3>1 DEF Unreadable, StateOf
  <2> QED
    BY <2>1, <2>5, <2>6, <2>7
<1>2. DiskIInv /\ [DiskNext]_diskVars =>
         [CommitStep /\ ~ Unreadable /\ ~ past.damaged /\ (past.stale => ~ past.harmed) =>
             Unreadable' \/ \A g \in Places : StateOf(g)' = StateOf(g)]_diskVars
  BY <1>1
<1> QED
  BY <1>2, DiskInvariance, PTL DEF DiskSpec, CommitKeepsStage

-----------------------------------------------------------------------------
(* Vibrator: VibIInv is inductive.                                          *)

\* The writes of a list.
Elements(s) == {s[n] : n \in DOMAIN s}

\* What the last call wants of the driver, file by file.  A vibration is played
\* in the steady configuration, which only the next vibration changes.
Config(shape, clamp, period) ==
    IF cal.dynamic
    THEN {<<"lra_wave_shape", shape>>, <<"od_clamp", clamp>>, <<"ol_lra_period", period>>}
    ELSE {}
Common(timeoutMs, mode) ==
    {<<"ctrl_loop", LoopMode(timeoutMs, mode)>>, <<"duration", timeoutMs>>, <<"mode", mode>>}
Wanted ==
    IF asked.op = "on"
    THEN Common(asked.timeoutMs, Rtp) \cup Config(cal.steadyShape, steady.clamp, steady.period)
    ELSE IF asked.op = "perform"
    THEN {<<"set_sequencer", Sequence(asked.effect)>>}
         \cup Common(cal.duration[asked.effect], Waveform)
         \cup Config(cal.effectShape, EffectClamp(VolOffset(asked.effect, asked.strength)),
                     cal.lraPeriod)
    ELSE {}

\* A setting is in the driver or still to be written, and nothing else is still
\* to be written to its file.
InPlace(w) ==
    /\ \/ driver[w[1]] = w[2]
       \/ \E e \in Elements(todo) : e.file = w[1]
    /\ \A e \in Elements(todo) : e.file = w[1] => e.value = w[2]
SettingsInv == ~ writeFailed => \A w \in Wanted : InPlace(w)

WarmConfig == [clamp |-> SteadyClamp(cal), period |-> cal.lraPeriod]
ColdConfig == [clamp |-> STEADY_VOLTAGE_LOWER_BOUND, period |-> ShiftedPeriod(cal)]
SteadyInv ==
    vibPc # "off" /\ cal.dynamic =>
        steady = IF lastOut = "cold" THEN ColdConfig ELSE WarmConfig

CallInv ==
    /\ vibPc = "off" => asked = NoCall /\ todo = <<>> /\ lastOut = "none"
    /\ vibPc = "idle" => todo = <<>>

VibIInv == VibTypeOK /\ SettingsInv /\ SteadyInv /\ CallInv
-----------------------------------------------------------------------------
(* The values that are written.                                             *)

LEMMA FrequencyConstant == 1000000000 \div 24615 = 40625
  OBVIOUS

LEMMA PeriodType ==
    ASSUME NEW in \in Nat \ {0}
    PROVE  Period(in) \in Nat
  BY FrequencyConstant DEF Period

\* Period and frequency are each the other's formula, rounded down: a lower
\* frequency gives a longer period and never a shorter one.
LEMMA ShiftLengthens ==
    ASSUME NEW l \in Nat \ {0}, NEW s \in Nat, s < Period(l)
    PROVE  Period(Period(l) - s) \in Nat /\ Period(Period(l) - s) >= l
<1> DEFINE f == Period(l)
           q == f - s
<1>1. f \in Nat /\ f * l <= 40625
  BY FrequencyConstant DEF Period
<1>2. q \in Nat /\ q > 0 /\ q <= f
  BY <1>1
<1>3. q * l <= f * l
  <2> HIDE DEF f, q
  <2> QED BY <1>1, <1>2
<1>4. l * q <= 40625
  <2> HIDE DEF f, q
  <2> QED BY <1>1, <1>2, <1>3
<1>5. Period(q) = 40625 \div q
  <2> HIDE DEF q
  <2> QED BY FrequencyConstant DEF Period
<1>6. 40625 \div q \in Nat /\ 40625 \div q >= l
  <2> HIDE DEF f, q
  <2> QED BY <1>2, <1>4
<1> QED
  BY <1>5, <1>6

LEMMA Rounded ==
    ASSUME NEW a \in Nat, NEW b \in Nat \ {0}
    PROVE  RoundedQuotient(a, b) \in Nat
  BY DEF RoundedQuotient

\* Where the target is less than the largest acceleration, the voltage for it
\* is less than the largest voltage.
LEMMA RoundedBelow ==
    ASSUME NEW t \in Nat, NEW v \in Nat, NEW b \in Nat, t < b
    PROVE  RoundedQuotient(t * v, b) <= v
<1>1. t * v <= b * v
  OBVIOUS
<1>2. 2 * (t * v) + b < (v + 1) * (2 * b)
  BY <1>1
<1>3. t * v \in Nat
  OBVIOUS
<1> DEFINE n == 2 * (t * v) + b
           d == 2 * b
<1>4. n \in Nat /\ d \in Nat \ {0} /\ n < (v + 1) * d
  BY <1>2, <1>3
<1>5. n \div d < v + 1
  <2> HIDE DEF n, d
  <2> QED BY <1>4
<1> QED
  BY <1>5 DEF RoundedQuotient

LEMMA SteadyClampType ==
    ASSUME NEW c \in Calibrations
    PROVE  SteadyClamp(c) \in Nat
<1>1. c.longVoltageMax \in Nat /\ c.ampMax \in Nat
  BY VibAssumption
<1>2. STEADY_TARGET_G * c.longVoltageMax \in Nat
  BY <1>1 DEF STEADY_TARGET_G
<1>3. CASE c.ampMax > STEADY_TARGET_G
  <2>1. RoundedQuotient(STEADY_TARGET_G * c.longVoltageMax, c.ampMax) \in Nat
    BY <1>1, <1>2, <1>3, Rounded DEF STEADY_TARGET_G
  <2> QED
    BY <1>3, <2>1 DEF SteadyClamp, LargerOf, STEADY_VOLTAGE_LOWER_BOUND
<1> QED
  BY <1>1, <1>3 DEF SteadyClamp

LEMMA SteadyClampBounds ==
    ASSUME NEW c \in Calibrations, c.longVoltageMax >= STEADY_VOLTAGE_LOWER_BOUND
    PROVE  SteadyClamp(c) \in STEADY_VOLTAGE_LOWER_BOUND .. c.longVoltageMax
<1>1. c.longVoltageMax \in Nat /\ c.ampMax \in Nat /\ SteadyClamp(c) \in Nat
  BY VibAssumption, SteadyClampType
<1>2. CASE c.ampMax > STEADY_TARGET_G
  <2> DEFINE r == RoundedQuotient(STEADY_TARGET_G * c.longVoltageMax, c.ampMax)
  <2>1. r <= c.longVoltageMax
    <3>1. STEADY_TARGET_G \in Nat /\ STEADY_TARGET_G < c.ampMax
      BY <1>1, <1>2 DEF STEADY_TARGET_G
    <3> QED
      BY <1>1, <3>1, RoundedBelow
  <2>2. r \in Nat
    BY <1>1, <1>2, Rounded DEF STEADY_TARGET_G
  <2>3. SteadyClamp(c) = LargerOf(r, STEADY_VOLTAGE_LOWER_BOUND)
    BY <1>2 DEF SteadyClamp
  <2> HIDE DEF r
  <2> QED
    BY <1>1, <2>1, <2>2, <2>3 DEF LargerOf, STEADY_VOLTAGE_LOWER_BOUND
<1>3. CASE ~ c.ampMax > STEADY_TARGET_G
  BY <1>1, <1>3 DEF SteadyClamp, STEADY_VOLTAGE_LOWER_BOUND
<1> QED
  BY <1>2, <1>3

LEMMA ShiftedPeriodType ==
    ASSUME NEW c \in Calibrations
    PROVE  ShiftedPeriod(c) \in Nat /\ ShiftedPeriod(c) >= c.lraPeriod
  BY VibAssumption, ShiftLengthens DEF ShiftedPeriod

LEMMA EffectClampType ==
    ASSUME cal \in Calibrations, NEW offset \in 0 .. 4
    PROVE  EffectClamp(offset) \in Nat
  BY VibAssumption DEF EffectClamp

LEMMA VolOffsetType ==
    ASSUME NEW effect \in Effects, NEW strength \in Strengths
    PROVE  /\ VolOffset(effect, strength) \in 0 .. 4
           /\ VolOffset(effect, strength) =
                 LevelOf[effect][IF strength = "LIGHT" THEN 1 ELSE 2]
  BY DEF Effects, Strengths, VolOffset, LevelOf

LEMMA SequenceType ==
    ASSUME NEW effect \in Effects
    PROVE  Sequence(effect) \in Nat
  BY DEF Effects, Sequence

-----------------------------------------------------------------------------
(* The lists of writes.                                                     *)

LEMMA JoinedElements ==
    ASSUME NEW s \in Seq(Writes), NEW t \in Seq(Writes)
    PROVE  s \o t \in Seq(Writes) /\ Elements(s \o t) = Elements(s) \cup Elements(t)
<1> DEFINE u == s \o t
<1>1. /\ u \in Seq(Writes) /\ Len(u) = Len(s) + Len(t)
      /\ \A n \in 1 .. Len(s) + Len(t) : u[n] = IF n <= Len(s) THEN s[n] ELSE t[n - Len(s)]
  BY ConcatProperties
<1>2. ASSUME NEW n \in DOMAIN u PROVE u[n] \in Elements(s) \cup Elements(t)
  <2>1. n \in 1 .. Len(s) + Len(t)
    BY <1>1
  <2>2. CASE n <= Len(s)
    BY <1>1, <2>1, <2>2 DEF Elements
  <2>3. CASE ~ n <= Len(s)
    <3>1. n - Len(s) \in DOMAIN t
      BY <2>1, <2>3
    <3> QED
      BY <1>1, <2>1, <2>3, <3>1 DEF Elements
  <2> QED
    BY <2>2, <2>3
<1>3. ASSUME NEW n \in DOMAIN s PROVE s[n] \in Elements(u)
  <2>1. n \in DOMAIN u /\ u[n] = s[n]
    BY <1>1
  <2> QED
    BY <2>1 DEF Elements
<1>4. ASSUME NEW n \in DOMAIN t PROVE t[n] \in Elements(u)
  <2>1. n + Len(s) \in DOMAIN u /\ u[n + Len(s)] = t[n]
    BY <1>1
  <2> QED
    BY <2>1 DEF Elements
<1> HIDE DEF u
<1>5. Elements(u) \subseteq Elements(s) \cup Elements(t)
  BY <1>2 DEF Elements
<1>6. Elements(s) \cup Elements(t) \subseteq Elements(u)
  BY <1>3, <1>4 DEF Elements
<1> QED
  BY <1>1, <1>5, <1>6 DEF u

LEMMA TailElements ==
    ASSUME NEW s \in Seq(Writes), s # <<>>
    PROVE  /\ Head(s) \in Writes /\ Tail(s) \in Seq(Writes)
           /\ Elements(s) = {Head(s)} \cup Elements(Tail(s))
<1>1. /\ Head(s) \in Writes /\ Tail(s) \in Seq(Writes) /\ Len(Tail(s)) = Len(s) - 1
      /\ \A n \in 1 .. Len(Tail(s)) : Tail(s)[n] = s[n + 1]
  BY HeadTailProperties
<1>2. Len(s) \in Nat \ {0} /\ Head(s) = s[1]
  BY EmptySeq
<1>3. ASSUME NEW n \in DOMAIN s PROVE s[n] \in {Head(s)} \cup Elements(Tail(s))
  <2>1. CASE n = 1
    BY <2>1, <1>2
  <2>2. CASE n # 1
    <3>1. n - 1 \in DOMAIN Tail(s) /\ Tail(s)[n - 1] = s[n]
      BY <1>1, <1>2, <2>2
    <3> QED
      BY <3>1 DEF Elements
  <2> QED
    BY <2>1, <2>2
<1>4. ASSUME NEW n \in DOMAIN Tail(s) PROVE Tail(s)[n] \in Elements(s)
  <2>1. n + 1 \in DOMAIN s /\ Tail(s)[n] = s[n + 1]
    BY <1>1, <1>2
  <2> QED
    BY <2>1 DEF Elements
<1>5. Head(s) \in Elements(s)
  BY <1>2 DEF Elements
<1>6. Elements(Tail(s)) \subseteq Elements(s)
  BY <1>4 DEF Elements
<1>7. Elements(s) \subseteq {Head(s)} \cup Elements(Tail(s))
  BY <1>3 DEF Elements
<1> QED
  BY <1>1, <1>5, <1>6, <1>7

LEMMA ListsElements ==
    /\ <<>> \in Seq(Writes) /\ Elements(<<>>) = {}
    /\ \A a \in Writes : <<a>> \in Seq(Writes) /\ Elements(<<a>>) = {a}
    /\ \A a, b, c \in Writes :
          <<a, b, c>> \in Seq(Writes) /\ Elements(<<a, b, c>>) = {a, b, c}
  BY DEF Elements

\* The writes that turn the motor on are its settings, and the start.
OnSet(timeoutMs, mode, shape, clamp, period) ==
    {Ignored("ctrl_loop", LoopMode(timeoutMs, mode)), Checked("duration", timeoutMs),
     Ignored("mode", mode), Checked("activate", 1)} \cup
    (IF cal.dynamic
     THEN {Ignored("lra_wave_shape", shape), Ignored("od_clamp", clamp),
           Ignored("ol_lra_period", period)}
     ELSE {})

LEMMA OnWritesSet ==
    ASSUME VibTypeOK, NEW timeoutMs \in Nat, NEW mode \in {Rtp, Waveform},
           NEW shape \in Nat, NEW clamp \in Nat, NEW period \in Nat
    PROVE  /\ OnWrites(timeoutMs, mode, ConfigWrites(shape, clamp, period)) \in Seq(Writes)
           /\ Elements(OnWrites(timeoutMs, mode, ConfigWrites(shape, clamp, period))) =
                 OnSet(timeoutMs, mode, shape, clamp, period)
<1> DEFINE a == Ignored("ctrl_loop", LoopMode(timeoutMs, mode))
           b == Checked("duration", timeoutMs)
           c == Ignored("mode", mode)
           z == Checked("activate", 1)
           d == ConfigWrites(shape, clamp, period)
<1>1. LoopMode(timeoutMs, mode) \in Nat /\ mode \in Nat
  BY DEF LoopMode, Open, Close, Rtp, Waveform
<1>2. a \in Writes /\ b \in Writes /\ c \in Writes /\ z \in Writes
  BY <1>1 DEF Writes, Files, Ignored, Checked
<1>3. /\ Ignored("lra_wave_shape", shape) \in Writes /\ Ignored("od_clamp", clamp) \in Writes
      /\ Ignored("ol_lra_period", period) \in Writes
  BY DEF Writes, Files, Ignored
<1>4. /\ d \in Seq(Writes)
      /\ Elements(d) = IF cal.dynamic
                       THEN {Ignored("lra_wave_shape", shape), Ignored("od_clamp", clamp),
                             Ignored("ol_lra_period", period)}
                       ELSE {}
  BY <1>3, ListsElements DEF ConfigWrites
<1>5. OnWrites(timeoutMs, mode, d) = (<<a, b, c>> \o d) \o <<z>>
  BY DEF OnWrites
<1> HIDE DEF a, b, c, d, z
<1>6. <<a, b, c>> \in Seq(Writes) /\ Elements(<<a, b, c>>) = {a, b, c}
  BY <1>2, ListsElements
<1>7. <<z>> \in Seq(Writes) /\ Elements(<<z>>) = {z}
  BY <1>2, ListsElements
<1>8. /\ <<a, b, c>> \o d \in Seq(Writes)
      /\ Elements(<<a, b, c>> \o d) = {a, b, c} \cup Elements(d)
  BY <1>4, <1>6, JoinedElements
<1>9. /\ OnWrites(timeoutMs, mode, d) \in Seq(Writes)
      /\ Elements(OnWrites(timeoutMs, mode, d)) = ({a, b, c} \cup Elements(d)) \cup {z}
  BY <1>5, <1>7, <1>8, JoinedElements
<1>10. Elements(OnWrites(timeoutMs, mode, d)) = {a, b, c, z} \cup Elements(d)
  BY <1>9
<1> QED
  BY <1>4, <1>9, <1>10 DEF a, b, c, d, z, OnSet

\* A list with these writes, and with no other write to the files of the
\* settings, puts the settings in place.
PutsInPlace(S, w) ==
    /\ \E e \in S : e.file = w[1]
    /\ \A e \in S : e.file = w[1] => e.value = w[2]
LEMMA OnPlaces ==
    ASSUME NEW timeoutMs, NEW mode, NEW shape, NEW clamp, NEW period,
           NEW S, OnSet(timeoutMs, mode, shape, clamp, period) \subseteq S,
           \A e \in S \ OnSet(timeoutMs, mode, shape, clamp, period) :
               e.file = "set_sequencer"
    PROVE  \A w \in Common(timeoutMs, mode) \cup Config(shape, clamp, period) : PutsInPlace(S, w)
<1> DEFINE O == OnSet(timeoutMs, mode, shape, clamp, period)
           l == LoopMode(timeoutMs, mode)
<1>1. \A e \in O :
         /\ e.file = "ctrl_loop" => e.value = l
         /\ e.file = "duration" => e.value = timeoutMs
         /\ e.file = "mode" => e.value = mode
         /\ e.file = "lra_wave_shape" => e.value = shape
         /\ e.file = "od_clamp" => e.value = clamp
         /\ e.file = "ol_lra_period" => e.value = period
  BY DEF OnSet, Ignored, Checked
<1>2. \A f \in {"ctrl_loop", "duration", "mode"} : \E e \in O : e.file = f
  <2>1. /\ Ignored("ctrl_loop", l) \in O /\ Checked("duration", timeoutMs) \in O
        /\ Ignored("mode", mode) \in O
    BY DEF OnSet
  <2> HIDE DEF O, l
  <2>2. /\ Ignored("ctrl_loop", l).file = "ctrl_loop" /\ Ignored("mode", mode).file = "mode"
        /\ Checked("duration", timeoutMs).file = "duration"
    BY DEF Ignored, Checked
  <2> QED
    BY <2>1, <2>2
<1>3. ASSUME cal.dynamic
      PROVE  \A f \in {"lra_wave_shape", "od_clamp", "ol_lra_period"} :
                \E e \in O : e.file = f
  BY <1>3 DEF OnSet, Ignored, Checked
<1>4. \A e \in S : e \in O \/ e.file = "set_sequencer"
  OBVIOUS
<1> HIDE DEF O
<1>5. \A w \in Common(timeoutMs, mode) : PutsInPlace(S, w)
  BY <1>1, <1>2, <1>4 DEF Common, PutsInPlace, O
<1>6. \A w \in Config(shape, clamp, period) : PutsInPlace(S, w)
  BY <1>1, <1>3, <1>4 DEF Config, PutsInPlace, O
<1> QED
  BY <1>5, <1>6

-----------------------------------------------------------------------------
(* The inductive invariant.                                                 *)

LEMMA VibInitInvariant == VibInit => VibIInv
<1> SUFFICES ASSUME VibInit PROVE VibIInv
  OBVIOUS
<1>1. cal \in Calibrations
  BY VibAssumption DEF VibInit
<1>2. todo \in Seq(Writes) /\ failures \in 0 .. MaxFailures
  BY VibAssumption DEF VibInit
<1>3. VibTypeOK
  BY <1>1, <1>2 DEF VibInit, VibTypeOK, Configs
<1>4. Wanted = {}
  BY DEF VibInit, NoCall, Wanted
<1> QED
  BY <1>3, <1>4 DEF VibInit, VibIInv, SettingsInv, SteadyInv, CallInv

\* What a call wants depends on the call and the configuration alone.
LEMMA WantedKept ==
    ASSUME UNCHANGED <<cal, steady, asked>>
    PROVE  Wanted' = Wanted
<1>1. \A effect : EffectClamp(effect)' = EffectClamp(effect)
  BY DEF EffectClamp
<1> QED
  BY <1>1 DEF Wanted, Common, Config, LoopMode

LEMMA ConstructStep ==
    ASSUME VibIInv, Construct
    PROVE  VibIInv'
<1> USE DEF VibIInv
<1>1. /\ SteadyClamp(cal') \in Nat /\ cal'.lraPeriod \in Nat /\ cal'.dynamic \in BOOLEAN
  BY SteadyClampType, VibAssumption DEF Construct
<1>2. ConstructorWrites(cal') \in Seq(Writes)
  <2> DEFINE c == cal'
             a == Ignored("state", 1)
             b == Ignored("autocal", 1)
             p == Ignored("ol_lra_period", c.lraPeriod)
             z == Ignored("lp_trigger_effect", 1)
             m == IF c.dynamic THEN <<>> ELSE <<p>>
  <2>1. {a, b, p, z} \subseteq Writes
    BY <1>1 DEF Ignored, Writes, Files
  <2>2. ConstructorWrites(c) = (<<a, b>> \o m) \o <<z>>
    BY DEF ConstructorWrites
  <2> HIDE DEF a, b, p, z, c
  <2>3. m \in Seq(Writes) /\ <<a, b>> \in Seq(Writes) /\ <<z>> \in Seq(Writes)
    BY <2>1
  <2> HIDE DEF m
  <2>4. <<a, b>> \o m \in Seq(Writes)
    BY <2>3, JoinedElements
  <2> QED
    BY <2>2, <2>3, <2>4, JoinedElements DEF c
<1>3. VibTypeOK'
  BY <1>1, <1>2 DEF Construct, VibTypeOK, Configs
<1>4. asked' = NoCall /\ lastOut' = lastOut
  BY DEF Construct, CallInv
<1>5. Wanted' = {}
  BY <1>4 DEF Wanted, NoCall
<1>6. SettingsInv'
  BY <1>5 DEF SettingsInv
<1>7. SteadyInv'
  BY <1>4 DEF Construct, SteadyInv, WarmConfig, VibTypeOK, CallInv
<1>8. CallInv'
  BY DEF Construct, CallInv
<1> QED
  BY <1>3, <1>6, <1>7, <1>8

\* A write that is made puts its setting in place; the others are where they
\* were.
LEMMA WrittenStep ==
    ASSUME VibIInv, Written
    PROVE  VibIInv'
<1> USE DEF VibIInv
<1> DEFINE h == Head(todo)
<1>1. /\ h \in Writes /\ Tail(todo) \in Seq(Writes)
      /\ Elements(todo) = {h} \cup Elements(Tail(todo))
  BY TailElements DEF Written, VibTypeOK
<1>2. /\ todo' = Tail(todo) /\ driver' = [driver EXCEPT ![h.file] = h.value]
      /\ UNCHANGED <<vibPc, cal, steady, asked, writeFailed, failures, lastOut>>
  BY DEF Written
<1>3. VibTypeOK'
  BY <1>1, <1>2 DEF VibTypeOK, Writes
<1>4. Wanted' = Wanted
  BY <1>2, WantedKept
<1>5. ASSUME NEW w, InPlace(w), w[1] \in Files
      PROVE  InPlace(w)'
  <2>1. driver'[w[1]] = IF w[1] = h.file THEN h.value ELSE driver[w[1]]
    BY <1>2, <1>5 DEF VibTypeOK
  <2>2. \A e \in Elements(todo') : e \in Elements(todo)
    BY <1>1, <1>2
  <2>3. h.file = w[1] => h.value = w[2]
    BY <1>1, <1>5 DEF InPlace
  <2>4. \A e \in Elements(todo) : e = h \/ e \in Elements(todo')
    BY <1>1, <1>2
  <2> HIDE DEF h
  <2> QED
    BY <1>5, <2>1, <2>2, <2>3, <2>4 DEF InPlace
<1>6. \A w \in Wanted : w[1] \in Files
  BY DEF Wanted, Common, Config, Files
<1>7. SettingsInv'
  BY <1>2, <1>4, <1>5, <1>6 DEF SettingsInv
<1>8. SteadyInv' /\ CallInv'
  <2>1. todo # <<>>
    BY DEF Written
  <2>2. SteadyClamp(cal)' = SteadyClamp(cal)
    BY <1>2
  <2>3. ShiftedPeriod(cal)' = ShiftedPeriod(cal)
    BY <1>2
  <2> QED
    BY <1>2, <2>1, <2>2, <2>3 DEF SteadyInv, CallInv, WarmConfig, ColdConfig
<1> QED
  BY <1>3, <1>7, <1>8

LEMMA WriteFailsStep ==
    ASSUME VibIInv, WriteFails
    PROVE  VibIInv'
<1> USE DEF VibIInv
<1>1. Tail(todo) \in Seq(Writes)
  BY TailElements DEF WriteFails, VibTypeOK
<1>2. todo' \in Seq(Writes)
  BY <1>1, ListsElements DEF WriteFails, AfterFailure
<1>3. VibTypeOK'
  BY <1>2, VibAssumption DEF WriteFails, VibTypeOK
<1>4. SettingsInv'
  BY DEF WriteFails, SettingsInv
<1>5. UNCHANGED <<vibPc, cal, steady, asked, lastOut>> /\ todo # <<>>
  BY DEF WriteFails
<1> QED
  BY <1>3, <1>4, <1>5 DEF SteadyInv, CallInv, WarmConfig, ColdConfig, SteadyClamp, ShiftedPeriod

LEMMA CallReturnsStep ==
    ASSUME VibIInv, CallReturns
    PROVE  VibIInv'
<1> USE DEF VibIInv, CallReturns
<1>1. VibTypeOK'
  BY DEF VibTypeOK
<1>2. Wanted' = Wanted
  BY WantedKept
<1>3. SettingsInv'
  BY <1>2 DEF SettingsInv, InPlace
<1> QED
  BY <1>1, <1>3 DEF SteadyInv, CallInv, WarmConfig, ColdConfig, SteadyClamp, ShiftedPeriod

\* What a vibration wants is what it writes, in the configuration for the
\* temperature.
LEMMA OnStep ==
    ASSUME VibIInv, On
    PROVE  VibIInv'
<1> USE DEF VibIInv
<1> PICK timeoutMs \in Durations, t \in Readings :
        /\ steady' = IF cal.dynamic THEN SteadyAt(t) ELSE steady
        /\ lastOut' = IF ~ cal.dynamic THEN lastOut
                      ELSE IF t > TEMP_UPPER_BOUND THEN "warm"
                      ELSE IF t < TEMP_LOWER_BOUND THEN "cold" ELSE lastOut
        /\ Begins([op |-> "on", timeoutMs |-> timeoutMs],
                  OnWrites(timeoutMs, Rtp,
                           ConfigWrites(cal.steadyShape, steady'.clamp, steady'.period)))
  BY DEF On
<1> DEFINE shape  == cal.steadyShape
           clamp  == steady'.clamp
           period == steady'.period
           writes == OnWrites(timeoutMs, Rtp, ConfigWrites(shape, clamp, period))
<1>1. /\ vibPc = "idle" /\ vibPc' = "call" /\ todo' = writes
      /\ asked' = [op |-> "on", timeoutMs |-> timeoutMs] /\ writeFailed' = FALSE
      /\ UNCHANGED <<cal, driver, failures>>
  BY DEF Begins
<1>2. /\ cal \in Calibrations /\ timeoutMs \in Nat /\ shape \in Nat /\ cal.lraPeriod \in Nat
      /\ cal.dynamic \in BOOLEAN
  BY VibAssumption DEF VibTypeOK
<1>3. WarmConfig \in Configs /\ ColdConfig \in Configs
  BY <1>2, SteadyClampType, ShiftedPeriodType
     DEF WarmConfig, ColdConfig, Configs, STEADY_VOLTAGE_LOWER_BOUND
<1>4. SteadyAt(t) \in Configs
  BY <1>3 DEF SteadyAt, WarmConfig, ColdConfig, VibTypeOK
<1>5. steady' \in Configs
  BY <1>2, <1>4 DEF VibTypeOK
<1>6. clamp \in Nat /\ period \in Nat
  BY <1>5 DEF Configs
<1>7. /\ writes \in Seq(Writes)
      /\ Elements(writes) = OnSet(timeoutMs, Rtp, shape, clamp, period)
  <2>1. VibTypeOK /\ Rtp \in {Rtp, Waveform} /\ timeoutMs \in Nat /\ shape \in Nat
    BY <1>2
  <2>2. \A c, p \in Nat :
           /\ OnWrites(timeoutMs, Rtp, ConfigWrites(shape, c, p)) \in Seq(Writes)
           /\ Elements(OnWrites(timeoutMs, Rtp, ConfigWrites(shape, c, p))) =
                 OnSet(timeoutMs, Rtp, shape, c, p)
    <3> HIDE DEF shape
    <3> QED BY ONLY <2>1, OnWritesSet
  <2> QED
    BY <1>6, <2>2
<1>8. lastOut' \in {"none", "warm", "cold"}
  BY DEF VibTypeOK
<1>9. VibTypeOK'
  BY <1>1, <1>5, <1>7, <1>8 DEF VibTypeOK
<1>10. Wanted' = Common(timeoutMs, Rtp) \cup Config(shape, clamp, period)
  BY <1>1 DEF Wanted, Common, Config, LoopMode
<1>11. \A w \in Wanted' : InPlace(w)'
  <2> HIDE DEF writes, shape, clamp, period
  <2>1. \A w \in Wanted' : PutsInPlace(Elements(writes), w)
    BY <1>7, <1>10, OnPlaces
  <2>2. todo' = writes
    BY <1>1
  <2> QED
    BY <2>1, <2>2 DEF InPlace, PutsInPlace
<1>12. SettingsInv'
  BY <1>11 DEF SettingsInv
<1>13. SteadyInv'
  <2>1. WarmConfig' = WarmConfig /\ ColdConfig' = ColdConfig
    BY <1>1 DEF WarmConfig, ColdConfig, SteadyClamp, ShiftedPeriod
  <2>2. SteadyAt(t) = IF t > TEMP_UPPER_BOUND THEN WarmConfig
                      ELSE IF t < TEMP_LOWER_BOUND THEN ColdConfig ELSE steady
    BY DEF SteadyAt, WarmConfig, ColdConfig
  <2>3. t \in Int
    <3>1. t \in Temperatures \cup {0}
      BY DEF Readings
    <3>2. Temperatures \subseteq Int
      BY VibAssumption
    <3> QED
      BY <3>1, <3>2
  <2> QED
    BY <1>1, <2>1, <2>2, <2>3 DEF SteadyInv, TEMP_UPPER_BOUND, TEMP_LOWER_BOUND
<1> QED
  BY <1>1, <1>9, <1>12, <1>13 DEF CallInv

LEMMA PerformStep ==
    ASSUME VibIInv, Perform
    PROVE  VibIInv'
<1> USE DEF VibIInv
<1> PICK effect \in Effects, strength \in Strengths :
        /\ Begins([op |-> "perform", effect |-> effect, strength |-> strength],
                  <<Ignored("set_sequencer", Sequence(effect))>> \o
                  OnWrites(cal.duration[effect], Waveform,
                           ConfigWrites(cal.effectShape,
                                        EffectClamp(VolOffset(effect, strength)),
                                        cal.lraPeriod)))
        /\ UNCHANGED <<steady, lastOut>>
  BY DEF Perform
<1> DEFINE first  == Ignored("set_sequencer", Sequence(effect))
           size == cal.duration[effect]
           shape  == cal.effectShape
           clamp  == EffectClamp(VolOffset(effect, strength))
           period == cal.lraPeriod
           writes == OnWrites(size, Waveform, ConfigWrites(shape, clamp, period))
<1>1. /\ vibPc = "idle" /\ vibPc' = "call" /\ todo' = <<first>> \o writes
      /\ asked' = [op |-> "perform", effect |-> effect, strength |-> strength]
      /\ writeFailed' = FALSE
      /\ UNCHANGED <<cal, driver, failures, steady, lastOut>>
  BY DEF Begins
<1>2. /\ cal \in Calibrations /\ size \in Nat /\ shape \in Nat /\ period \in Nat
      /\ cal.dynamic \in BOOLEAN
  BY VibAssumption DEF VibTypeOK
<1>3. clamp \in Nat
  BY <1>2, VolOffsetType, EffectClampType
<1>4. /\ writes \in Seq(Writes)
      /\ Elements(writes) = OnSet(size, Waveform, shape, clamp, period)
  <2>1. /\ VibTypeOK /\ Waveform \in {Rtp, Waveform} /\ size \in Nat /\ shape \in Nat
        /\ period \in Nat
    BY <1>2
  <2> HIDE DEF shape, clamp, period, size, VibIInv
  <2> QED BY ONLY <1>3, <2>1, OnWritesSet
<1>5. first \in Writes
  BY SequenceType DEF Ignored, Writes, Files
<1>6. /\ todo' \in Seq(Writes)
      /\ Elements(todo') = {first} \cup Elements(writes)
  <2> HIDE DEF first, writes
  <2>1. <<first>> \in Seq(Writes) /\ Elements(<<first>>) = {first}
    BY <1>5, ListsElements
  <2> QED BY <1>1, <1>4, <2>1, JoinedElements
<1>7. VibTypeOK'
  BY <1>1, <1>6 DEF VibTypeOK
<1>8. Wanted' = {<<"set_sequencer", Sequence(effect)>>}
                \cup Common(size, Waveform) \cup Config(shape, clamp, period)
  <2>1. EffectClamp(VolOffset(effect, strength))' = clamp
    BY <1>1 DEF EffectClamp
  <2>2. \A n, m : LoopMode(n, m)' = LoopMode(n, m)
    BY <1>1 DEF LoopMode
  <2>3. asked'.effect = effect /\ asked'.strength = strength /\ asked'.op = "perform"
    BY <1>1
  <2> QED
    BY <1>1, <2>1, <2>2, <2>3 DEF Wanted, Common, Config
<1>9. \A w \in Wanted' : InPlace(w)'
  <2> HIDE DEF writes, shape, clamp, period, size
  <2> DEFINE S == {first} \cup Elements(writes)
             O == OnSet(size, Waveform, shape, clamp, period)
  <2>1. first.file = "set_sequencer" /\ first.value = Sequence(effect)
    BY DEF Ignored
  <2>2. \A w \in Common(size, Waveform) \cup Config(shape, clamp, period) : PutsInPlace(S, w)
    <3>1. O \subseteq S /\ \A e \in S \ O : e.file = "set_sequencer"
      BY <1>4, <2>1
    <3> HIDE DEF S
    <3> QED
      BY <3>1, OnPlaces
  <2>3. \A e \in O : e.file # "set_sequencer"
    BY DEF OnSet, Ignored, Checked
  <2>4. PutsInPlace(S, <<"set_sequencer", Sequence(effect)>>)
    BY <1>4, <2>1, <2>3 DEF PutsInPlace
  <2>5. \A w \in Wanted' : PutsInPlace(S, w)
    BY <1>8, <2>2, <2>4
  <2> QED
    BY <1>6, <2>5 DEF InPlace, PutsInPlace
<1>10. SettingsInv'
  BY <1>9 DEF SettingsInv
<1> QED
  BY <1>1, <1>7, <1>10
     DEF SteadyInv, CallInv, WarmConfig, ColdConfig, SteadyClamp, ShiftedPeriod

\* Off and SetAmplitude touch files that no setting is kept in, and the driver
\* only the one that tells whether the motor runs.
LEMMA OtherStep ==
    ASSUME VibIInv, Off \/ SetAmplitude \/ MotorStops
    PROVE  VibIInv'
<1> USE DEF VibIInv
<1>1. \A w \in Wanted : w[1] \in Files \ {"activate", "rtp_input"}
  BY DEF Wanted, Common, Config, Files
<1>2. UNCHANGED <<cal, steady, asked, writeFailed, failures, lastOut>>
  BY DEF Off, SetAmplitude, MotorStops
<1>3. Wanted' = Wanted
  BY <1>2, WantedKept
<1>4. CASE Off \/ SetAmplitude
  <2>1. PICK e \in Writes : todo' = <<e>> /\ e.file \in {"activate", "rtp_input"}
    <3>1. Checked("activate", 0) \in Writes
      BY DEF Checked, Writes, Files
    <3>2. \A a \in 1 .. 100 :
             Checked("rtp_input", RoundedQuotient(a * MAX_RTP_INPUT, 100)) \in Writes
      BY Rounded DEF Checked, Writes, Files, MAX_RTP_INPUT
    <3> QED
      BY <1>4, <3>1, <3>2 DEF Off, SetAmplitude, Checked
  <2>2. todo' \in Seq(Writes) /\ Elements(todo') = {e}
    BY <2>1, ListsElements
  <2>3. vibPc = "idle" /\ vibPc' = "call" /\ driver' = driver
    BY <1>4 DEF Off, SetAmplitude
  <2>4. VibTypeOK'
    BY <1>2, <2>2, <2>3 DEF VibTypeOK
  <2>5. Elements(todo) = {}
    BY <2>3, ListsElements DEF CallInv
  <2>6. SettingsInv'
    BY <1>1, <1>2, <1>3, <2>1, <2>2, <2>3, <2>5 DEF SettingsInv, InPlace
  <2> QED
    BY <1>2, <2>3, <2>4, <2>6
       DEF SteadyInv, CallInv, WarmConfig, ColdConfig, SteadyClamp, ShiftedPeriod
<1>5. CASE MotorStops
  <2>1. UNCHANGED <<vibPc, todo>> /\ driver' = [driver EXCEPT !["activate"] = 0]
    BY <1>5 DEF MotorStops
  <2>2. VibTypeOK'
    BY <1>2, <2>1 DEF VibTypeOK
  <2>3. \A w \in Wanted : InPlace(w) => InPlace(w)'
    BY <1>1, <2>1 DEF InPlace, VibTypeOK
  <2>4. SettingsInv'
    BY <1>2, <1>3, <2>3 DEF SettingsInv
  <2> QED
    BY <1>2, <2>1, <2>2, <2>4
       DEF SteadyInv, CallInv, WarmConfig, ColdConfig, SteadyClamp, ShiftedPeriod
<1> QED
  BY <1>4, <1>5

LEMMA VibStutter ==
    ASSUME VibIInv, UNCHANGED vibVars
    PROVE  VibIInv'
<1> USE DEF VibIInv, vibVars
<1>1. Wanted' = Wanted
  BY WantedKept
<1>2. VibTypeOK' /\ SettingsInv'
  BY <1>1 DEF VibTypeOK, SettingsInv, InPlace
<1> QED
  BY <1>2 DEF SteadyInv, CallInv, WarmConfig, ColdConfig, SteadyClamp, ShiftedPeriod

\* What the last call that turns the motor on has asked for is in the driver or
\* on its way there, and the steady configuration is that of the temperature.
THEOREM VibInvariance == VibSpec => []VibIInv
<1>1. ASSUME VibIInv, [VibNext]_vibVars PROVE VibIInv'
  BY <1>1, ConstructStep, WrittenStep, WriteFailsStep, CallReturnsStep, OnStep, PerformStep,
     OtherStep, VibStutter DEF VibNext
<1> QED
  BY <1>1, VibInitInvariant, PTL DEF VibSpec

\* Every variable of the vibrator has its type.
THEOREM VibTypeCorrect == VibSpec => []VibTypeOK
  BY VibInvariance, PTL DEF VibIInv

-----------------------------------------------------------------------------
(* The properties.                                                          *)

LEMMA IdleSet ==
    ASSUME VibIInv, RunsUnharmed
    PROVE  \A file, value : <<file, value>> \in Wanted => driver[file] = value
<1>1. Elements(todo) = {}
  BY ListsElements DEF VibIInv, RunsUnharmed, CallInv
<1>2. \A w \in Wanted : driver[w[1]] = w[2]
  BY <1>1 DEF VibIInv, RunsUnharmed, SettingsInv, InPlace
<1> QED
  BY <1>2

LEMMA PlaysThen == VibIInv => PlaysEffect
<1> SUFFICES ASSUME VibIInv, RunsUnharmed, asked.op = "perform" PROVE PlaysEffect
  BY DEF PlaysEffect
<1>1. asked.effect \in Effects /\ asked.strength \in Strengths
  BY DEF VibIInv, VibTypeOK, NoCall
<1> DEFINE offset == VolOffset(asked.effect, asked.strength)
           size == cal.duration[asked.effect]
<1>2. Wanted = {<<"set_sequencer", Sequence(asked.effect)>>}
               \cup Common(size, Waveform)
               \cup Config(cal.effectShape, EffectClamp(offset), cal.lraPeriod)
  BY DEF Wanted
<1>3. LoopMode(size, Waveform) = Open
  BY DEF LoopMode, Waveform, Rtp
<1>4. offset = LevelOf[asked.effect][IF asked.strength = "LIGHT" THEN 1 ELSE 2]
  BY <1>1, VolOffsetType
<1> HIDE DEF offset, size
<1>5. /\ driver["set_sequencer"] = Sequence(asked.effect)
      /\ driver["ctrl_loop"] = Open /\ driver["duration"] = size
      /\ driver["mode"] = Waveform
  BY <1>2, <1>3, IdleSet DEF Common
<1>6. ASSUME cal.dynamic
      PROVE  /\ driver["lra_wave_shape"] = cal.effectShape
             /\ driver["od_clamp"] = EffectClamp(offset)
             /\ driver["ol_lra_period"] = cal.lraPeriod
  BY <1>2, <1>6, IdleSet DEF Config
<1> QED
  BY <1>4, <1>5, <1>6 DEF PlaysEffect, size

LEMMA VibratesThen ==
    ASSUME VibIInv
    PROVE  VibratesAsAsked /\ GentleWhileCold
<1> SUFFICES ASSUME RunsUnharmed, asked.op = "on" PROVE VibratesAsAsked /\ GentleWhileCold
  BY DEF VibratesAsAsked, GentleWhileCold
<1>1. cal \in Calibrations
  BY DEF VibIInv, VibTypeOK
<1>2. Wanted = Common(asked.timeoutMs, Rtp)
               \cup Config(cal.steadyShape, steady.clamp, steady.period)
  BY DEF Wanted
<1>3. /\ driver["ctrl_loop"] = LoopMode(asked.timeoutMs, Rtp)
      /\ driver["duration"] = asked.timeoutMs /\ driver["mode"] = Rtp
  BY <1>2, IdleSet DEF Common
<1>4. ASSUME cal.dynamic
      PROVE  /\ driver["lra_wave_shape"] = cal.steadyShape
             /\ driver["od_clamp"] = steady.clamp
             /\ driver["ol_lra_period"] = steady.period
  BY <1>2, <1>4, IdleSet DEF Config
<1>5. VibratesAsAsked
  BY <1>3, <1>4 DEF VibratesAsAsked, LoopMode, Open, Close
<1>6. ASSUME cal.dynamic
      PROVE  steady = IF lastOut = "cold" THEN ColdConfig ELSE WarmConfig
  BY <1>6 DEF VibIInv, SteadyInv, RunsUnharmed
<1>7. ShiftedPeriod(cal) >= cal.lraPeriod
  BY <1>1, ShiftedPeriodType
<1>8. GentleWhileCold
  BY <1>4, <1>6, <1>7 DEF GentleWhileCold, WarmConfig, ColdConfig
<1> QED
  BY <1>5, <1>8

LEMMA ClampThen == VibIInv => ClampInBounds
<1> SUFFICES ASSUME VibIInv, cal.dynamic, vibPc = "idle",
                    cal.longVoltageMax >= STEADY_VOLTAGE_LOWER_BOUND
             PROVE  steady.clamp \in STEADY_VOLTAGE_LOWER_BOUND .. cal.longVoltageMax
  BY DEF ClampInBounds
<1>1. cal \in Calibrations /\ cal.longVoltageMax \in Nat
  BY VibAssumption DEF VibIInv, VibTypeOK
<1>2. SteadyClamp(cal) \in STEADY_VOLTAGE_LOWER_BOUND .. cal.longVoltageMax
  BY <1>1, SteadyClampBounds
<1>3. steady.clamp \in {STEADY_VOLTAGE_LOWER_BOUND, SteadyClamp(cal)}
  BY DEF VibIInv, SteadyInv, WarmConfig, ColdConfig
<1> QED
  BY <1>1, <1>2, <1>3 DEF STEADY_VOLTAGE_LOWER_BOUND

\* A motor that runs does what the last call asked for and nothing of the calls
\* before it, gently while it is cold and never above the largest voltage: for
\* every calibration, duration, temperature and sequence of calls, with any
\* number of failed writes in them.
THEOREM VibDoesAsAsked == VibSpec => []MotorAsAsked
<1>1. VibIInv => MotorAsAsked
  BY PlaysThen, VibratesThen, ClampThen DEF MotorAsAsked
<1> QED
  BY <1>1, VibInvariance, PTL

-----------------------------------------------------------------------------
(* BootSequence: BootIInv is inductive.                                     *)

\* The labels from one on, in the order of the boot.
AfterFlag    == {"done"}
AfterMbn     == {"flag"} \cup AfterFlag
AfterVerinfo == {"mbn"} \cup AfterMbn
Copying      == {"rm", "configs", "verinfo"}
AfterDbFlag  == {"version"} \cup Copying \cup AfterVerinfo
AfterDb      == {"dbflag"} \cup AfterDbFlag

\* The configuration is not known to be spoiled or lost.
Unspoilt == "config" \notin failed \cup lost

\* What ver_info.txt vouches for: once it may name the version whose copy was
\* begun last, on the disk or after a loss of power, that copy was finished.
ConfigInv ==
    /\ ver \in found.ver /\ config \in found.config
    /\ bootPc \notin Copying \cup AfterVerinfo => found.ver = {ver} /\ found.config = {config}
    /\ bootPc \in Copying => begun = firmware /\ begun \notin found.ver
    /\ bootPc \notin Copying /\ begun \in found.ver /\ Unspoilt => config = begun
    /\ bootPc = "verinfo" /\ Unspoilt => config = firmware
    /\ bootPc \in AfterVerinfo => ver = firmware \/ begun = firmware
    /\ bootPc \in AfterVerinfo /\ begun = firmware /\ Unspoilt => config = firmware
    /\ bootPc \in AfterMbn /\ config # "none" => mbn = firmware \/ "mbn" \in failed

DatabaseInv ==
    /\ bootPc \in AfterDb => qcril # "none" \/ "qcril" \in failed
    /\ qcril = "part" => "qcril" \in failed \cup lost

\* The flags for the RIL are set in this boot and no earlier than they should.
FlagInv ==
    /\ copyComplete => bootPc \in AfterFlag
    /\ dbCheckDone => bootPc \in AfterDbFlag

BootIInv == BootTypeOK /\ ConfigInv /\ DatabaseInv /\ FlagInv

\* The programs of the first boot start from a wiped device.
LEMMA BootInitInvariant == BootInit => BootIInv
<1> SUFFICES ASSUME BootInit PROVE BootIInv
  OBVIOUS
<1>1. firmware \in Versions /\ boots \in 0 .. MaxBoots
  BY BootAssumption DEF BootInit
<1>2. BootTypeOK
  BY <1>1 DEF BootInit, BootTypeOK, Copies
<1>3. ConfigInv
  BY DEF BootInit, ConfigInv, Copying, AfterVerinfo, AfterMbn, AfterFlag
<1>4. DatabaseInv /\ FlagInv
  BY DEF BootInit, DatabaseInv, FlagInv, AfterDb, AfterDbFlag, Copying, AfterVerinfo,
         AfterMbn, AfterFlag
<1> QED
  BY <1>2, <1>3, <1>4 DEF BootIInv

\* What may be left of a file is of the kind of the file.
LEMMA LeftTypes ==
    ASSUME BootTypeOK
    PROVE  /\ \A file : HalfDone(file) \subseteq {"none", "part"}
           /\ found.qcril \subseteq {"none", "part", "whole"}
           /\ found.config \subseteq Copies \cup {"empty"}
           /\ found.mbn \subseteq Copies /\ found.ver \subseteq Copies
  BY DEF BootTypeOK, HalfDone

\* Every variable of BootSequence keeps its type.
LEMMA TypeStep == BootTypeOK /\ [BootNext]_bootVars => BootTypeOK'
<1> SUFFICES ASSUME BootTypeOK, [BootNext]_bootVars PROVE BootTypeOK'
  OBVIOUS
<1> USE BootAssumption DEF data, bootHistory
<1>1. CASE Boot
  <2>1. /\ boots' \in 0 .. MaxBoots /\ bootPc' = "keymasters" /\ available' = {}
        /\ firmware' \in Versions
    BY <1>1 DEF Boot, BootTypeOK
  <2>2. /\ qcril' \in {"none", "part", "whole"} /\ ver' \in Copies
        /\ mbn' \in Copies /\ config' \in Copies \cup {"empty"}
    BY <1>1, LeftTypes DEF Boot, Inside, Copies
  <2>3. found' = [qcril |-> {qcril'}, config |-> {config'}, mbn |-> {mbn'}, ver |-> {ver'}]
    BY <1>1 DEF Boot
  <2>4. lost' \subseteq {"qcril", "config", "mbn"}
    BY <1>1 DEF Boot, BootTypeOK
  <2>5. UNCHANGED <<begun, failed>> /\ dbCheckDone' = FALSE /\ copyComplete' = FALSE
    BY <1>1 DEF Boot
  <2> QED
    BY <2>1, <2>2, <2>3, <2>4, <2>5 DEF BootTypeOK
<1>2. CASE Registration
  BY <1>2 DEF Registration, BootTypeOK, Keymasters
<1>3. CASE WaitForStrongbox
  BY <1>3 DEF WaitForStrongbox, BootTypeOK
<1>4. CASE CopyDatabase
  <2>1. qcril' \in {"none", "part", "whole"}
    BY <1>4 DEF CopyDatabase, BootTypeOK
  <2>2. /\ failed' \subseteq {"qcril", "config", "mbn"}
        /\ lost' \subseteq {"qcril", "config", "mbn"}
    BY <1>4 DEF CopyDatabase, Succeeds, Fails, BootTypeOK
  <2>3. \/ UNCHANGED found
        \/ found' = [found EXCEPT !.qcril = Traces("qcril", qcril')]
    BY <1>4 DEF CopyDatabase
  <2>4. Traces("qcril", qcril') \subseteq {"none", "part", "whole"}
    BY <2>1, LeftTypes DEF Traces, BootTypeOK
  <2>5. /\ bootPc' = "dbflag"
        /\ UNCHANGED <<boots, available, firmware, config, mbn, ver, dbCheckDone,
                       copyComplete, begun>>
    BY <1>4 DEF CopyDatabase, Runs
  <2> QED
    BY <2>1, <2>2, <2>3, <2>4, <2>5 DEF BootTypeOK
<1>5. CASE DbCheckDone
  BY <1>5 DEF DbCheckDone, Runs, BootTypeOK
<1>6. CASE CompareVersions
  BY <1>6 DEF CompareVersions, Runs, BootTypeOK
<1>7. CASE RemoveConfig
  <2>1. config' \in Copies \cup {"empty"} /\ mbn' \in Copies
    BY <1>7, LeftTypes DEF RemoveConfig, Inside, BootTypeOK, Copies
  <2>2. failed' \subseteq {"qcril", "config", "mbn"} /\ UNCHANGED lost
    BY <1>7 DEF RemoveConfig, Fails, BootTypeOK
  <2>3. /\ Traces("config", config') \subseteq Copies \cup {"empty"}
        /\ Traces("mbn", mbn') \subseteq Copies
    BY <2>1, LeftTypes DEF Traces, Copies
  <2>4. found' = [found EXCEPT !.config = Traces("config", config'),
                               !.mbn = Traces("mbn", mbn')]
    BY <1>7 DEF RemoveConfig
  <2>5. /\ bootPc' = "configs"
        /\ UNCHANGED <<boots, available, firmware, qcril, ver, dbCheckDone, copyComplete,
                       begun>>
    BY <1>7 DEF RemoveConfig, Runs, Then
  <2> QED
    BY <2>1, <2>2, <2>3, <2>4, <2>5 DEF BootTypeOK
<1>8. CASE CopyConfigs
  <2>1. config' \in Copies \cup {"empty"}
    BY <1>8, LeftTypes DEF CopyConfigs, BootTypeOK, Copies
  <2>2. /\ failed' \subseteq {"qcril", "config", "mbn"}
        /\ lost' \subseteq {"qcril", "config", "mbn"}
    BY <1>8 DEF CopyConfigs, Succeeds, Fails, BootTypeOK
  <2>3. Traces("config", config') \subseteq Copies \cup {"empty"}
    BY <2>1, LeftTypes DEF Traces, Copies
  <2>4. found' = [found EXCEPT !.config = Traces("config", config')]
    BY <1>8 DEF CopyConfigs
  <2>5. /\ bootPc' = "verinfo"
        /\ UNCHANGED <<boots, available, firmware, qcril, mbn, ver, dbCheckDone,
                       copyComplete, begun>>
    BY <1>8 DEF CopyConfigs, Runs, Then
  <2> QED
    BY <2>1, <2>2, <2>3, <2>4, <2>5 DEF BootTypeOK
<1>9. CASE CopyVersion
  <2>1. ver' \in Copies
    BY <1>9, LeftTypes DEF CopyVersion, BootTypeOK, Copies
  <2>2. Traces("ver", ver') \subseteq Copies
    BY <2>1, LeftTypes DEF Traces, Copies
  <2>3. found' = [found EXCEPT !.ver = Traces("ver", ver')]
    BY <1>9 DEF CopyVersion
  <2>4. /\ bootPc' = "mbn"
        /\ UNCHANGED <<boots, available, firmware, qcril, config, mbn, dbCheckDone,
                       copyComplete, bootHistory>>
    BY <1>9 DEF CopyVersion, Runs, Then
  <2> QED
    BY <2>1, <2>2, <2>3, <2>4 DEF BootTypeOK
<1>10. CASE CopyMbn
  <2>1. mbn' \in Copies
    BY <1>10, LeftTypes DEF CopyMbn, Inside, BootTypeOK, Copies
  <2>2. /\ failed' \subseteq {"qcril", "config", "mbn"}
        /\ lost' \subseteq {"qcril", "config", "mbn"}
    BY <1>10 DEF CopyMbn, Succeeds, Fails, BootTypeOK
  <2>3. Traces("mbn", mbn') \subseteq Copies
    BY <2>1, LeftTypes DEF Traces, Copies
  <2>4. found' = [found EXCEPT !.mbn = Traces("mbn", mbn')]
    BY <1>10 DEF CopyMbn
  <2>5. /\ bootPc' = "flag"
        /\ UNCHANGED <<boots, available, firmware, qcril, config, ver, dbCheckDone,
                       copyComplete, begun>>
    BY <1>10 DEF CopyMbn, Runs
  <2> QED
    BY <2>1, <2>2, <2>3, <2>4, <2>5 DEF BootTypeOK
<1>11. CASE CopyComplete
  BY <1>11 DEF CopyComplete, Runs, BootTypeOK
<1>12. CASE UNCHANGED bootVars
  BY <1>12 DEF bootVars, BootTypeOK
<1> QED
  BY <1>1, <1>2, <1>3, <1>4, <1>5, <1>6, <1>7, <1>8, <1>9, <1>10, <1>11, <1>12
     DEF BootNext, BootStep

\* No version is taken for the copy of another, wherever a boot cuts the script
\* and whatever a loss of power takes back.
LEMMA ConfigStep == BootIInv /\ [BootNext]_bootVars => ConfigInv'
<1> SUFFICES ASSUME BootIInv, [BootNext]_bootVars PROVE ConfigInv'
  OBVIOUS
<1> USE DEF Copying, AfterVerinfo, AfterMbn, AfterFlag, Unspoilt, data, bootHistory
<1>0. /\ ConfigInv
      /\ firmware \in Versions /\ firmware \notin {"none", "part", "empty"}
      /\ found \in [qcril : SUBSET {"none", "part", "whole"},
                    config : SUBSET (Copies \cup {"empty"}),
                    mbn : SUBSET Copies, ver : SUBSET Copies]
  BY BootAssumption DEF BootIInv, BootTypeOK
<1>1. CASE Boot
  <2>1. /\ bootPc' = "keymasters" /\ UNCHANGED <<begun, failed>>
        /\ found'.ver = {ver'} /\ found'.config = {config'} /\ lost \subseteq lost'
        /\ config' # config /\ bootPc \notin {"rm", "configs"} => "config" \in lost'
        /\ ver' \in found.ver \cup HalfDone("ver")
    BY <1>1 DEF Boot
  <2> SUFFICES ASSUME begun = ver', Unspoilt' PROVE config' = begun
    BY <2>1 DEF ConfigInv
  <2>2. bootPc \notin Copying
    BY <1>0, <2>1 DEF ConfigInv, HalfDone
  <2>3. begun \in found.ver
    BY <2>1, <2>2 DEF HalfDone
  <2> QED
    BY <1>0, <2>1, <2>2, <2>3 DEF ConfigInv
<1>2. CASE Registration
  BY <1>0, <1>2 DEF Registration, ConfigInv
<1>3. CASE WaitForStrongbox
  BY <1>0, <1>3 DEF WaitForStrongbox, ConfigInv
<1>4. CASE CopyDatabase
  <2>1. /\ bootPc = "db" /\ bootPc' = "dbflag"
        /\ UNCHANGED <<firmware, config, mbn, ver, begun>>
        /\ "config" \in failed' <=> "config" \in failed
        /\ "config" \in lost' <=> "config" \in lost
    BY <1>4 DEF CopyDatabase, Runs, Succeeds, Fails
  <2>2. found'.ver = found.ver /\ found'.config = found.config
    BY <1>0, <1>4 DEF CopyDatabase
  <2> QED
    BY <1>0, <2>1, <2>2 DEF ConfigInv
<1>5. CASE DbCheckDone
  BY <1>0, <1>5 DEF DbCheckDone, Runs, ConfigInv
<1>6. CASE CompareVersions
  BY <1>0, <1>6 DEF CompareVersions, Runs, NeedsCopy, ConfigInv
<1>7. CASE RemoveConfig
  <2>1. /\ bootPc = "rm" /\ bootPc' = "configs" /\ UNCHANGED <<firmware, ver, begun>>
        /\ found'.ver = found.ver /\ found'.config = Traces("config", config')
    BY <1>0, <1>7 DEF RemoveConfig, Runs, Then
  <2> QED
    BY <1>0, <2>1 DEF ConfigInv, Traces
<1>8. CASE CopyConfigs
  <2>1. /\ bootPc = "configs" /\ bootPc' = "verinfo" /\ UNCHANGED <<firmware, ver, begun>>
        /\ found'.ver = found.ver /\ found'.config = Traces("config", config')
    BY <1>0, <1>8 DEF CopyConfigs, Runs, Then
  <2>2. Unspoilt' => config' = firmware
    BY <1>8 DEF CopyConfigs, Succeeds, Fails
  <2> QED
    BY <1>0, <2>1, <2>2 DEF ConfigInv, Traces
<1>9. CASE CopyVersion
  <2>1. /\ bootPc = "verinfo" /\ bootPc' = "mbn"
        /\ UNCHANGED <<firmware, config, mbn, begun, failed, lost>>
        /\ found'.config = found.config /\ ver' \in found'.ver
    BY <1>0, <1>9 DEF CopyVersion, Runs, Then, Traces
  <2> QED
    BY <1>0, <2>1 DEF ConfigInv
<1>10. CASE CopyMbn
  <2>1. /\ bootPc = "mbn" /\ bootPc' = "flag"
        /\ UNCHANGED <<firmware, config, ver, begun>>
        /\ found'.ver = found.ver /\ found'.config = found.config
    BY <1>0, <1>10 DEF CopyMbn, Runs
  <2>2. /\ "config" \in failed' <=> "config" \in failed
        /\ "config" \in lost' <=> "config" \in lost
        /\ config # "none" => mbn' = firmware \/ "mbn" \in failed'
    BY <1>10 DEF CopyMbn, Inside, Succeeds, Fails
  <2> QED
    BY <1>0, <2>1, <2>2 DEF ConfigInv
<1>11. CASE CopyComplete
  BY <1>0, <1>11 DEF CopyComplete, Runs, ConfigInv
<1>12. CASE UNCHANGED bootVars
  BY <1>0, <1>12 DEF bootVars, ConfigInv
<1> QED
  BY <1>1, <1>2, <1>3, <1>4, <1>5, <1>6, <1>7, <1>8, <1>9, <1>10, <1>11, <1>12
     DEF BootNext, BootStep

\* The data base is there once it was looked for, and the flags are set behind
\* what they tell.
LEMMA DatabaseStep == BootIInv /\ [BootNext]_bootVars => DatabaseInv' /\ FlagInv'
<1> SUFFICES ASSUME BootIInv, [BootNext]_bootVars PROVE DatabaseInv' /\ FlagInv'
  OBVIOUS
<1> USE DEF DatabaseInv, FlagInv, Copying, AfterVerinfo, AfterMbn, AfterFlag, AfterDb,
            AfterDbFlag, data, bootHistory
<1>0. /\ DatabaseInv /\ FlagInv
      /\ copyComplete \in BOOLEAN /\ dbCheckDone \in BOOLEAN
  BY DEF BootIInv, BootTypeOK
<1>1. CASE Boot
  <2>1. /\ bootPc' = "keymasters" /\ copyComplete' = FALSE /\ dbCheckDone' = FALSE
        /\ qcril' # qcril => "qcril" \in lost'
        /\ lost \subseteq lost' /\ UNCHANGED failed
    BY <1>1 DEF Boot
  <2> QED
    BY <1>0, <2>1
<1>2. CASE Registration
  BY <1>0, <1>2 DEF Registration
<1>3. CASE WaitForStrongbox
  BY <1>0, <1>3 DEF WaitForStrongbox
<1>4. CASE CopyDatabase
  BY <1>0, <1>4 DEF CopyDatabase, Runs, Missing, Succeeds, Fails
<1>5. CASE DbCheckDone
  BY <1>0, <1>5 DEF DbCheckDone, Runs
<1>6. CASE CompareVersions
  BY <1>0, <1>6 DEF CompareVersions, Runs
<1>7. CASE RemoveConfig
  BY <1>0, <1>7 DEF RemoveConfig, Runs, Then, Fails
<1>8. CASE CopyConfigs
  BY <1>0, <1>8 DEF CopyConfigs, Runs, Then, Succeeds, Fails
<1>9. CASE CopyVersion
  BY <1>0, <1>9 DEF CopyVersion, Runs, Then
<1>10. CASE CopyMbn
  BY <1>0, <1>10 DEF CopyMbn, Runs, Succeeds, Fails
<1>11. CASE CopyComplete
  BY <1>0, <1>11 DEF CopyComplete, Runs
<1>12. CASE UNCHANGED bootVars
  BY <1>0, <1>12 DEF bootVars
<1> QED
  BY <1>1, <1>2, <1>3, <1>4, <1>5, <1>6, <1>7, <1>8, <1>9, <1>10, <1>11, <1>12
     DEF BootNext, BootStep

\* The inductive invariant of a boot.
THEOREM BootInvariance == BootSpec => []BootIInv
<1>1. BootIInv /\ [BootNext]_bootVars => BootIInv'
  BY TypeStep, ConfigStep, DatabaseStep DEF BootIInv
<1> QED
  BY <1>1, BootInitInvariant, PTL DEF BootSpec

\* Wherever boots and losses of power cut init.radio.sh short: when the RIL is
\* told that the copy is complete, it is that of the firmware unless its
\* commands failed, a loss of power took it after it was finished, or the
\* firmware went back; when it is told that the data base was checked, that is
\* whole unless its copy failed, was cut short or lost.
THEOREM CopiesCorrectly == BootSpec => [](CompleteMeansCurrent /\ CheckedMeansWhole)
<1>1. BootIInv => CompleteMeansCurrent
  BY BootAssumption DEF BootIInv, BootTypeOK, ConfigInv, FlagInv, CompleteMeansCurrent,
     WentBack, Unspoilt, AfterVerinfo, AfterMbn, AfterFlag
<1>2. BootIInv => CheckedMeansWhole
  BY DEF BootIInv, BootTypeOK, DatabaseInv, FlagInv, CheckedMeansWhole, AfterDb
<1> QED
  BY <1>1, <1>2, BootInvariance, PTL

-----------------------------------------------------------------------------
(* EuiccDisabler: EuiccIInv is inductive.                                   *)

\* The loop of enableOrDisableEuicc has set every package it is done with.
LoopInv ==
    /\ euiccPc \in {"packages", "done"} =>
          /\ flag <=> present # Dependencies
          /\ \A p \in 1 .. package - 1 : p \in euicc <=> ~ flag
    /\ euiccPc = "done" => package > Packages

EuiccIInv == EuiccTypeOK /\ LoopInv

LEMMA EuiccInitInvariant == EuiccInit => EuiccIInv
<1> SUFFICES ASSUME EuiccInit PROVE EuiccIInv
  OBVIOUS
<1>1. 1 \in 1 .. Packages + 1
  BY EuiccAssumption
<1>2. EuiccTypeOK
  BY <1>1 DEF EuiccInit, EuiccTypeOK
<1>3. LoopInv
  BY DEF EuiccInit, LoopInv
<1> QED
  BY <1>2, <1>3 DEF EuiccIInv

LEMMA EuiccStep == EuiccIInv /\ [EuiccNext]_euiccVars => EuiccIInv'
<1> SUFFICES ASSUME EuiccIInv, [EuiccNext]_euiccVars PROVE EuiccIInv'
  OBVIOUS
<1>0. EuiccTypeOK /\ LoopInv /\ package \in Nat \ {0} /\ flag \in BOOLEAN
  BY DEF EuiccIInv, EuiccTypeOK
<1>1. CASE BootCompleted
  <2>1. /\ euiccPc' = "packages" /\ package' = 1 /\ flag' = (present' # Dependencies)
        /\ present' \subseteq Dependencies /\ known' \subseteq 1 .. Packages
        /\ euicc' \subseteq known'
    BY <1>1 DEF BootCompleted, Disables
  <2>2. package' \in 1 .. Packages + 1 /\ 1 .. package' - 1 = {}
    BY <2>1, EuiccAssumption
  <2> QED
    BY <2>1, <2>2 DEF EuiccIInv, EuiccTypeOK, LoopInv
<1>2. CASE SetPackage
  <2>0. /\ euiccPc = "packages" /\ package <= Packages /\ UNCHANGED <<present, known, flag>>
    BY <1>2 DEF SetPackage
  <2>1. CASE Installed(package)
    <3>1. /\ euiccPc' = "packages" /\ package' = package + 1
          /\ euicc' = IF flag THEN euicc \ {package} ELSE euicc \cup {package}
      BY <1>2, <2>0, <2>1 DEF SetPackage
    <3>2. package' \in 1 .. Packages + 1 /\ euicc' \subseteq known'
      BY <1>0, <2>0, <2>1, <3>1, EuiccAssumption DEF EuiccTypeOK, Installed
    <3>3. \A p \in 1 .. package' - 1 : p \in 1 .. package - 1 \/ p = package
      BY <1>0, <3>1
    <3>4. \A p \in 1 .. package - 1 : p \in euicc <=> ~ flag
      BY <1>0, <2>0 DEF LoopInv
    <3>5. \A p \in 1 .. package' - 1 : p \in euicc' <=> ~ flag'
      BY <1>0, <2>0, <3>1, <3>3, <3>4
    <3> QED
      BY <1>0, <2>0, <3>1, <3>2, <3>5 DEF EuiccIInv, EuiccTypeOK, LoopInv
  <2>2. CASE ~ Installed(package)
    BY <1>0, <1>2, <2>0, <2>2 DEF SetPackage, EuiccIInv, EuiccTypeOK, LoopInv
  <2> QED
    BY <2>1, <2>2
<1>3. CASE AllSet
  BY <1>0, <1>3 DEF AllSet, EuiccIInv, EuiccTypeOK, LoopInv
<1>4. CASE UNCHANGED euiccVars
  BY <1>0, <1>4 DEF euiccVars, EuiccIInv, EuiccTypeOK, LoopInv
<1> QED
  BY <1>1, <1>2, <1>3, <1>4 DEF EuiccNext

THEOREM EuiccInvariance == EuiccSpec => []EuiccIInv
  BY EuiccInitInvariant, EuiccStep, PTL DEF EuiccSpec

\* When the loop of enableOrDisableEuicc came to its end, all packages of the
\* eUICC are enabled if every package they depend on is there and enabled, and
\* none otherwise: for any packages and dependencies.
THEOREM EuiccCorrectly == EuiccSpec => []EuiccFollows
<1>1. EuiccIInv => EuiccFollows
  <2> SUFFICES ASSUME EuiccIInv, euiccPc = "done"
               PROVE  euicc = IF present = Dependencies THEN 1 .. Packages ELSE {}
    BY DEF EuiccFollows
  <2>1. /\ flag <=> present # Dependencies
        /\ \A p \in 1 .. package - 1 : p \in euicc <=> ~ flag
        /\ package > Packages /\ package \in 1 .. Packages + 1
        /\ euicc \subseteq 1 .. Packages /\ flag \in BOOLEAN
    BY DEF EuiccIInv, LoopInv, EuiccTypeOK
  <2>2. \A p \in 1 .. Packages : p \in 1 .. package - 1
    BY <2>1, EuiccAssumption
  <2>3. \A p \in 1 .. Packages : p \in euicc <=> present = Dependencies
    BY <2>1, <2>2
  <2> QED
    BY <2>1, <2>3
<1> QED
  BY <1>1, EuiccInvariance, PTL

-----------------------------------------------------------------------------
(* The parts together.                                                      *)

\* A step of the composition is a step of one part, or changes none of it.
LEMMA DiskSteps == [SequentialNext]_SequentialVars => [DiskNext]_diskVars
<1>1. CASE SequentialNext /\ part = "disk"
  BY <1>1 DEF SequentialNext
<1>2. CASE SequentialNext /\ part # "disk"
  BY <1>2 DEF SequentialNext
<1>3. CASE UNCHANGED SequentialVars
  BY <1>3 DEF SequentialVars
<1> QED
  BY <1>1, <1>2, <1>3

LEMMA SwapSteps == [SequentialNext]_SequentialVars => [SwapNext]_swapVars
<1>1. CASE SequentialNext /\ part = "swap"
  BY <1>1 DEF SequentialNext
<1>2. CASE SequentialNext /\ part # "swap"
  BY <1>2 DEF SequentialNext
<1>3. CASE UNCHANGED SequentialVars
  BY <1>3 DEF SequentialVars
<1> QED
  BY <1>1, <1>2, <1>3

LEMMA BootSteps == [SequentialNext]_SequentialVars => [BootNext]_bootVars
<1>1. CASE SequentialNext /\ part = "boot"
  BY <1>1 DEF SequentialNext
<1>2. CASE SequentialNext /\ part # "boot"
  BY <1>2 DEF SequentialNext
<1>3. CASE UNCHANGED SequentialVars
  BY <1>3 DEF SequentialVars
<1> QED
  BY <1>1, <1>2, <1>3

LEMMA EuiccSteps == [SequentialNext]_SequentialVars => [EuiccNext]_euiccVars
<1>1. CASE SequentialNext /\ part = "euicc"
  BY <1>1 DEF SequentialNext
<1>2. CASE SequentialNext /\ part # "euicc"
  BY <1>2 DEF SequentialNext
<1>3. CASE UNCHANGED SequentialVars
  BY <1>3 DEF SequentialVars
<1> QED
  BY <1>1, <1>2, <1>3

LEMMA VibSteps == [SequentialNext]_SequentialVars => [VibNext]_vibVars
<1>1. CASE SequentialNext /\ part = "vibrator"
  BY <1>1 DEF SequentialNext
<1>2. CASE SequentialNext /\ part # "vibrator"
  BY <1>2 DEF SequentialNext
<1>3. CASE UNCHANGED SequentialVars
  BY <1>3 DEF SequentialVars
<1> QED
  BY <1>1, <1>2, <1>3

LEMMA HashSteps == [SequentialNext]_SequentialVars => [HashNext]_hashVars
<1>1. CASE SequentialNext /\ part = "hash"
  BY <1>1 DEF SequentialNext
<1>2. CASE SequentialNext /\ part # "hash"
  BY <1>2 DEF SequentialNext
<1>3. CASE UNCHANGED SequentialVars
  BY <1>3 DEF SequentialVars
<1> QED
  BY <1>1, <1>2, <1>3

LEMMA JsonSteps == [SequentialNext]_SequentialVars => [JsonNext]_jsonVars
<1>1. CASE SequentialNext /\ part = "object"
  BY <1>1 DEF SequentialNext
<1>2. CASE SequentialNext /\ part # "object"
  BY <1>2 DEF SequentialNext
<1>3. CASE UNCHANGED SequentialVars
  BY <1>3 DEF SequentialVars
<1> QED
  BY <1>1, <1>2, <1>3

LEMMA TokSteps == [SequentialNext]_SequentialVars => [TokNext]_tokVars
<1>1. CASE SequentialNext /\ part = "tokener"
  BY <1>1 DEF SequentialNext
<1>2. CASE SequentialNext /\ part # "tokener"
  BY <1>2 DEF SequentialNext
<1>3. CASE UNCHANGED SequentialVars
  BY <1>3 DEF SequentialVars
<1> QED
  BY <1>1, <1>2, <1>3

\* So what is proved of a part by itself holds of it in the composition.
LEMMA EachAlone ==
    SequentialSpec =>
        /\ DiskSpec /\ SwapSpec /\ BootSpec /\ EuiccSpec /\ VibSpec
        /\ HashSpec /\ JsonSpec /\ TokSpec
<1>1. SequentialInit =>
          /\ DiskInit /\ SwapInit /\ BootInit /\ EuiccInit /\ VibInit
          /\ HashInit /\ JsonInit /\ TokInit
  BY DEF SequentialInit
<1>2. SequentialSpec => DiskSpec
  BY <1>1, DiskSteps, PTL DEF SequentialSpec, DiskSpec
<1>3. SequentialSpec => SwapSpec
  BY <1>1, SwapSteps, PTL DEF SequentialSpec, SwapSpec
<1>4. SequentialSpec => BootSpec
  BY <1>1, BootSteps, PTL DEF SequentialSpec, BootSpec
<1>5. SequentialSpec => VibSpec
  BY <1>1, VibSteps, PTL DEF SequentialSpec, VibSpec
<1>6. SequentialSpec => HashSpec
  BY <1>1, HashSteps, PTL DEF SequentialSpec, HashSpec
<1>7. SequentialSpec => JsonSpec
  BY <1>1, JsonSteps, PTL DEF SequentialSpec, JsonSpec
<1>8. SequentialSpec => TokSpec
  BY <1>1, TokSteps, PTL DEF SequentialSpec, TokSpec
<1>9. SequentialSpec => EuiccSpec
  BY <1>1, EuiccSteps, PTL DEF SequentialSpec, EuiccSpec
<1> QED
  BY <1>2, <1>3, <1>4, <1>5, <1>6, <1>7, <1>8, <1>9, PTL

\* What a boot promises of the copies and what it does to the packages of the
\* eUICC, with the exceptions that CompleteMeansCurrent and CheckedMeansWhole
\* name, for any versions, dependencies, packages and number of boots.
THEOREM BootsCorrectly == SequentialSpec => []BootCorrect
<1>1. CompleteMeansCurrent /\ CheckedMeansWhole /\ EuiccFollows => BootCorrect
  BY DEF BootCorrect
<1> QED
  BY <1>1, EachAlone, CopiesCorrectly, EuiccCorrectly, PTL

\* The partition tables, the vibrator HAL, the init scripts and json-c share no
\* state: in the composition too every variable of every part keeps the type
\* its own code gives it.
THEOREM SequentialTypes == SequentialSpec => []SequentialTypeOK
<1>1. DiskIInv => DiskTypeOK
  BY DEF DiskIInv
<1>2. BootIInv => BootTypeOK
  BY DEF BootIInv
<1>3. EuiccIInv => EuiccTypeOK
  BY DEF EuiccIInv
<1>4. /\ DiskTypeOK /\ SwapTypeOK /\ BootTypeOK /\ EuiccTypeOK /\ VibTypeOK
      /\ HashTypeOK /\ JsonTypeOK /\ TokTypeOK
      => SequentialTypeOK
  BY DEF SequentialTypeOK
<1> QED
  BY <1>1, <1>2, <1>3, <1>4, EachAlone, DiskInvariance, SwapTypeCorrect, BootInvariance,
     EuiccInvariance, VibTypeCorrect, HashTypeCorrect, JsonTypeCorrect, TokenerTypes, PTL

\* What each of these programs promises of its state holds of all of them at
\* once, whichever of them moves: gpt_disk_commit leaves a GPT that boots,
\* gpt_boot_chain_swap exchanges the pairs and no more, a boot takes no half
\* copy for a whole one, the motor does as it was asked, the hash table loses
\* nothing, nodes are owned, and a text in pieces is parsed as one.
THEOREM SequentialSafe ==
    SequentialSpec => [](CommitSafe /\ SwapCorrect /\ BootCorrect /\ MotorAsAsked
                         /\ TableSound /\ NodesOwned /\ ParsesInPieces)
  BY EachAlone, CommitsSafely, SwapIsCorrect, BootsCorrectly, VibDoesAsAsked, HashTableSound,
     JsonNodesOwned, PiecesAreOne, PTL
=============================================================================
