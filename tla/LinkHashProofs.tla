---------------------------- MODULE LinkHashProofs ----------------------------
(***************************************************************************)
(* TableSound of LinkHash, and that the table is the ordered map, for any  *)
(* hash function, any keys and any sizes.                                  *)
(***************************************************************************)
EXTENDS LinkHash, FiniteSetTheorems, TLAPS

\* A table of z slots, with all its fields.
Tables(z) ==
    [size : {z}, count : Nat, head : (0 .. z - 1) \cup {Null}, tail : (0 .. z - 1) \cup {Null},
     k    : [0 .. z - 1 -> Keys \cup {EMPTY, FREED}],
     v    : [0 .. z - 1 -> Values \cup {Nothing}],
     next : [0 .. z - 1 -> (0 .. z - 1) \cup {Null}],
     prev : [0 .. z - 1 -> (0 .. z - 1) \cup {Null}]]

\* w is the list, forwards by next and backwards by prev.
Chained(t, w) ==
    /\ Len(w) = t.count
    /\ t.head = IF Len(w) = 0 THEN Null ELSE w[1]
    /\ t.tail = IF Len(w) = 0 THEN Null ELSE w[Len(w)]
    /\ \A n \in 1 .. Len(w) : /\ t.next[w[n]] = IF n = Len(w) THEN Null ELSE w[n + 1]
                              /\ t.prev[w[n]] = IF n = 1 THEN Null ELSE w[n - 1]

\* The list holds each slot that is occupied, once.
Covered(t, w) ==
    /\ \A m, n \in 1 .. Len(w) : w[m] = w[n] => m = n
    /\ \A n \in Slot(t) : ~ Vacant(t, n) <=> \E m \in 1 .. Len(w) : w[m] = n

\* No key is there twice, and the probes for a key come to it before they come
\* to an empty slot.
Findable(t) ==
    /\ \A m, n \in Slot(t) : ~ Vacant(t, m) /\ t.k[m] = t.k[n] => m = n
    /\ \A n \in Slot(t) : ~ Vacant(t, n) =>
          /\ t.v[n] \in Values
          /\ \E s \in Slot(t) : /\ Probe(t, t.k[n], s) = n
                                /\ \A r \in 0 .. s - 1 : t.k[Probe(t, t.k[n], r)] # EMPTY

Sound(t, w) ==
    /\ t.size \in Nat \ {0} /\ t \in Tables(t.size) /\ w \in Seq(Slot(t))
    /\ Chained(t, w) /\ Covered(t, w) /\ Findable(t)

HashIInv ==
    /\ hash \in [Keys -> Hashes]
    /\ result \in {Nothing} \cup (Keys \X (Values \cup {Nothing}))
    /\ endless = FALSE
    /\ table.size <= MaxSize
    /\ \E w \in Seq(Slot(table)) : Sound(table, w)

-----------------------------------------------------------------------------
(* Numbers.                                                                 *)

\* A set of natural numbers has a least element, unless it is empty: its
\* members up to k are a finite set, and there is a smallest such set.
LEMMA LeastElement ==
    ASSUME NEW T \in SUBSET Nat, T # {}
    PROVE  \E x \in T : \A y \in T : x <= y
<1> DEFINE Upto(k) == T \cap 0 .. k
           F == {Upto(k) : k \in T}
<1>1. F \subseteq FiniteSubsetsOf(Nat)
  <2> SUFFICES ASSUME NEW k \in T PROVE Upto(k) \in FiniteSubsetsOf(Nat)
    OBVIOUS
  <2>1. IsFiniteSet(0 .. k)
    BY FS_Interval
  <2>2. IsFiniteSet(Upto(k))
    BY <2>1, FS_Intersection
  <2> QED
    BY <2>2 DEF FiniteSubsetsOf
<1>2. F # {}
  OBVIOUS
<1>3. \E X \in F : \A Y \in F : ~ (<<Y, X>> \in StrictSubsetOrdering(Nat))
  <2> HIDE DEF F
  <2> QED
    BY <1>1, <1>2, FS_StrictSubsetOrderingWellFounded, WFMin
<1>4. PICK x \in T : \A y \in T : ~ (<<Upto(y), Upto(x)>> \in StrictSubsetOrdering(Nat))
  BY <1>3
<1>5. ASSUME NEW y \in T, y < x PROVE FALSE
  <2>1. Upto(y) \subseteq Upto(x)
    BY <1>5
  <2>2. x \in Upto(x) /\ x \notin Upto(y)
    BY <1>5
  <2>3. <<Upto(y), Upto(x)>> \in StrictSubsetOrdering(Nat)
    BY <2>1, <2>2 DEF StrictSubsetOrdering
  <2> QED
    BY <1>4, <2>3
<1> QED
  BY <1>5

LEMMA SetInduction ==
    ASSUME NEW T \in SUBSET Nat, 0 \in T, \A n \in T : n + 1 \in T
    PROVE  T = Nat
<1> SUFFICES ASSUME Nat \ T # {} PROVE FALSE
  OBVIOUS
<1>1. PICK x \in Nat \ T : \A y \in Nat \ T : x <= y
  <2>1. Nat \ T \in SUBSET Nat
    OBVIOUS
  <2> QED
    BY <2>1, LeastElement
<1>2. x # 0 /\ x - 1 \in Nat
  BY <1>1
<1>3. x - 1 \in T
  BY <1>1, <1>2
<1>4. (x - 1) + 1 = x
  BY <1>1
<1> QED
  BY <1>1, <1>3, <1>4

LEMMA Division ==
    ASSUME NEW h \in Nat, NEW z \in Nat \ {0}
    PROVE  h = (z * (h \div z)) + (h % z) /\ h \div z \in Nat /\ h % z \in 0 .. z - 1
  OBVIOUS

LEMMA Remainder ==
    ASSUME NEW h \in Nat, NEW z \in Nat \ {0}, NEW q \in Nat, NEW r \in Nat, r < z,
           h = (z * q) + r
    PROVE  h % z = r
<1>1. PICK p \in Nat, m \in 0 .. z - 1 : p = h \div z /\ m = h % z
  BY Division
<1>2. (z * p) + m = (z * q) + r
  BY <1>1, Division
<1>3. ASSUME NEW a \in Nat, NEW b \in Nat, NEW x \in 0 .. z - 1, NEW y \in 0 .. z - 1,
             (z * a) + x = (z * b) + y, a > b
      PROVE  FALSE
  <2>1. a - b - 1 \in Nat /\ a = b + 1 + (a - b - 1)
    BY <1>3
  <2>2. PICK d \in Nat : a = b + 1 + d
    BY <2>1
  <2>3. z * a = (z * b) + z + (z * d) /\ z * d \in Nat
    BY <2>2
  <2> QED
    BY <1>3, <2>3
<1>4. ~ p > q
  BY <1>2, <1>3
<1>5. ~ q > p
  BY <1>2, <1>3
<1>6. p = q /\ z * p = z * q
  BY <1>4, <1>5
<1> QED
  BY <1>1, <1>2, <1>6

\* The probes for a key come to every slot.
LEMMA ProbesReachAll ==
    ASSUME NEW h \in Nat, NEW z \in Nat \ {0}, NEW n \in 0 .. z - 1
    PROVE  \E s \in 0 .. z - 1 : (h + s) % z = n
<1>1. PICK p \in Nat, m \in 0 .. z - 1 : h = (z * p) + m
  BY Division
<1>2. CASE n >= m
  <2>1. n - m \in 0 .. z - 1
    BY <1>1, <1>2
  <2>2. h + (n - m) = (z * p) + n
    BY <1>1, <1>2
  <2>3. h + (n - m) \in Nat /\ n \in Nat /\ n < z
    BY <1>1, <2>1
  <2>4. (h + (n - m)) % z = n
    BY <1>1, <2>2, <2>3, Remainder
  <2> QED
    BY <2>1, <2>4
<1>3. CASE n < m
  <2>1. (z + n) - m \in 0 .. z - 1
    BY <1>1, <1>3
  <2>2. h + ((z + n) - m) = (z * (p + 1)) + n
    BY <1>1, <1>3
  <2>3. p + 1 \in Nat /\ h + ((z + n) - m) \in Nat /\ n \in Nat /\ n < z
    BY <1>1, <2>1
  <2>4. (h + ((z + n) - m)) % z = n
    BY <2>2, <2>3, Remainder
  <2> QED
    BY <2>1, <2>4
<1> QED
  BY <1>1, <1>2, <1>3

-----------------------------------------------------------------------------
(* Walking the list.                                                        *)

\* What Walk computes, if it computes anything, is the list that is there.
LEMMA WalkIsList ==
    ASSUME NEW t, NEW w, Chained(t, w), Len(w) \in Nat
    PROVE  /\ DOMAIN Walk(t) = 1 .. t.count
           /\ \A n \in 1 .. t.count : Walk(t)[n] = w[n]
<1> DEFINE At(a) == [n \in 1 .. t.count |-> IF n = 1 THEN t.head ELSE t.next[a[n - 1]]]
           c == [n \in 1 .. t.count |-> w[n]]
<1>1. Len(w) = t.count /\ t.count \in Nat
  BY DEF Chained
<1>2. c = At(c)
  <2> SUFFICES ASSUME NEW n \in 1 .. t.count
               PROVE  w[n] = IF n = 1 THEN t.head ELSE t.next[c[n - 1]]
    OBVIOUS
  <2>1. CASE n = 1
    BY <1>1, <2>1 DEF Chained
  <2>2. CASE n # 1
    <3>1. n - 1 \in 1 .. t.count /\ n - 1 # t.count /\ (n - 1) + 1 = n
      BY <1>1, <2>2
    <3>2. t.next[w[n - 1]] = w[n]
      BY <1>1, <3>1 DEF Chained
    <3> QED
      BY <2>2, <3>1, <3>2
  <2> QED
    BY <2>1, <2>2
<1>3. Walk(t) = At(Walk(t))
  BY <1>2 DEF Walk
<1> DEFINE T == {n \in Nat : n \in 1 .. t.count => Walk(t)[n] = w[n]}
<1>4. ASSUME NEW n \in T PROVE n + 1 \in T
  <2> SUFFICES ASSUME n + 1 \in 1 .. t.count PROVE Walk(t)[n + 1] = w[n + 1]
    OBVIOUS
  <2>1. Walk(t)[n + 1] = IF n + 1 = 1 THEN t.head ELSE t.next[Walk(t)[(n + 1) - 1]]
    BY <1>3
  <2>2. (n + 1) - 1 = n
    OBVIOUS
  <2>3. CASE n = 0
    BY <1>1, <2>1, <2>3 DEF Chained
  <2>4. CASE n # 0
    <3>1. n \in 1 .. t.count /\ n # t.count
      BY <1>1, <2>4
    <3>2. Walk(t)[n] = w[n] /\ t.next[w[n]] = w[n + 1]
      BY <1>1, <3>1 DEF Chained
    <3> QED
      BY <2>1, <2>2, <2>4, <3>2
  <2> QED
    BY <2>3, <2>4
<1>5. 0 \in T
  OBVIOUS
<1>6. T = Nat
  <2>1. T \in SUBSET Nat /\ \A n \in T : n + 1 \in T
    BY <1>4
  <2> HIDE DEF T
  <2> QED
    BY <1>5, <2>1, SetInduction
<1>7. \A n \in 1 .. t.count : Walk(t)[n] = w[n]
  BY <1>1, <1>6
<1>8. DOMAIN Walk(t) = 1 .. t.count
  BY <1>3
<1> QED
  BY <1>7, <1>8

\* The first of some steps.
LEMMA FirstOf ==
    ASSUME NEW t, NEW S \in SUBSET Nat, S # {}
    PROVE  FirstStep(t, S) \in S /\ \A r \in S : FirstStep(t, S) <= r
<1>1. \E s \in S : \A r \in S : s <= r
  BY LeastElement
<1> QED
  BY <1>1 DEF FirstStep

LEMMA ProbeFacts ==
    ASSUME hash \in [Keys -> Hashes], NEW t, t.size \in Nat \ {0}, NEW key \in Keys
    PROVE  /\ hash[key] \in Nat
           /\ \A s \in Nat : Probe(t, key, s) \in Slot(t)
           /\ \A n \in Slot(t) : \E s \in Slot(t) : Probe(t, key, s) = n
<1>1. hash[key] \in Nat
  BY HashAssumption
<1>2. ASSUME NEW s \in Nat PROVE Probe(t, key, s) \in Slot(t)
  <2>1. hash[key] + s \in Nat
    BY <1>1
  <2>2. (hash[key] + s) % t.size \in 0 .. t.size - 1
    BY <2>1, Division
  <2> QED
    BY <2>2 DEF Probe, Slot
<1>3. ASSUME NEW n \in Slot(t) PROVE \E s \in Slot(t) : Probe(t, key, s) = n
  BY <1>1, ProbesReachAll DEF Probe, Slot
<1> QED
  BY <1>1, <1>2, <1>3

-----------------------------------------------------------------------------
(* What a sound table holds.                                                *)

LEMMA SoundFacts ==
    ASSUME NEW t, NEW w, Sound(t, w)
    PROVE  /\ t.size \in Nat \ {0} /\ t.count \in Nat /\ Len(w) = t.count
           /\ Slot(t) = 0 .. t.size - 1
           /\ t.k \in [Slot(t) -> Keys \cup {EMPTY, FREED}]
           /\ t.v \in [Slot(t) -> Values \cup {Nothing}]
           /\ t.next \in [Slot(t) -> Links(t)] /\ t.prev \in [Slot(t) -> Links(t)]
           /\ t.head \in Links(t) /\ t.tail \in Links(t)
           /\ \A n \in Slot(t) : ~ Vacant(t, n) <=> t.k[n] \in Keys
           /\ \A m \in 1 .. t.count : w[m] \in Slot(t) /\ ~ Vacant(t, w[m])
           /\ \A n \in Slot(t) : ~ Vacant(t, n) => \E m \in 1 .. t.count : w[m] = n
<1>1. t.size \in Nat \ {0} /\ t \in Tables(t.size) /\ w \in Seq(Slot(t))
  BY DEF Sound
<1>2. /\ t.count \in Nat /\ Slot(t) = 0 .. t.size - 1
      /\ t.k \in [Slot(t) -> Keys \cup {EMPTY, FREED}]
      /\ t.v \in [Slot(t) -> Values \cup {Nothing}]
  BY <1>1 DEF Tables, Slot
<1>3. /\ t.next \in [Slot(t) -> Links(t)] /\ t.prev \in [Slot(t) -> Links(t)]
      /\ t.head \in Links(t) /\ t.tail \in Links(t)
  BY <1>1 DEF Tables, Slot, Links
<1>4. Len(w) = t.count
  BY DEF Sound, Chained
<1>5. \A n \in Slot(t) : ~ Vacant(t, n) <=> t.k[n] \in Keys
  BY <1>2, HashAssumption DEF Vacant
<1>6. \A m \in 1 .. t.count : w[m] \in Slot(t)
  BY <1>1, <1>4
<1>7. \A n \in Slot(t) : ~ Vacant(t, n) <=> \E m \in 1 .. t.count : w[m] = n
  BY <1>4 DEF Sound, Covered
<1> QED
  BY <1>1, <1>2, <1>3, <1>4, <1>5, <1>6, <1>7

\* There are as many entries as occupied slots.
LEMMA CountedSlots ==
    ASSUME NEW t, NEW w, Sound(t, w)
    PROVE  /\ t.count <= t.size
           /\ t.count < t.size => \E n \in Slot(t) : Vacant(t, n)
<1> DEFINE N == 1 .. t.count
<1>1. /\ t.size \in Nat \ {0} /\ t.count \in Nat /\ Len(w) = t.count
      /\ Slot(t) = 0 .. t.size - 1
      /\ \A m \in N : w[m] \in Slot(t)
      /\ \A n \in Slot(t) : ~ Vacant(t, n) => \E m \in N : w[m] = n
  BY SoundFacts
<1>2. PICK f : f = [m \in N |-> w[m]]
  OBVIOUS
<1>3. f \in [N -> Slot(t)]
  BY <1>1, <1>2
<1>4. IsFiniteSet(N) /\ Cardinality(N) = t.count
  <2>1. PICK c \in Nat : c = t.count
    BY <1>1
  <2>2. IsFiniteSet(1 .. c) /\ Cardinality(1 .. c) = IF 1 > c THEN 0 ELSE c - 1 + 1
    BY FS_Interval
  <2> QED
    BY <2>1, <2>2
<1>5. IsFiniteSet(Slot(t)) /\ Cardinality(Slot(t)) = t.size
  BY <1>1, FS_Interval
<1>6. \A m, n \in N : w[m] = w[n] => m = n
  BY <1>1 DEF Sound, Covered
<1>7. f \in Injection(N, Slot(t))
  BY <1>2, <1>3, <1>6 DEF Injection, IsInjective
<1>8. t.count <= t.size
  BY <1>4, <1>5, <1>7, FS_Injection
<1>9. ASSUME \A n \in Slot(t) : ~ Vacant(t, n) PROVE t.size <= t.count
  <2>1. f \in Surjection(N, Slot(t))
    BY <1>1, <1>2, <1>3, <1>9 DEF Surjection
  <2> QED
    BY <1>4, <1>5, <2>1, FS_Surjection
<1> QED
  BY <1>1, <1>8, <1>9

-----------------------------------------------------------------------------
(* A new table, and what an insertion does to one.                          *)

LEMMA NewTableSound ==
    ASSUME NEW z \in Nat \ {0}
    PROVE  /\ Sound(NewTable(z), <<>>) /\ NewTable(z).size = z /\ NewTable(z).count = 0
<1>1. PICK u : u = NewTable(z)
  OBVIOUS
<1>2. /\ u.size = z /\ u.count = 0 /\ u.head = Null /\ u.tail = Null
      /\ u.k = [n \in 0 .. z - 1 |-> EMPTY]
  BY <1>1 DEF NewTable, ClearedSlots
<1>3. u \in Tables(z)
  BY <1>1 DEF NewTable, ClearedSlots, Tables
<1>4. Slot(u) = 0 .. z - 1 /\ \A n \in Slot(u) : Vacant(u, n)
  BY <1>2 DEF Slot, Vacant
<1>5. <<>> \in Seq(Slot(u)) /\ Len(<<>>) = 0
  OBVIOUS
<1> DEFINE w == <<>>
<1>6. w \in Seq(Slot(u)) /\ Len(w) = 0
  BY <1>5
<1> HIDE DEF w
<1>7. Chained(u, w)
  BY <1>2, <1>6 DEF Chained
<1>8. Covered(u, w)
  BY <1>4, <1>6 DEF Covered
<1>9. Findable(u)
  BY <1>4 DEF Findable
<1>10. Sound(u, w)
  BY <1>2, <1>3, <1>6, <1>7, <1>8, <1>9 DEF Sound
<1> QED
  BY <1>1, <1>2, <1>10 DEF w

\* The fields of a table after an insertion into slot n.
PutAt(t, n, key, value) ==
    Linked([t EXCEPT !.k[n] = key, !.v[n] = value, !.count = @ + 1], n)
AfterPut(t, n, key, value, u) ==
    /\ u \in Tables(t.size) /\ u.size = t.size /\ u.count = t.count + 1
    /\ u.k = [t.k EXCEPT ![n] = key] /\ u.v = [t.v EXCEPT ![n] = value]
    /\ u.head = (IF t.head = Null THEN n ELSE t.head) /\ u.tail = n
    /\ u.next[n] = Null /\ u.prev[n] = (IF t.head = Null THEN Null ELSE t.tail)
    /\ t.head # Null => u.next[t.tail] = n
    /\ \A m \in Slot(t) \ {n} : /\ u.prev[m] = t.prev[m]
                                /\ t.head = Null \/ m # t.tail => u.next[m] = t.next[m]

LEMMA PutFields ==
    ASSUME NEW t, t.size \in Nat \ {0}, t \in Tables(t.size), NEW n \in Slot(t),
           NEW key \in Keys, NEW value \in Values,
           t.head # Null => t.tail \in Slot(t) \ {n},
           NEW u, u = PutAt(t, n, key, value)
    PROVE  AfterPut(t, n, key, value, u)
<1> USE DEF AfterPut
<1>1. PICK z \in Nat \ {0} : z = t.size /\ t \in Tables(z) /\ Slot(t) = 0 .. z - 1
  BY DEF Slot
<1>2. /\ t = [size |-> t.size, count |-> t.count, head |-> t.head, tail |-> t.tail,
              k |-> t.k, v |-> t.v, next |-> t.next, prev |-> t.prev]
      /\ t.count \in Nat /\ t.head \in (0 .. z - 1) \cup {Null}
      /\ t.tail \in (0 .. z - 1) \cup {Null}
      /\ t.k \in [0 .. z - 1 -> Keys \cup {EMPTY, FREED}]
      /\ t.v \in [0 .. z - 1 -> Values \cup {Nothing}]
      /\ t.next \in [0 .. z - 1 -> (0 .. z - 1) \cup {Null}]
      /\ t.prev \in [0 .. z - 1 -> (0 .. z - 1) \cup {Null}]
  BY <1>1 DEF Tables
<1>3. PICK x : x = [t EXCEPT !.k[n] = key, !.v[n] = value, !.count = @ + 1]
  OBVIOUS
<1>4. PICK c, hd, tl, ks, vs, nx, pv :
        /\ c = t.count + 1 /\ hd = t.head /\ tl = t.tail /\ nx = t.next /\ pv = t.prev
        /\ ks = [t.k EXCEPT ![n] = key] /\ vs = [t.v EXCEPT ![n] = value]
  OBVIOUS
<1>5. x = [size |-> z, count |-> c, head |-> hd, tail |-> tl, k |-> ks, v |-> vs,
           next |-> nx, prev |-> pv]
  BY <1>1, <1>2, <1>3, <1>4
<1>6. /\ ks \in [0 .. z - 1 -> Keys \cup {EMPTY, FREED}] /\ vs \in [0 .. z - 1 -> Values \cup {Nothing}]
      /\ c \in Nat /\ n \in 0 .. z - 1 /\ z \in {z}
      /\ nx \in [0 .. z - 1 -> (0 .. z - 1) \cup {Null}]
      /\ pv \in [0 .. z - 1 -> (0 .. z - 1) \cup {Null}]
  BY <1>1, <1>2, <1>4
<1>7. CASE t.head = Null
  <2>1. u = [x EXCEPT !.head = n, !.tail = n, !.next[n] = Null, !.prev[n] = Null]
    BY <1>3, <1>4, <1>5, <1>7 DEF PutAt, Linked
  <2>2. PICK ne, pe : ne = [nx EXCEPT ![n] = Null] /\ pe = [pv EXCEPT ![n] = Null]
    OBVIOUS
  <2>3. u = [x EXCEPT !.head = n, !.tail = n, !.next = ne, !.prev = pe]
    BY <1>5, <2>1, <2>2
  <2>4. u = [size |-> z, count |-> c, head |-> n, tail |-> n, k |-> ks, v |-> vs,
             next |-> ne, prev |-> pe]
    BY <1>5, <2>3
  <2>5. /\ ne \in [0 .. z - 1 -> (0 .. z - 1) \cup {Null}] /\ ne[n] = Null
        /\ pe \in [0 .. z - 1 -> (0 .. z - 1) \cup {Null}] /\ pe[n] = Null
        /\ \A m \in Slot(t) \ {n} : ne[m] = nx[m] /\ pe[m] = pv[m]
    BY <1>1, <1>6, <2>2
  <2>6. u \in Tables(z)
    BY <1>6, <2>4, <2>5 DEF Tables
  <2>7. /\ u.size = z /\ u.count = c /\ u.k = ks /\ u.v = vs /\ u.head = n /\ u.tail = n
        /\ u.next = ne /\ u.prev = pe
    BY <2>4
  <2> QED
    BY <1>1, <1>4, <1>7, <2>5, <2>6, <2>7
<1>8. CASE t.head # Null
  <2>1. u = [x EXCEPT !.next[tl] = n, !.prev[n] = tl, !.next[n] = Null, !.tail = n]
    BY <1>3, <1>4, <1>5, <1>8 DEF PutAt, Linked
  <2>2. PICK ne, pe : ne = [nx EXCEPT ![tl] = n, ![n] = Null] /\ pe = [pv EXCEPT ![n] = tl]
    OBVIOUS
  <2>3. u = [x EXCEPT !.next = ne, !.prev = pe, !.tail = n]
    BY <1>5, <2>1, <2>2
  <2>4. u = [size |-> z, count |-> c, head |-> hd, tail |-> n, k |-> ks, v |-> vs,
             next |-> ne, prev |-> pe]
    BY <1>5, <2>3
  <2>5. /\ tl \in 0 .. z - 1 /\ tl # n
        /\ ne \in [0 .. z - 1 -> (0 .. z - 1) \cup {Null}] /\ ne[n] = Null /\ ne[tl] = n
        /\ pe \in [0 .. z - 1 -> (0 .. z - 1) \cup {Null}] /\ pe[n] = tl
        /\ \A m \in Slot(t) \ {n} : pe[m] = pv[m] /\ (m # tl => ne[m] = nx[m])
    BY <1>1, <1>4, <1>6, <1>8, <2>2
  <2>6. hd \in (0 .. z - 1) \cup {Null}
    BY <1>2, <1>4
  <2>7. u \in Tables(z)
    BY <1>6, <2>4, <2>5, <2>6 DEF Tables
  <2>8. /\ u.size = z /\ u.count = c /\ u.k = ks /\ u.v = vs /\ u.head = hd /\ u.tail = n
        /\ u.next = ne /\ u.prev = pe
    BY <2>4
  <2> QED
    BY <1>1, <1>4, <1>8, <2>5, <2>7, <2>8
<1> QED
  BY <1>7, <1>8

LEMMA AppendFacts ==
    ASSUME NEW S, NEW w \in Seq(S), NEW n \in S
    PROVE  /\ Append(w, n) \in Seq(S) /\ Len(Append(w, n)) = Len(w) + 1
           /\ Append(w, n)[Len(w) + 1] = n
           /\ \A m \in 1 .. Len(w) : Append(w, n)[m] = w[m]
  OBVIOUS

\* An insertion puts the key into the first vacant slot its probes come to, and
\* that slot at the end of the list.
LEMMA PutSound ==
    ASSUME hash \in [Keys -> Hashes], NEW t, NEW w, Sound(t, w), NEW key \in Keys,
           NEW value \in Values, \A n \in Slot(t) : t.k[n] # key, RoomFor(t, key) # {},
           NEW u, u = Put(t, key, value)
    PROVE  \E n, x :
              /\ n \in Slot(t)
              /\ Sound(u, x) /\ u.size = t.size /\ u.count = t.count + 1
              /\ u.k[n] = key /\ u.v[n] = value
              /\ x[t.count + 1] = n
              /\ \A m \in 1 .. t.count : /\ x[m] = w[m] /\ u.k[w[m]] = t.k[w[m]]
                                         /\ u.v[w[m]] = t.v[w[m]]
<1>1. /\ t.size \in Nat \ {0} /\ t.count \in Nat /\ Len(w) = t.count
      /\ Slot(t) = 0 .. t.size - 1
      /\ t.k \in [Slot(t) -> Keys \cup {EMPTY, FREED}]
      /\ t.v \in [Slot(t) -> Values \cup {Nothing}]
      /\ \A n \in Slot(t) : ~ Vacant(t, n) <=> t.k[n] \in Keys
      /\ \A m \in 1 .. t.count : w[m] \in Slot(t) /\ ~ Vacant(t, w[m])
      /\ \A n \in Slot(t) : ~ Vacant(t, n) => \E m \in 1 .. t.count : w[m] = n
  BY SoundFacts
<1>2. t \in Tables(t.size) /\ w \in Seq(Slot(t)) /\ Chained(t, w) /\ Covered(t, w) /\ Findable(t)
  BY DEF Sound
<1>3. PICK s : s = FirstStep(t, RoomFor(t, key))
  OBVIOUS
<1>4. /\ s \in Slot(t) /\ Vacant(t, Probe(t, key, s))
      /\ \A r \in 0 .. s - 1 : ~ Vacant(t, Probe(t, key, r))
  <2>1. RoomFor(t, key) \in SUBSET Nat
    BY <1>1 DEF RoomFor
  <2>2. s \in RoomFor(t, key) /\ \A r \in RoomFor(t, key) : s <= r
    BY <1>3, <2>1, FirstOf
  <2>3. s \in Slot(t) /\ Vacant(t, Probe(t, key, s))
    BY <2>2 DEF RoomFor
  <2>4. ASSUME NEW r \in 0 .. s - 1 PROVE ~ Vacant(t, Probe(t, key, r))
    <3>1. r \in Slot(t) /\ ~ s <= r
      BY <1>1, <2>3
    <3> QED
      BY <2>2, <3>1 DEF RoomFor
  <2> QED
    BY <2>3, <2>4
<1>5. PICK n : n = Probe(t, key, s)
  OBVIOUS
<1>6. n \in Slot(t) /\ Vacant(t, n)
  <2>1. s \in Nat
    BY <1>1, <1>4
  <2> QED
    BY <1>1, <1>4, <1>5, <2>1, ProbeFacts
<1>7. u = PutAt(t, n, key, value)
  BY <1>3, <1>5 DEF Put, PutAt
<1>8. t.head # Null => t.tail \in Slot(t) \ {n} /\ t.count > 0 /\ t.tail = w[t.count]
  <2> SUFFICES ASSUME t.head # Null
               PROVE  t.tail \in Slot(t) \ {n} /\ t.count > 0 /\ t.tail = w[t.count]
    OBVIOUS
  <2>1. t.count > 0 /\ t.tail = w[t.count]
    BY <1>1, <1>2 DEF Chained
  <2> QED
    BY <1>1, <1>6, <2>1
<1>9. t.head = Null => t.count = 0
  <2> SUFFICES ASSUME t.count # 0 PROVE t.head # Null
    OBVIOUS
  <2>1. t.head = w[1] /\ w[1] \in Slot(t)
    BY <1>1, <1>2 DEF Chained
  <2> QED
    BY <1>1, <2>1 DEF Null
<1>10. /\ u \in Tables(t.size) /\ u.size = t.size /\ u.count = t.count + 1
       /\ u.k = [t.k EXCEPT ![n] = key] /\ u.v = [t.v EXCEPT ![n] = value]
       /\ u.head = (IF t.head = Null THEN n ELSE t.head) /\ u.tail = n
       /\ u.next[n] = Null /\ u.prev[n] = (IF t.head = Null THEN Null ELSE t.tail)
       /\ t.head # Null => u.next[t.tail] = n
       /\ \A m \in Slot(t) \ {n} : /\ u.prev[m] = t.prev[m]
                                   /\ t.head = Null \/ m # t.tail => u.next[m] = t.next[m]
  <2>1. t.head # Null => t.tail \in Slot(t) \ {n}
    BY <1>8
  <2>2. AfterPut(t, n, key, value, u)
    BY <1>1, <1>2, <1>6, <1>7, <2>1, PutFields
  <2> QED
    BY <2>2 DEF AfterPut
<1>11. PICK x : x = Append(w, n)
  OBVIOUS
<1>12. PICK c \in Nat : c = t.count
  BY <1>1
<1>13. /\ x \in Seq(Slot(t)) /\ Len(x) = c + 1 /\ x[c + 1] = n
       /\ \A m \in 1 .. c : x[m] = w[m]
  BY <1>1, <1>2, <1>6, <1>11, <1>12, AppendFacts
<1>14. \A m \in 1 .. c : w[m] # n /\ w[m] \in Slot(t)
  BY <1>1, <1>6, <1>12
<1>15. /\ u.k[n] = key /\ u.v[n] = value
       /\ \A m \in Slot(t) \ {n} : u.k[m] = t.k[m] /\ u.v[m] = t.v[m]
  BY <1>1, <1>6, <1>10
<1>16. /\ Slot(u) = Slot(t)
       /\ ~ Vacant(u, n)
       /\ \A m \in Slot(t) \ {n} : Vacant(u, m) <=> Vacant(t, m)
       /\ \A j, r : Probe(u, j, r) = Probe(t, j, r)
  BY <1>10, <1>15, HashAssumption DEF Slot, Vacant, Probe
<1>17. Chained(u, x)
  <2>1. u.head = x[1] /\ u.tail = x[c + 1]
    <3>1. CASE c = 0
      BY <1>2, <1>10, <1>12, <1>13, <3>1 DEF Chained
    <3>2. CASE c # 0
      <4>1. t.head = w[1] /\ x[1] = w[1]
        BY <1>1, <1>2, <1>12, <1>13, <3>2 DEF Chained
      <4> QED
        BY <1>9, <1>10, <1>12, <1>13, <3>2, <4>1
    <3> QED
      BY <3>1, <3>2
  <2>2. ASSUME NEW m \in 1 .. c + 1
        PROVE  /\ u.next[x[m]] = IF m = c + 1 THEN Null ELSE x[m + 1]
               /\ u.prev[x[m]] = IF m = 1 THEN Null ELSE x[m - 1]
    <3>1. CASE m = c + 1
      <4>1. u.next[x[m]] = Null /\ x[m] = n
        BY <1>10, <1>13, <3>1
      <4>2. CASE c = 0
        <5>1. t.head = Null
          BY <1>1, <1>2, <1>12, <4>2 DEF Chained
        <5> QED
          BY <1>10, <3>1, <4>1, <4>2, <5>1
      <4>3. CASE c # 0
        <5>1. c \in 1 .. c /\ m - 1 = c /\ m # 1
          BY <3>1, <4>3
        <5>2. t.head = w[1] /\ w[1] \in Slot(t)
          BY <1>1, <1>2, <1>12, <1>14, <4>3 DEF Chained
        <5>3. t.head # Null
          BY <1>1, <5>2 DEF Null
        <5>4. t.tail = w[c] /\ x[c] = w[c]
          BY <1>8, <1>12, <1>13, <5>1, <5>3
        <5> QED
          BY <1>10, <4>1, <5>1, <5>3, <5>4
      <4> QED
        BY <4>2, <4>3
    <3>2. CASE m # c + 1
      <4>1. m \in 1 .. c /\ x[m] = w[m] /\ w[m] # n /\ w[m] \in Slot(t) /\ c > 0
        BY <1>13, <1>14, <3>2
      <4>2. /\ t.next[w[m]] = IF m = c THEN Null ELSE w[m + 1]
            /\ t.prev[w[m]] = IF m = 1 THEN Null ELSE w[m - 1]
        BY <1>1, <1>2, <1>12, <4>1 DEF Chained
      <4>3. t.head # Null /\ t.tail = w[c]
        BY <1>8, <1>9, <1>12, <4>1
      <4>4. u.prev[x[m]] = IF m = 1 THEN Null ELSE x[m - 1]
        <5>1. m # 1 => m - 1 \in 1 .. c
          BY <4>1
        <5>2. u.prev[w[m]] = t.prev[w[m]]
          BY <1>10, <4>1
        <5> QED
          BY <1>13, <4>1, <4>2, <5>1, <5>2
      <4>5. u.next[x[m]] = x[m + 1]
        <5>1. CASE m = c
          BY <1>10, <1>13, <4>1, <4>3, <5>1
        <5>2. CASE m # c
          <6>1. w[m] # w[c] /\ m + 1 \in 1 .. c /\ c \in 1 .. c
            BY <1>1, <1>2, <1>12, <4>1, <5>2 DEF Covered
          <6>2. u.next[w[m]] = t.next[w[m]]
            BY <1>10, <4>1, <4>3, <6>1
          <6> QED
            BY <1>13, <4>1, <4>2, <5>2, <6>1, <6>2
        <5> QED
          BY <5>1, <5>2
      <4> QED
        BY <3>2, <4>4, <4>5
    <3> QED
      BY <3>1, <3>2
  <2>3. Len(x) = u.count /\ Len(x) # 0
    BY <1>10, <1>12, <1>13
  <2> QED
    BY <1>13, <2>1, <2>2, <2>3 DEF Chained
<1>18. Covered(u, x)
  <2>1. ASSUME NEW a \in 1 .. c + 1, NEW b \in 1 .. c + 1, x[a] = x[b] PROVE a = b
    <3>1. \A a1, b1 \in 1 .. c : w[a1] = w[b1] => a1 = b1
      BY <1>1, <1>2, <1>12 DEF Covered
    <3>2. a \in 1 .. c \/ a = c + 1
      OBVIOUS
    <3>3. b \in 1 .. c \/ b = c + 1
      OBVIOUS
    <3> QED
      BY <1>13, <1>14, <2>1, <3>1, <3>2, <3>3
  <2>2. ASSUME NEW m \in Slot(t)
        PROVE  ~ Vacant(u, m) <=> \E a \in 1 .. c + 1 : x[a] = m
    <3>1. CASE m = n
      <4>1. c + 1 \in 1 .. c + 1
        OBVIOUS
      <4> QED
        BY <1>13, <1>16, <3>1, <4>1
    <3>2. CASE m # n
      <4>1. ~ Vacant(t, m) <=> \E a \in 1 .. c : w[a] = m
        BY <1>1, <1>2, <1>12 DEF Covered
      <4>2. ASSUME NEW a \in 1 .. c + 1, x[a] = m PROVE a \in 1 .. c /\ w[a] = m
        BY <1>13, <3>2, <4>2
      <4>3. \A a \in 1 .. c : a \in 1 .. c + 1 /\ x[a] = w[a]
        BY <1>13
      <4> QED
        BY <1>16, <3>2, <4>1, <4>2, <4>3
    <3> QED
      BY <3>1, <3>2
  <2> QED
    BY <1>13, <1>16, <2>1, <2>2 DEF Covered
<1>19. Findable(u)
  <2>1. ASSUME NEW a \in Slot(u), NEW b \in Slot(u), ~ Vacant(u, a), u.k[a] = u.k[b]
        PROVE  a = b
    <3>1. CASE a = n \/ b = n
      BY <1>15, <1>16, <2>1, <3>1
    <3>2. CASE a # n /\ b # n
      BY <1>2, <1>15, <1>16, <2>1, <3>2 DEF Findable
    <3> QED
      BY <3>1, <3>2
  <2>2. ASSUME NEW a \in Slot(t), t.k[a] # EMPTY PROVE u.k[a] # EMPTY
    <3>1. key # EMPTY
      BY HashAssumption
    <3> QED
      BY <1>15, <2>2, <3>1
  <2>3. ASSUME NEW a \in Slot(u), ~ Vacant(u, a)
        PROVE  /\ u.v[a] \in Values
               /\ \E q \in Slot(u) : /\ Probe(u, u.k[a], q) = a
                                     /\ \A r \in 0 .. q - 1 : u.k[Probe(u, u.k[a], r)] # EMPTY
    <3>1. CASE a = n
      <4>1. ASSUME NEW r \in 0 .. s - 1 PROVE u.k[Probe(u, u.k[a], r)] # EMPTY
        <5>0. r \in Nat
          BY <1>1, <1>4
        <5>1. Probe(t, key, r) \in Slot(t)
          BY <1>1, <5>0, ProbeFacts
        <5>2. t.k[Probe(t, key, r)] # EMPTY
          BY <1>4, <4>1 DEF Vacant
        <5> QED
          BY <1>15, <1>16, <2>2, <3>1, <5>1, <5>2
      <4> QED
        BY <1>4, <1>5, <1>15, <1>16, <3>1, <4>1
    <3>2. CASE a # n
      <4>1. u.k[a] = t.k[a] /\ u.v[a] = t.v[a] /\ a \in Slot(t) /\ ~ Vacant(t, a)
        BY <1>15, <1>16, <2>3, <3>2
      <4>2. t.k[a] \in Keys /\ t.v[a] \in Values
        BY <1>1, <1>2, <4>1 DEF Findable
      <4>3. PICK q \in Slot(t) : /\ Probe(t, t.k[a], q) = a
                                 /\ \A r \in 0 .. q - 1 : t.k[Probe(t, t.k[a], r)] # EMPTY
        BY <1>2, <4>1 DEF Findable
      <4>4. ASSUME NEW r \in 0 .. q - 1 PROVE u.k[Probe(u, u.k[a], r)] # EMPTY
        <5>1. r \in Nat
          BY <1>1
        <5>2. Probe(t, t.k[a], r) \in Slot(t)
          BY <1>1, <4>2, <5>1, ProbeFacts
        <5> QED
          BY <1>16, <2>2, <4>1, <4>3, <4>4, <5>2
      <4> QED
        BY <1>16, <4>1, <4>2, <4>3, <4>4
    <3> QED
      BY <3>1, <3>2
  <2> QED
    BY <2>1, <2>3 DEF Findable
<1>20. Sound(u, x)
  BY <1>1, <1>10, <1>13, <1>16, <1>17, <1>18, <1>19 DEF Sound
<1>21. \A m \in 1 .. t.count : x[m] = w[m] /\ u.k[w[m]] = t.k[w[m]] /\ u.v[w[m]] = t.v[w[m]]
  BY <1>12, <1>13, <1>14, <1>15
<1> QED
  BY <1>6, <1>10, <1>12, <1>13, <1>15, <1>20, <1>21

-----------------------------------------------------------------------------
(* A table that grows.                                                      *)

LEMMA RoomExists ==
    ASSUME hash \in [Keys -> Hashes], NEW t, NEW w, Sound(t, w), t.count < t.size, NEW key \in Keys
    PROVE  RoomFor(t, key) # {}
<1>1. t.size \in Nat \ {0}
  BY SoundFacts
<1>2. PICK n \in Slot(t) : Vacant(t, n)
  BY CountedSlots
<1>3. PICK s \in Slot(t) : Probe(t, key, s) = n
  BY <1>1, ProbeFacts
<1> QED
  BY <1>2, <1>3 DEF RoomFor

\* The tables that are built while a table grows, up to the m-th.
Built(t, z, b, m) ==
    [n \in 0 .. m |-> IF n = 0 THEN NewTable(z)
                      ELSE Put(b[n - 1], t.k[Walk(t)[n]], t.v[Walk(t)[n]])]

LEMMA BuiltExists ==
    ASSUME NEW t, NEW z, NEW m \in Nat
    PROVE  \E b : b = Built(t, z, b, m)
<1> DEFINE T == {n \in Nat : \E b : b = Built(t, z, b, n)}
<1>1. 0 \in T
  <2>1. PICK b : b = [n \in 0 .. 0 |-> NewTable(z)]
    OBVIOUS
  <2>2. b = Built(t, z, b, 0)
    BY <2>1 DEF Built
  <2> QED
    BY <2>2
<1>2. ASSUME NEW n \in T PROVE n + 1 \in T
  <2>1. PICK b : b = Built(t, z, b, n)
    OBVIOUS
  <2>2. PICK p : p = Put(b[n], t.k[Walk(t)[n + 1]], t.v[Walk(t)[n + 1]])
    OBVIOUS
  <2>3. PICK c : c = [j \in 0 .. n + 1 |-> IF j = n + 1 THEN p ELSE b[j]]
    OBVIOUS
  <2>4. ASSUME NEW j \in 0 .. n + 1
        PROVE  c[j] = IF j = 0 THEN NewTable(z)
                      ELSE Put(c[j - 1], t.k[Walk(t)[j]], t.v[Walk(t)[j]])
    <3>1. CASE j = n + 1
      <4>1. c[j] = p /\ j # 0 /\ j - 1 = n /\ n \in 0 .. n + 1 /\ n # n + 1
        BY <2>3, <3>1
      <4>2. c[j - 1] = b[n]
        BY <2>3, <4>1
      <4> QED
        BY <2>2, <3>1, <4>1, <4>2
    <3>2. CASE j # n + 1
      <4>1. c[j] = b[j] /\ j \in 0 .. n
        BY <2>3, <3>2
      <4>2. b[j] = IF j = 0 THEN NewTable(z)
                   ELSE Put(b[j - 1], t.k[Walk(t)[j]], t.v[Walk(t)[j]])
        BY <2>1, <4>1 DEF Built
      <4>3. CASE j = 0
        BY <4>1, <4>2, <4>3
      <4>4. CASE j # 0
        <5>1. j - 1 \in 0 .. n + 1 /\ j - 1 # n + 1
          BY <4>1, <4>4
        <5>2. c[j - 1] = b[j - 1]
          BY <2>3, <5>1
        <5> QED
          BY <4>1, <4>2, <4>4, <5>2
      <4> QED
        BY <4>3, <4>4
    <3> QED
      BY <3>1, <3>2
  <2>5. c = [j \in 0 .. n + 1 |-> c[j]]
    BY <2>3
  <2>6. c = Built(t, z, c, n + 1)
    BY <2>4, <2>5 DEF Built
  <2> QED
    BY <2>6
<1>3. T = Nat
  <2>1. T \in SUBSET Nat /\ \A n \in T : n + 1 \in T
    BY <1>2
  <2> HIDE DEF T
  <2> QED
    BY <1>1, <2>1, SetInduction
<1> QED
  BY <1>3

LEMMA ResizedIsBuilt ==
    ASSUME NEW t, NEW z, t.count \in Nat
    PROVE  \E b : b = Built(t, z, b, t.count) /\ Resized(t, z) = b[t.count]
<1>1. PICK m \in Nat : m = t.count
  OBVIOUS
<1>2. \E b : b = Built(t, z, b, m)
  BY BuiltExists
<1>3. \E b : b = [n \in 0 .. t.count |->
                    IF n = 0 THEN NewTable(z)
                    ELSE Put(b[n - 1], t.k[Walk(t)[n]], t.v[Walk(t)[n]])]
  BY <1>1, <1>2 DEF Built
<1> QED
  BY <1>3 DEF Built, Resized

\* The new table holds the same keys and values in the same order.
SameEntries(u, x, t, w, m) ==
    \A n \in 1 .. m : u.k[x[n]] = t.k[w[n]] /\ u.v[x[n]] = t.v[w[n]]

LEMMA ResizedSound ==
    ASSUME hash \in [Keys -> Hashes], NEW t, NEW w, Sound(t, w), NEW z \in Nat, z >= t.count, z > 0
    PROVE  \E x : /\ Sound(Resized(t, z), x) /\ Resized(t, z).size = z
                  /\ Resized(t, z).count = t.count
                  /\ SameEntries(Resized(t, z), x, t, w, t.count)
<1>1. /\ t.count \in Nat /\ Len(w) = t.count
      /\ \A n \in Slot(t) : ~ Vacant(t, n) <=> t.k[n] \in Keys
      /\ \A m \in 1 .. t.count : w[m] \in Slot(t) /\ ~ Vacant(t, w[m])
  BY SoundFacts
<1>2. PICK b : b = Built(t, z, b, t.count) /\ Resized(t, z) = b[t.count]
  BY <1>1, ResizedIsBuilt
<1>3. PICK c \in Nat : c = t.count
  BY <1>1
<1>4. \A n \in 1 .. c : Walk(t)[n] = w[n]
  BY <1>1, <1>3, WalkIsList DEF Sound
<1> DEFINE P(n) == \E x : /\ Sound(b[n], x) /\ b[n].size = z /\ b[n].count = n
                          /\ SameEntries(b[n], x, t, w, n)
           T == {n \in Nat : n <= c => P(n)}
<1>5. 0 \in T
  <2>1. b[0] = NewTable(z)
    BY <1>2, <1>3 DEF Built
  <2>2. Sound(b[0], <<>>) /\ b[0].size = z /\ b[0].count = 0
    BY <2>1, NewTableSound
  <2>3. SameEntries(b[0], <<>>, t, w, 0)
    BY DEF SameEntries
  <2> QED
    BY <2>2, <2>3
<1>6. ASSUME NEW n \in T PROVE n + 1 \in T
  <2> SUFFICES ASSUME n + 1 <= c PROVE P(n + 1)
    OBVIOUS
  <2>1. n \in Nat /\ n + 1 \in 1 .. c /\ n < z
    BY <1>3
  <2>2. PICK x : /\ Sound(b[n], x) /\ b[n].size = z /\ b[n].count = n
                 /\ SameEntries(b[n], x, t, w, n)
    BY <2>1
  <2>3. PICK j, key, value : j = w[n + 1] /\ key = t.k[j] /\ value = t.v[j]
    OBVIOUS
  <2>4. b[n + 1] = Put(b[n], key, value)
    <3>1. n + 1 \in 0 .. t.count /\ n + 1 # 0 /\ (n + 1) - 1 = n
      BY <1>3, <2>1
    <3>2. b[n + 1] = Put(b[(n + 1) - 1], t.k[Walk(t)[n + 1]], t.v[Walk(t)[n + 1]])
      BY <1>2, <3>1 DEF Built
    <3> QED
      BY <1>4, <2>1, <2>3, <3>1, <3>2
  <2>5. j \in Slot(t) /\ ~ Vacant(t, j) /\ key \in Keys /\ value \in Values
    BY <1>1, <1>3, <2>1, <2>3 DEF Sound, Findable
  <2>6. ASSUME NEW a \in Slot(b[n]), b[n].k[a] = key PROVE FALSE
    <3>1. /\ ~ Vacant(b[n], a)
          /\ \E m \in 1 .. n : x[m] = a
      BY <2>2, <2>5, <2>6, SoundFacts
    <3>2. PICK m \in 1 .. n : x[m] = a
      BY <3>1
    <3>3. t.k[w[m]] = key /\ m \in 1 .. c
      BY <2>1, <2>2, <2>6, <3>2 DEF SameEntries
    <3>4. w[m] \in Slot(t) /\ w[m] = j
      BY <1>1, <1>3, <2>3, <2>5, <3>3 DEF Sound, Findable
    <3>5. m = n + 1
      BY <1>1, <1>3, <2>1, <2>3, <3>3, <3>4 DEF Sound, Covered
    <3> QED
      BY <2>1, <3>5
  <2>7. RoomFor(b[n], key) # {}
    BY <2>1, <2>2, <2>5, RoomExists
  <2>8. PICK u : u = b[n + 1]
    OBVIOUS
  <2>9. PICK a, y :
           /\ a \in Slot(b[n])
           /\ Sound(u, y) /\ u.size = b[n].size /\ u.count = b[n].count + 1
           /\ u.k[a] = key /\ u.v[a] = value
           /\ y[b[n].count + 1] = a
           /\ \A m \in 1 .. b[n].count : /\ y[m] = x[m] /\ u.k[x[m]] = b[n].k[x[m]]
                                         /\ u.v[x[m]] = b[n].v[x[m]]
    BY <2>2, <2>4, <2>5, <2>6, <2>7, <2>8, PutSound
  <2>10. SameEntries(u, y, t, w, n + 1)
    <3> SUFFICES ASSUME NEW m \in 1 .. n + 1
                 PROVE  u.k[y[m]] = t.k[w[m]] /\ u.v[y[m]] = t.v[w[m]]
      BY DEF SameEntries
    <3>1. CASE m = n + 1
      BY <2>2, <2>3, <2>9, <3>1
    <3>2. CASE m # n + 1
      <4>1. m \in 1 .. n
        BY <2>1, <3>2
      <4> QED
        BY <2>2, <2>9, <4>1 DEF SameEntries
    <3> QED
      BY <3>1, <3>2
  <2>11. Sound(u, y) /\ u.size = z /\ u.count = n + 1
    BY <2>2, <2>9
  <2> QED
    BY <2>8, <2>10, <2>11
<1>7. T = Nat
  <2>1. T \in SUBSET Nat /\ \A n \in T : n + 1 \in T
    BY <1>6
  <2> HIDE DEF T
  <2> QED
    BY <1>5, <2>1, SetInduction
<1>8. P(c)
  BY <1>7
<1> QED
  BY <1>2, <1>3, <1>8

-----------------------------------------------------------------------------
(* Finding and deleting.                                                    *)

\* No deletion hides a key: what is found is the slot that holds it.
LEMMA FoundFacts ==
    ASSUME hash \in [Keys -> Hashes], NEW t, NEW w, Sound(t, w), NEW key \in Keys
    PROVE  FoundEntry(t, key) = {n \in Slot(t) : t.k[n] = key}
<1>1. /\ t.size \in Nat \ {0} /\ Slot(t) = 0 .. t.size - 1
      /\ \A n \in Slot(t) : ~ Vacant(t, n) <=> t.k[n] \in Keys
  BY SoundFacts
<1>2. PICK ends : ends = {s \in Slot(t) : Stops(t, key, Probe(t, key, s))}
  OBVIOUS
<1>3. PICK f, n : f = FirstStep(t, ends) /\ n = Probe(t, key, f)
  OBVIOUS
<1>4. FoundEntry(t, key) = IF ends # {} /\ t.k[n] = key THEN {n} ELSE {}
  BY <1>2, <1>3 DEF FoundEntry
<1>5. ends # {} => /\ f \in ends /\ \A r \in ends : f <= r
                   /\ n \in Slot(t)
  <2> SUFFICES ASSUME ends # {}
               PROVE  f \in ends /\ (\A r \in ends : f <= r) /\ n \in Slot(t)
    OBVIOUS
  <2>1. ends \in SUBSET Nat
    BY <1>1, <1>2
  <2>2. f \in ends /\ \A r \in ends : f <= r
    BY <1>3, <2>1, FirstOf
  <2>3. f \in Nat
    BY <2>1, <2>2
  <2> QED
    BY <1>1, <1>3, <2>2, <2>3, ProbeFacts
<1>6. ASSUME NEW m \in Slot(t), t.k[m] = key PROVE ends # {} /\ t.k[n] = key /\ n = m
  <2>1. ~ Vacant(t, m)
    BY <1>1, <1>6
  <2>2. PICK s \in Slot(t) : /\ Probe(t, key, s) = m
                             /\ \A r \in 0 .. s - 1 : t.k[Probe(t, key, r)] # EMPTY
    BY <1>6, <2>1 DEF Sound, Findable
  <2>3. s \in ends
    BY <1>2, <1>6, <2>2 DEF Stops
  <2>4. f \in Slot(t) /\ f <= s /\ t.k[n] \in {EMPTY, key} /\ n \in Slot(t)
    BY <1>2, <1>3, <1>5, <2>3 DEF Stops
  <2>5. t.k[n] = key
    <3>1. CASE f = s
      BY <1>3, <1>6, <2>2, <3>1
    <3>2. CASE f # s
      <4>1. f \in 0 .. s - 1
        BY <1>1, <2>4, <3>2
      <4> QED
        BY <1>3, <2>2, <2>4, <4>1
    <3> QED
      BY <3>1, <3>2
  <2>6. n = m
    BY <1>6, <2>1, <2>4, <2>5 DEF Sound, Findable
  <2> QED
    BY <2>3, <2>5, <2>6
<1>7. CASE \E m \in Slot(t) : t.k[m] = key
  BY <1>4, <1>6, <1>7
<1>8. CASE ~ \E m \in Slot(t) : t.k[m] = key
  BY <1>4, <1>5, <1>8
<1> QED
  BY <1>7, <1>8

\* The fields of a table after the entry in slot n was deleted.
DeleteAt(t, n) ==
    [Unlinked([t EXCEPT !.count = @ - 1], n)
        EXCEPT !.k[n] = FREED, !.v[n] = Nothing, !.next[n] = Null, !.prev[n] = Null]
AfterDelete(t, n, u) ==
    /\ u \in Tables(t.size) /\ u.size = t.size /\ u.count = t.count - 1
    /\ u.k = [t.k EXCEPT ![n] = FREED] /\ u.v = [t.v EXCEPT ![n] = Nothing]
    /\ u.head = (IF t.head = n THEN t.next[n] ELSE t.head)
    /\ u.tail = (IF t.tail = n THEN t.prev[n] ELSE t.tail)
    /\ \A m \in Slot(t) \ {n} :
          /\ u.next[m] = IF t.head # n /\ m = t.prev[n] THEN t.next[n] ELSE t.next[m]
          /\ u.prev[m] = IF t.tail # n /\ m = t.next[n] THEN t.prev[n] ELSE t.prev[m]

LEMMA DeleteFields ==
    ASSUME NEW t, t.size \in Nat \ {0}, t \in Tables(t.size), NEW n \in Slot(t), t.count > 0,
           IF t.head = n THEN t.prev[n] = Null ELSE t.prev[n] \in Slot(t) \ {n},
           IF t.tail = n THEN t.next[n] = Null ELSE t.next[n] \in Slot(t) \ {n},
           NEW u, u = DeleteAt(t, n)
    PROVE  AfterDelete(t, n, u)
<1>1. PICK z \in Nat \ {0} : z = t.size /\ t \in Tables(z) /\ Slot(t) = 0 .. z - 1
  BY DEF Slot
<1>2. PICK c, hd, tl, ks, vs, nx, pv :
         /\ c = t.count - 1 /\ hd = t.head /\ tl = t.tail /\ nx = t.next /\ pv = t.prev
         /\ ks = t.k /\ vs = t.v
  OBVIOUS
<1>3. /\ c \in Nat /\ hd \in (0 .. z - 1) \cup {Null} /\ tl \in (0 .. z - 1) \cup {Null}
      /\ ks \in [0 .. z - 1 -> Keys \cup {EMPTY, FREED}]
      /\ vs \in [0 .. z - 1 -> Values \cup {Nothing}]
      /\ nx \in [0 .. z - 1 -> (0 .. z - 1) \cup {Null}]
      /\ pv \in [0 .. z - 1 -> (0 .. z - 1) \cup {Null}]
      /\ n \in 0 .. z - 1 /\ z \in {z}
  BY <1>1, <1>2 DEF Tables
<1>4. PICK x : x = [t EXCEPT !.count = @ - 1]
  OBVIOUS
<1>5. x = [size |-> z, count |-> c, head |-> hd, tail |-> tl, k |-> ks, v |-> vs,
           next |-> nx, prev |-> pv]
  BY <1>1, <1>2, <1>4 DEF Tables
<1>6. u = [Unlinked(x, n) EXCEPT !.k[n] = FREED, !.v[n] = Nothing, !.next[n] = Null,
                                 !.prev[n] = Null]
  BY <1>4 DEF DeleteAt
<1>7. /\ IF hd = n THEN pv[n] = Null ELSE pv[n] \in (0 .. z - 1) \ {n}
      /\ IF tl = n THEN nx[n] = Null ELSE nx[n] \in (0 .. z - 1) \ {n}
  BY <1>1, <1>2
<1>8. PICK ke, ve : ke = [ks EXCEPT ![n] = FREED] /\ ve = [vs EXCEPT ![n] = Nothing]
  OBVIOUS
<1>9. /\ ke \in [0 .. z - 1 -> Keys \cup {EMPTY, FREED}]
      /\ ve \in [0 .. z - 1 -> Values \cup {Nothing}]
  BY <1>3, <1>8
\* What is left to show, once the links are known.
<1>10. ASSUME NEW ho, NEW to, NEW nu, NEW pu,
              Unlinked(x, n) = [size |-> z, count |-> c, head |-> ho, tail |-> to, k |-> ks,
                                v |-> vs, next |-> nu, prev |-> pu],
              ho = (IF hd = n THEN nx[n] ELSE hd), to = (IF tl = n THEN pv[n] ELSE tl),
              nu \in [0 .. z - 1 -> (0 .. z - 1) \cup {Null}],
              pu \in [0 .. z - 1 -> (0 .. z - 1) \cup {Null}],
              \A m \in (0 .. z - 1) \ {n} :
                 /\ nu[m] = IF hd # n /\ m = pv[n] THEN nx[n] ELSE nx[m]
                 /\ pu[m] = IF tl # n /\ m = nx[n] THEN pv[n] ELSE pv[m]
       PROVE  AfterDelete(t, n, u)
  <2>1. PICK ne, pe : ne = [nu EXCEPT ![n] = Null] /\ pe = [pu EXCEPT ![n] = Null]
    OBVIOUS
  <2>2. u = [size |-> z, count |-> c, head |-> ho, tail |-> to, k |-> ke, v |-> ve,
             next |-> ne, prev |-> pe]
    <3>1. PICK y : y = Unlinked(x, n)
      OBVIOUS
    <3>2. y = [size |-> z, count |-> c, head |-> ho, tail |-> to, k |-> ks, v |-> vs,
               next |-> nu, prev |-> pu]
      BY <1>10, <3>1
    <3>3. u = [y EXCEPT !.k[n] = FREED, !.v[n] = Nothing, !.next[n] = Null, !.prev[n] = Null]
      BY <1>6, <3>1
    <3>4. u = [y EXCEPT !.k = ke, !.v = ve, !.next = ne, !.prev = pe]
      BY <1>8, <2>1, <3>2, <3>3
    <3> QED
      BY <3>2, <3>4
  <2>3. /\ ne \in [0 .. z - 1 -> (0 .. z - 1) \cup {Null}]
        /\ pe \in [0 .. z - 1 -> (0 .. z - 1) \cup {Null}]
        /\ \A m \in (0 .. z - 1) \ {n} : ne[m] = nu[m] /\ pe[m] = pu[m]
    BY <1>3, <1>10, <2>1
  <2>4. ho \in (0 .. z - 1) \cup {Null} /\ to \in (0 .. z - 1) \cup {Null}
    BY <1>3, <1>7, <1>10
  <2>5. u \in Tables(z)
    BY <1>3, <1>9, <2>2, <2>3, <2>4 DEF Tables
  <2>6. /\ u.size = z /\ u.count = c /\ u.k = ke /\ u.v = ve /\ u.head = ho /\ u.tail = to
        /\ u.next = ne /\ u.prev = pe
    BY <2>2
  <2> QED
    BY <1>1, <1>2, <1>8, <1>10, <2>3, <2>5, <2>6 DEF AfterDelete
<1>11. x.head = hd /\ x.tail = tl /\ x.next = nx /\ x.prev = pv
  BY <1>5
<1>12. CASE hd = n /\ tl = n
  <2>1. Unlinked(x, n) = [x EXCEPT !.head = Null, !.tail = Null]
    BY <1>11, <1>12 DEF Unlinked, OnlyEntry
  <2>2. PICK ho, to, nu, pu : ho = Null /\ to = Null /\ nu = nx /\ pu = pv
    OBVIOUS
  <2>3. Unlinked(x, n) = [size |-> z, count |-> c, head |-> ho, tail |-> to, k |-> ks,
                          v |-> vs, next |-> nu, prev |-> pu]
    BY <1>5, <2>1, <2>2
  <2>4. ho = (IF hd = n THEN nx[n] ELSE hd) /\ to = (IF tl = n THEN pv[n] ELSE tl)
    BY <1>7, <1>12, <2>2
  <2>5. \A m \in (0 .. z - 1) \ {n} :
           /\ nu[m] = IF hd # n /\ m = pv[n] THEN nx[n] ELSE nx[m]
           /\ pu[m] = IF tl # n /\ m = nx[n] THEN pv[n] ELSE pv[m]
    BY <1>12, <2>2
  <2>6. /\ nu \in [0 .. z - 1 -> (0 .. z - 1) \cup {Null}]
        /\ pu \in [0 .. z - 1 -> (0 .. z - 1) \cup {Null}]
    BY <1>3, <2>2
  <2> QED
    BY <1>10, <2>3, <2>4, <2>5, <2>6
<1>13. CASE hd = n /\ tl # n
  <2>1. Unlinked(x, n) = [x EXCEPT !.prev[nx[n]] = Null, !.head = nx[n]]
    BY <1>11, <1>13 DEF Unlinked, HeadEntry
  <2>2. PICK pu, ho : pu = [pv EXCEPT ![nx[n]] = Null] /\ ho = nx[n]
    OBVIOUS
  <2>3. Unlinked(x, n) = [size |-> z, count |-> c, head |-> ho, tail |-> tl, k |-> ks,
                          v |-> vs, next |-> nx, prev |-> pu]
    BY <1>5, <2>1, <2>2
  <2>4. /\ pu \in [0 .. z - 1 -> (0 .. z - 1) \cup {Null}]
        /\ \A m \in (0 .. z - 1) \ {n} : pu[m] = IF m = nx[n] THEN Null ELSE pv[m]
    BY <1>3, <2>2
  <2> QED
    BY <1>3, <1>7, <1>10, <1>13, <2>2, <2>3, <2>4
<1>14. CASE hd # n /\ tl = n
  <2>1. Unlinked(x, n) = [x EXCEPT !.next[pv[n]] = Null, !.tail = pv[n]]
    BY <1>11, <1>14 DEF Unlinked, TailEntry
  <2>2. PICK nu, to : nu = [nx EXCEPT ![pv[n]] = Null] /\ to = pv[n]
    OBVIOUS
  <2>3. Unlinked(x, n) = [size |-> z, count |-> c, head |-> hd, tail |-> to, k |-> ks,
                          v |-> vs, next |-> nu, prev |-> pv]
    BY <1>5, <2>1, <2>2
  <2>4. /\ nu \in [0 .. z - 1 -> (0 .. z - 1) \cup {Null}]
        /\ \A m \in (0 .. z - 1) \ {n} : nu[m] = IF m = pv[n] THEN Null ELSE nx[m]
    BY <1>3, <2>2
  <2> QED
    BY <1>3, <1>7, <1>10, <1>14, <2>2, <2>3, <2>4
<1>15. CASE hd # n /\ tl # n
  <2>1. Unlinked(x, n) = [x EXCEPT !.next[pv[n]] = nx[n], !.prev[nx[n]] = pv[n]]
    BY <1>11, <1>15 DEF Unlinked, InnerEntry
  <2>2. PICK nu, pu : nu = [nx EXCEPT ![pv[n]] = nx[n]] /\ pu = [pv EXCEPT ![nx[n]] = pv[n]]
    OBVIOUS
  <2>3. Unlinked(x, n) = [size |-> z, count |-> c, head |-> hd, tail |-> tl, k |-> ks,
                          v |-> vs, next |-> nu, prev |-> pu]
    BY <1>5, <2>1, <2>2
  <2>4. /\ nu \in [0 .. z - 1 -> (0 .. z - 1) \cup {Null}]
        /\ pu \in [0 .. z - 1 -> (0 .. z - 1) \cup {Null}]
        /\ \A m \in (0 .. z - 1) \ {n} : /\ nu[m] = IF m = pv[n] THEN nx[n] ELSE nx[m]
                                         /\ pu[m] = IF m = nx[n] THEN pv[n] ELSE pv[m]
    BY <1>3, <1>7, <1>15, <2>2
  <2>5. PICK ho, to : ho = hd /\ to = tl
    OBVIOUS
  <2>6. ho = (IF hd = n THEN nx[n] ELSE hd) /\ to = (IF tl = n THEN pv[n] ELSE tl)
    BY <1>15, <2>5
  <2>7. \A m \in (0 .. z - 1) \ {n} :
           /\ nu[m] = IF hd # n /\ m = pv[n] THEN nx[n] ELSE nx[m]
           /\ pu[m] = IF tl # n /\ m = nx[n] THEN pv[n] ELSE pv[m]
    BY <1>15, <2>4
  <2>8. Unlinked(x, n) = [size |-> z, count |-> c, head |-> ho, tail |-> to, k |-> ks,
                          v |-> vs, next |-> nu, prev |-> pu]
    BY <2>3, <2>5
  <2> QED
    BY <1>10, <2>4, <2>6, <2>7, <2>8
<1> QED
  BY <1>12, <1>13, <1>14, <1>15

\* The list without its i-th entry.
Removed(w, i) == [m \in 1 .. Len(w) - 1 |-> IF m < i THEN w[m] ELSE w[m + 1]]

LEMMA RemovedFacts ==
    ASSUME NEW S, NEW w \in Seq(S), NEW i \in 1 .. Len(w)
    PROVE  /\ Removed(w, i) \in Seq(S) /\ Len(Removed(w, i)) = Len(w) - 1
           /\ \A m \in 1 .. Len(w) - 1 : Removed(w, i)[m] = IF m < i THEN w[m] ELSE w[m + 1]
<1>1. PICK c \in Nat : c = Len(w) - 1
  <2>1. Len(w) - 1 \in Nat
    OBVIOUS
  <2> QED
    BY <2>1
<1>2. ASSUME NEW m \in 1 .. c PROVE (IF m < i THEN w[m] ELSE w[m + 1]) \in S
  <2>1. m \in 1 .. Len(w) /\ m + 1 \in 1 .. Len(w)
    BY <1>1
  <2> QED
    BY <2>1
<1>3. Removed(w, i) = [m \in 1 .. c |-> IF m < i THEN w[m] ELSE w[m + 1]]
  BY <1>1 DEF Removed
<1>4. Removed(w, i) \in [1 .. c -> S]
  BY <1>2, <1>3
<1> QED
  BY <1>1, <1>3, <1>4

\* A deletion takes one entry out of the list and leaves its slot freed, not
\* empty, so that the probes for the other keys go on.
LEMMA DeleteSound ==
    ASSUME hash \in [Keys -> Hashes], NEW t, NEW w, Sound(t, w), NEW i \in 1 .. t.count,
           NEW u, u = DeleteAt(t, w[i])
    PROVE  /\ Sound(u, Removed(w, i)) /\ u.size = t.size /\ u.count = t.count - 1
           /\ \A m \in 1 .. t.count \ {i} : u.k[w[m]] = t.k[w[m]] /\ u.v[w[m]] = t.v[w[m]]
<1>1. /\ t.size \in Nat \ {0} /\ t.count \in Nat /\ Len(w) = t.count
      /\ Slot(t) = 0 .. t.size - 1
      /\ t.k \in [Slot(t) -> Keys \cup {EMPTY, FREED}]
      /\ t.v \in [Slot(t) -> Values \cup {Nothing}]
      /\ \A n \in Slot(t) : ~ Vacant(t, n) <=> t.k[n] \in Keys
      /\ \A m \in 1 .. t.count : w[m] \in Slot(t) /\ ~ Vacant(t, w[m])
      /\ \A n \in Slot(t) : ~ Vacant(t, n) => \E m \in 1 .. t.count : w[m] = n
  BY SoundFacts
<1>2. t \in Tables(t.size) /\ w \in Seq(Slot(t)) /\ Chained(t, w) /\ Covered(t, w) /\ Findable(t)
  BY DEF Sound
<1>3. PICK c \in Nat : c = t.count /\ c > 0 /\ i \in 1 .. c
  BY <1>1
<1>4. PICK n \in Slot(t) : n = w[i]
  BY <1>1
<1>5. /\ \A a, b \in 1 .. c : w[a] = w[b] => a = b
      /\ \A a \in 1 .. c : w[a] \in Slot(t) /\ w[a] # Null
  BY <1>1, <1>2, <1>3 DEF Covered, Null
<1>6. /\ t.head = w[1] /\ t.tail = w[c]
      /\ \A a \in 1 .. c : /\ t.next[w[a]] = IF a = c THEN Null ELSE w[a + 1]
                           /\ t.prev[w[a]] = IF a = 1 THEN Null ELSE w[a - 1]
  <2>1. Len(w) = c
    BY <1>1, <1>3
  <2>2. PICK h, ta, ne, pe : h = t.head /\ ta = t.tail /\ ne = t.next /\ pe = t.prev
    OBVIOUS
  <2>3. /\ h = IF c = 0 THEN Null ELSE w[1]
        /\ ta = IF c = 0 THEN Null ELSE w[c]
        /\ \A a \in 1 .. c : /\ ne[w[a]] = IF a = c THEN Null ELSE w[a + 1]
                             /\ pe[w[a]] = IF a = 1 THEN Null ELSE w[a - 1]
    BY <1>2, <2>1, <2>2 DEF Chained
  <2> QED
    BY <1>3, <2>2, <2>3
<1>7. /\ t.head = n <=> i = 1
      /\ t.tail = n <=> i = c
      /\ t.next[n] = (IF i = c THEN Null ELSE w[i + 1])
      /\ t.prev[n] = (IF i = 1 THEN Null ELSE w[i - 1])
  <2>1. 1 \in 1 .. c /\ c \in 1 .. c
    BY <1>3
  <2> QED
    BY <1>3, <1>4, <1>5, <1>6, <2>1
<1>8. AfterDelete(t, n, u)
  <2>1. i # 1 => w[i - 1] \in Slot(t) \ {n}
    BY <1>3, <1>4, <1>5
  <2>2. i # c => w[i + 1] \in Slot(t) \ {n}
    BY <1>3, <1>4, <1>5
  <2>3. /\ IF t.head = n THEN t.prev[n] = Null ELSE t.prev[n] \in Slot(t) \ {n}
        /\ IF t.tail = n THEN t.next[n] = Null ELSE t.next[n] \in Slot(t) \ {n}
    BY <1>7, <2>1, <2>2
  <2>4. u = DeleteAt(t, n) /\ t.count > 0
    BY <1>3, <1>4
  <2> QED
    BY <1>1, <1>2, <2>3, <2>4, DeleteFields
<1>9. /\ u \in Tables(t.size) /\ u.size = t.size /\ u.count = c - 1
      /\ u.k[n] = FREED
      /\ \A m \in Slot(t) \ {n} : u.k[m] = t.k[m] /\ u.v[m] = t.v[m]
      /\ u.head = (IF i = 1 THEN t.next[n] ELSE w[1])
      /\ u.tail = (IF i = c THEN t.prev[n] ELSE w[c])
      /\ \A m \in Slot(t) \ {n} :
            /\ u.next[m] = IF i # 1 /\ m = t.prev[n] THEN t.next[n] ELSE t.next[m]
            /\ u.prev[m] = IF i # c /\ m = t.next[n] THEN t.prev[n] ELSE t.prev[m]
  BY <1>1, <1>3, <1>6, <1>7, <1>8 DEF AfterDelete
<1>10. PICK x : x = Removed(w, i)
  OBVIOUS
<1>11. /\ x \in Seq(Slot(t)) /\ Len(x) = c - 1
       /\ \A m \in 1 .. c - 1 : x[m] = IF m < i THEN w[m] ELSE w[m + 1]
  <2>1. w \in Seq(Slot(t)) /\ i \in 1 .. Len(w) /\ Len(w) = c
    BY <1>1, <1>2, <1>3
  <2>2. /\ Removed(w, i) \in Seq(Slot(t)) /\ Len(Removed(w, i)) = Len(w) - 1
        /\ \A m \in 1 .. Len(w) - 1 : Removed(w, i)[m] = IF m < i THEN w[m] ELSE w[m + 1]
    BY <2>1, RemovedFacts
  <2> QED
    BY <1>10, <2>1, <2>2
<1>12. /\ Slot(u) = Slot(t)
       /\ Vacant(u, n)
       /\ \A m \in Slot(t) \ {n} : Vacant(u, m) <=> Vacant(t, m)
       /\ \A j, r : Probe(u, j, r) = Probe(t, j, r)
  BY <1>9 DEF Slot, Vacant, Probe
<1>13. \A a \in 1 .. c : a # i => w[a] \in Slot(t) \ {n}
  BY <1>3, <1>4, <1>5
<1>14. ASSUME NEW a \in 1 .. c, a # i
       PROVE  /\ u.next[w[a]] = IF a = c \/ (a = c - 1 /\ i = c) THEN Null
                                ELSE IF a = i - 1 THEN w[a + 2] ELSE w[a + 1]
              /\ u.prev[w[a]] = IF a = 1 \/ (a = 2 /\ i = 1) THEN Null
                                ELSE IF a = i + 1 THEN w[a - 2] ELSE w[a - 1]
  <2>1. w[a] \in Slot(t) \ {n}
    BY <1>13, <1>14
  <2>2. u.next[w[a]] = IF i # 1 /\ w[a] = t.prev[n] THEN t.next[n] ELSE t.next[w[a]]
    BY <1>9, <2>1
  <2>3. u.prev[w[a]] = IF i # c /\ w[a] = t.next[n] THEN t.prev[n] ELSE t.prev[w[a]]
    BY <1>9, <2>1
  <2>4. i # 1 => (w[a] = w[i - 1] <=> a = i - 1)
    <3>1. i # 1 => i - 1 \in 1 .. c
      BY <1>3
    <3> QED
      BY <1>5, <3>1
  <2>5. i # c => (w[a] = w[i + 1] <=> a = i + 1)
    <3>1. i # c => i + 1 \in 1 .. c
      BY <1>3
    <3> QED
      BY <1>5, <3>1
  <2>6. /\ t.next[w[a]] = IF a = c THEN Null ELSE w[a + 1]
        /\ t.prev[w[a]] = IF a = 1 THEN Null ELSE w[a - 1]
    BY <1>6
  <2>7. u.next[w[a]] = IF a = i - 1 THEN (IF i = c THEN Null ELSE w[i + 1])
                       ELSE (IF a = c THEN Null ELSE w[a + 1])
    <3>1. CASE i = 1
      BY <1>3, <1>14, <2>2, <2>6, <3>1
    <3>2. CASE i # 1
      BY <1>7, <2>2, <2>4, <2>6, <3>2
    <3> QED
      BY <3>1, <3>2
  <2>8. u.prev[w[a]] = IF a = i + 1 THEN (IF i = 1 THEN Null ELSE w[i - 1])
                       ELSE (IF a = 1 THEN Null ELSE w[a - 1])
    <3>1. CASE i = c
      BY <1>3, <1>14, <2>3, <2>6, <3>1
    <3>2. CASE i # c
      BY <1>7, <2>3, <2>5, <2>6, <3>2
    <3> QED
      BY <3>1, <3>2
  <2>9. a = i - 1 => i + 1 = a + 2 /\ a # c /\ (i = c <=> a = c - 1)
    BY <1>3
  <2>10. a = i + 1 => i - 1 = a - 2 /\ a # 1 /\ (i = 1 <=> a = 2)
    BY <1>3
  <2>11. /\ a = c - 1 /\ i = c => a = i - 1
         /\ a = 2 /\ i = 1 => a = i + 1
    BY <1>3
  <2>12. u.next[w[a]] = IF a = c \/ (a = c - 1 /\ i = c) THEN Null
                        ELSE IF a = i - 1 THEN w[a + 2] ELSE w[a + 1]
    BY <2>7, <2>9, <2>11
  <2>13. u.prev[w[a]] = IF a = 1 \/ (a = 2 /\ i = 1) THEN Null
                        ELSE IF a = i + 1 THEN w[a - 2] ELSE w[a - 1]
    BY <2>8, <2>10, <2>11
  <2> QED
    BY <2>12, <2>13
<1>15. Chained(u, x)
  <2>1. u.head = IF c - 1 = 0 THEN Null ELSE x[1]
    <3>1. c - 1 # 0 => 1 \in 1 .. c - 1
      BY <1>3
    <3> QED
      BY <1>3, <1>7, <1>9, <1>11, <3>1
  <2>2. u.tail = IF c - 1 = 0 THEN Null ELSE x[c - 1]
    <3>1. c - 1 # 0 => c - 1 \in 1 .. c - 1 /\ (c - 1) + 1 = c
      BY <1>3
    <3> QED
      BY <1>3, <1>7, <1>9, <1>11, <3>1
  <2>3. ASSUME NEW m \in 1 .. c - 1
        PROVE  /\ u.next[x[m]] = IF m = c - 1 THEN Null ELSE x[m + 1]
               /\ u.prev[x[m]] = IF m = 1 THEN Null ELSE x[m - 1]
    <3>1. CASE m < i
      <4>1. m \in 1 .. c /\ m # i /\ x[m] = w[m] /\ m # c
        BY <1>3, <1>11, <3>1
      <4>2. u.next[w[m]] = IF m = c - 1 /\ i = c THEN Null
                           ELSE IF m = i - 1 THEN w[m + 2] ELSE w[m + 1]
        BY <1>14, <4>1
      <4>3. u.prev[w[m]] = IF m = 1 THEN Null ELSE w[m - 1]
        <5>1. m # i + 1 /\ ~ (m = 2 /\ i = 1)
          BY <1>3, <3>1
        <5> QED
          BY <1>14, <4>1, <5>1
      <4>4. m = c - 1 => i = c
        BY <1>3, <3>1
      <4>5. m # c - 1 => /\ m + 1 \in 1 .. c - 1
                         /\ x[m + 1] = IF m = i - 1 THEN w[m + 2] ELSE w[m + 1]
        <5> SUFFICES ASSUME m # c - 1
                     PROVE  /\ m + 1 \in 1 .. c - 1
                            /\ x[m + 1] = IF m = i - 1 THEN w[m + 2] ELSE w[m + 1]
          OBVIOUS
        <5>1. m + 1 \in 1 .. c - 1 /\ (m + 1 < i <=> m # i - 1) /\ (m + 1) + 1 = m + 2
          BY <1>3, <3>1
        <5> QED
          BY <1>11, <5>1
      <4>6. m # 1 => m - 1 \in 1 .. c - 1 /\ x[m - 1] = w[m - 1]
        <5>1. m # 1 => m - 1 \in 1 .. c - 1 /\ m - 1 < i
          BY <1>3, <3>1
        <5> QED
          BY <1>11, <5>1
      <4> QED
        BY <4>1, <4>2, <4>3, <4>4, <4>5, <4>6
    <3>2. CASE ~ m < i
      <4>1. PICK a \in 1 .. c : a = m + 1
        BY <1>3
      <4>2. a # i /\ a # 1 /\ x[m] = w[a] /\ a # i - 1
        BY <1>3, <1>11, <3>2, <4>1
      <4>3. u.next[w[a]] = IF a = c THEN Null ELSE w[a + 1]
        <5>1. ~ (a = c - 1 /\ i = c)
          BY <1>3, <3>2, <4>1
        <5> QED
          BY <1>14, <4>2, <5>1
      <4>4. u.prev[w[a]] = IF a = 2 /\ i = 1 THEN Null
                           ELSE IF a = i + 1 THEN w[a - 2] ELSE w[a - 1]
        BY <1>14, <4>2
      <4>5. (m = c - 1 <=> a = c) /\ (m = 1 <=> a = 2) /\ (m = 1 => i = 1)
        BY <1>3, <3>2, <4>1
      <4>6. m # c - 1 => x[m + 1] = w[a + 1]
        <5>1. m # c - 1 => m + 1 \in 1 .. c - 1 /\ ~ (m + 1 < i)
          BY <1>3, <3>2
        <5> QED
          BY <1>11, <4>1, <5>1
      <4>7. m # 1 => x[m - 1] = IF a = i + 1 THEN w[a - 2] ELSE w[a - 1]
        <5> SUFFICES ASSUME m # 1
                     PROVE  x[m - 1] = IF a = i + 1 THEN w[a - 2] ELSE w[a - 1]
          OBVIOUS
        <5>1. /\ m - 1 \in 1 .. c - 1 /\ (m - 1 < i <=> a = i + 1)
              /\ a - 2 = m - 1 /\ a - 1 = (m - 1) + 1
          BY <1>3, <3>2, <4>1
        <5> QED
          BY <1>11, <5>1
      <4> QED
        BY <4>2, <4>3, <4>4, <4>5, <4>6, <4>7
    <3> QED
      BY <3>1, <3>2
  <2> QED
    BY <1>9, <1>11, <2>1, <2>2, <2>3 DEF Chained
<1>16. Covered(u, x)
  <2>1. ASSUME NEW a \in 1 .. c - 1, NEW b \in 1 .. c - 1, x[a] = x[b] PROVE a = b
    <3>1. PICK p \in 1 .. c : p = IF a < i THEN a ELSE a + 1
      BY <1>3
    <3>2. PICK q \in 1 .. c : q = IF b < i THEN b ELSE b + 1
      BY <1>3
    <3>3. x[a] = w[p] /\ x[b] = w[q]
      BY <1>11, <3>1, <3>2
    <3>4. p = q
      BY <1>5, <2>1, <3>3
    <3> QED
      BY <1>3, <3>1, <3>2, <3>4
  <2>2. ASSUME NEW m \in Slot(t)
        PROVE  ~ Vacant(u, m) <=> \E a \in 1 .. c - 1 : x[a] = m
    <3>1. ASSUME NEW a \in 1 .. c - 1, x[a] = m PROVE m # n /\ ~ Vacant(t, m)
      <4>1. PICK p \in 1 .. c : p = IF a < i THEN a ELSE a + 1
        BY <1>3
      <4>2. p # i /\ x[a] = w[p]
        BY <1>3, <1>11, <4>1
      <4> QED
        BY <1>1, <1>3, <1>13, <3>1, <4>2
    <3>2. ASSUME m # n, ~ Vacant(t, m) PROVE \E a \in 1 .. c - 1 : x[a] = m
      <4>1. PICK p \in 1 .. c : w[p] = m
        BY <1>1, <1>3, <3>2
      <4>2. p # i
        BY <1>4, <3>2, <4>1
      <4>3. PICK a : a = IF p < i THEN p ELSE p - 1
        OBVIOUS
      <4>4. a \in 1 .. c - 1 /\ (a < i <=> p < i) /\ (~ p < i => a + 1 = p)
        BY <1>3, <4>2, <4>3
      <4>5. x[a] = m
        BY <1>11, <4>1, <4>3, <4>4
      <4> QED
        BY <4>4, <4>5
    <3> QED
      BY <1>12, <3>1, <3>2
  <2> QED
    BY <1>11, <1>12, <2>1, <2>2 DEF Covered
<1>17. Findable(u)
  <2>1. ASSUME NEW a \in Slot(u), NEW b \in Slot(u), ~ Vacant(u, a), u.k[a] = u.k[b]
        PROVE  a = b
    <3>1. a # n
      BY <1>12, <2>1
    <3>2. u.k[a] = t.k[a] /\ ~ Vacant(t, a) /\ t.k[a] # FREED
      BY <1>9, <1>12, <2>1, <3>1 DEF Vacant
    <3>3. b # n /\ u.k[b] = t.k[b]
      BY <1>9, <1>12, <2>1, <3>2
    <3> QED
      BY <1>2, <1>12, <2>1, <3>2, <3>3 DEF Findable
  <2>2. ASSUME NEW a \in Slot(t), t.k[a] # EMPTY PROVE u.k[a] # EMPTY
    <3>1. FREED # EMPTY
      BY HashAssumption
    <3> QED
      BY <1>9, <2>2, <3>1
  <2>3. ASSUME NEW a \in Slot(u), ~ Vacant(u, a)
        PROVE  /\ u.v[a] \in Values
               /\ \E q \in Slot(u) : /\ Probe(u, u.k[a], q) = a
                                     /\ \A r \in 0 .. q - 1 : u.k[Probe(u, u.k[a], r)] # EMPTY
    <3>1. a # n
      BY <1>12, <2>3
    <3>2. u.k[a] = t.k[a] /\ u.v[a] = t.v[a] /\ a \in Slot(t) /\ ~ Vacant(t, a)
      BY <1>9, <1>12, <2>3, <3>1
    <3>3. t.k[a] \in Keys /\ t.v[a] \in Values
      BY <1>1, <1>2, <3>2 DEF Findable
    <3>4. PICK q \in Slot(t) : /\ Probe(t, t.k[a], q) = a
                               /\ \A r \in 0 .. q - 1 : t.k[Probe(t, t.k[a], r)] # EMPTY
      BY <1>2, <3>2 DEF Findable
    <3>5. ASSUME NEW r \in 0 .. q - 1 PROVE u.k[Probe(u, u.k[a], r)] # EMPTY
      <4>1. r \in Nat
        BY <1>1
      <4>2. Probe(t, t.k[a], r) \in Slot(t)
        BY <1>1, <3>3, <4>1, ProbeFacts
      <4> QED
        BY <1>12, <2>2, <3>2, <3>4, <3>5, <4>2
    <3> QED
      BY <1>12, <3>2, <3>3, <3>4, <3>5
  <2> QED
    BY <2>1, <2>3 DEF Findable
<1>18. Sound(u, x)
  BY <1>1, <1>9, <1>11, <1>12, <1>15, <1>16, <1>17 DEF Sound
<1> QED
  BY <1>3, <1>9, <1>10, <1>13, <1>18

-----------------------------------------------------------------------------
(* The operations.                                                          *)

LEMMA HashInitInvariant == HashInit => HashIInv
<1> SUFFICES ASSUME HashInit PROVE HashIInv
  OBVIOUS
<1>1. PICK size \in NewSizes : table = NewTable(size)
  BY DEF HashInit
<1>2. size \in Nat \ {0} /\ size <= MaxSize
  BY HashAssumption
<1>3. Sound(table, <<>>) /\ table.size = size
  BY <1>1, <1>2, NewTableSound
<1>4. \E w \in Seq(Slot(table)) : Sound(table, w)
  BY <1>3 DEF Sound
<1> QED
  BY <1>2, <1>3, <1>4 DEF HashInit, HashIInv

\* What an insertion, a deletion and a lookup do to the list.
Holds(t, w, n, key, value) == t.k[w[n]] = key /\ t.v[w[n]] = value

LEMMA InsertEffect ==
    ASSUME HashIInv, NEW key \in Keys, NEW value \in Values, Insert(key, value),
           NEW w, Sound(table, w)
    PROVE  /\ endless' = FALSE /\ table'.size <= MaxSize
           /\ \E x : /\ Sound(table', x) /\ table'.count = table.count + 1
                     /\ SameEntries(table', x, table, w, table.count)
                     /\ Holds(table', x, table.count + 1, key, value)
<1>1. /\ table.size \in Nat \ {0} /\ table.count \in Nat
      /\ Slot(table) = 0 .. table.size - 1
      /\ table.count <= table.size
      /\ \A n \in Slot(table) : ~ Vacant(table, n) <=> table.k[n] \in Keys
      /\ \A m \in 1 .. table.count : w[m] \in Slot(table) /\ ~ Vacant(table, w[m])
  BY SoundFacts, CountedSlots
<1>2. /\ \A n \in Slot(table) : table.k[n] # key
      /\ ~ Full(table) \/ 2 * table.size <= MaxSize
      /\ hash \in [Keys -> Hashes] /\ table.size <= MaxSize /\ endless = FALSE
  BY DEF Insert, HashIInv
<1>3. PICK t : t = Grown(table)
  OBVIOUS
<1>4. \E y : /\ Sound(t, y) /\ t.size <= MaxSize /\ t.count < t.size
             /\ t.count = table.count /\ SameEntries(t, y, table, w, table.count)
  <2>1. CASE Full(table)
    <3>1. PICK z \in Nat : z = 2 * table.size
      BY <1>1
    <3>2. z >= table.count /\ z > 0 /\ z > table.count /\ z <= MaxSize
      BY <1>1, <1>2, <2>1, <3>1
    <3>3. t = Resized(table, z)
      BY <1>3, <2>1, <3>1 DEF Grown
    <3>4. \E y : /\ Sound(t, y) /\ t.size = z /\ t.count = table.count
                 /\ SameEntries(t, y, table, w, table.count)
      BY <1>2, <3>2, <3>3, ResizedSound
    <3> QED
      BY <3>2, <3>4
  <2>2. CASE ~ Full(table)
    <3>1. t = table
      BY <1>3, <2>2 DEF Grown
    <3>2. table.count < table.size
      BY <1>1, <2>2 DEF Full
    <3>3. SameEntries(table, w, table, w, table.count)
      BY DEF SameEntries
    <3> QED
      BY <1>2, <3>1, <3>2, <3>3
  <2> QED
    BY <2>1, <2>2
<1>5. PICK y : /\ Sound(t, y) /\ t.size <= MaxSize /\ t.count < t.size
               /\ t.count = table.count /\ SameEntries(t, y, table, w, table.count)
  BY <1>4
<1>6. /\ t.count \in Nat
      /\ \A n \in Slot(t) : ~ Vacant(t, n) <=> t.k[n] \in Keys
      /\ \A n \in Slot(t) : ~ Vacant(t, n) => \E m \in 1 .. t.count : y[m] = n
  BY <1>5, SoundFacts
<1>7. ASSUME NEW n \in Slot(t), t.k[n] = key PROVE FALSE
  <2>1. PICK m \in 1 .. table.count : y[m] = n
    BY <1>5, <1>6, <1>7
  <2>2. table.k[w[m]] = key
    BY <1>5, <1>7, <2>1 DEF SameEntries
  <2> QED
    BY <1>1, <1>2, <2>2
<1>8. RoomFor(t, key) # {}
  BY <1>2, <1>5, RoomExists
<1>9. table' = Put(t, key, value) /\ UNCHANGED endless
  BY <1>3, <1>8 DEF Insert
<1>10. PICK u : u = table'
  OBVIOUS
<1>11. PICK n, x :
          /\ n \in Slot(t)
          /\ Sound(u, x) /\ u.size = t.size /\ u.count = t.count + 1
          /\ u.k[n] = key /\ u.v[n] = value
          /\ x[t.count + 1] = n
          /\ \A m \in 1 .. t.count : /\ x[m] = y[m] /\ u.k[y[m]] = t.k[y[m]]
                                     /\ u.v[y[m]] = t.v[y[m]]
  BY <1>2, <1>5, <1>7, <1>8, <1>9, <1>10, PutSound
<1>12. SameEntries(u, x, table, w, table.count)
  BY <1>5, <1>11 DEF SameEntries
<1>13. Holds(u, x, table.count + 1, key, value) /\ u.count = table.count + 1
  BY <1>5, <1>11 DEF Holds
<1>14. u.size <= MaxSize
  BY <1>5, <1>11
<1> QED
  BY <1>2, <1>9, <1>10, <1>11, <1>12, <1>13, <1>14

LEMMA LookupEffect ==
    ASSUME HashIInv, NEW key \in Keys, Lookup(key), NEW w, Sound(table, w)
    PROVE  /\ table' = table
           /\ IF \E m \in 1 .. table.count : table.k[w[m]] = key
              THEN \E m \in 1 .. table.count : table.k[w[m]] = key /\ result' = <<key, table.v[w[m]]>>
              ELSE result' = <<key, Nothing>>
<1>1. /\ \A n \in Slot(table) : ~ Vacant(table, n) <=> table.k[n] \in Keys
      /\ \A m \in 1 .. table.count : w[m] \in Slot(table)
      /\ \A n \in Slot(table) : ~ Vacant(table, n) => \E m \in 1 .. table.count : w[m] = n
  BY SoundFacts
<1>2. FoundEntry(table, key) = {n \in Slot(table) : table.k[n] = key}
  BY FoundFacts DEF HashIInv
<1>3. PICK S : S = FoundEntry(table, key)
  OBVIOUS
<1>4. PICK n : n = CHOOSE m \in S : TRUE
  OBVIOUS
<1>5. result' = <<key, IF S = {} THEN Nothing ELSE table.v[n]>> /\ table' = table
  BY <1>3, <1>4 DEF Lookup
<1>6. CASE \E m \in 1 .. table.count : table.k[w[m]] = key
  <2>1. S # {}
    BY <1>1, <1>2, <1>3, <1>6
  <2>2. n \in S
    BY <1>4, <2>1
  <2>3. n \in Slot(table) /\ table.k[n] = key
    BY <1>2, <1>3, <2>2
  <2>4. PICK m \in 1 .. table.count : w[m] = n
    BY <1>1, <2>3
  <2> QED
    BY <1>5, <1>6, <2>1, <2>3, <2>4
<1>7. CASE ~ \E m \in 1 .. table.count : table.k[w[m]] = key
  <2>1. S = {}
    BY <1>1, <1>2, <1>3, <1>7
  <2> QED
    BY <1>5, <1>7, <2>1
<1> QED
  BY <1>6, <1>7

LEMMA DeleteEffect ==
    ASSUME HashIInv, NEW key \in Keys, Delete(key), NEW w, Sound(table, w)
    PROVE  IF \E m \in 1 .. table.count : table.k[w[m]] = key
           THEN /\ \E i \in 1 .. table.count :
                      /\ table.k[w[i]] = key /\ table' = DeleteAt(table, w[i])
                      /\ \A m \in 1 .. table.count : table.k[w[m]] = key => m = i
                /\ result' = Nothing
           ELSE table' = table /\ result' = <<key, Nothing>>
<1>1. /\ table.count \in Nat /\ Len(w) = table.count
      /\ \A n \in Slot(table) : ~ Vacant(table, n) <=> table.k[n] \in Keys
      /\ \A m \in 1 .. table.count : w[m] \in Slot(table) /\ ~ Vacant(table, w[m])
      /\ \A n \in Slot(table) : ~ Vacant(table, n) => \E m \in 1 .. table.count : w[m] = n
  BY SoundFacts
<1>2. PICK S : S = FoundEntry(table, key)
  OBVIOUS
<1>3. S = {n \in Slot(table) : table.k[n] = key}
  BY <1>2, FoundFacts DEF HashIInv
<1>4. IF S = {} THEN result' = <<key, Nothing>> /\ UNCHANGED table
      ELSE (\E n \in S : table' = DeleteAt(table, n)) /\ result' = Nothing
  BY <1>2 DEF Delete, DeleteAt
<1>5. CASE \E m \in 1 .. table.count : table.k[w[m]] = key
  <2>1. S # {}
    BY <1>1, <1>3, <1>5
  <2>2. PICK n \in S : table' = DeleteAt(table, n)
    BY <1>4, <2>1
  <2>3. n \in Slot(table) /\ table.k[n] = key
    BY <1>3, <2>2
  <2>4. PICK i \in 1 .. table.count : w[i] = n
    BY <1>1, <2>3
  <2>5. ASSUME NEW m \in 1 .. table.count, table.k[w[m]] = key PROVE m = i
    <3>1. w[m] = w[i]
      BY <1>1, <2>3, <2>4, <2>5 DEF Sound, Findable
    <3> QED
      BY <1>1, <3>1 DEF Sound, Covered
  <2> QED
    BY <1>4, <1>5, <2>1, <2>2, <2>3, <2>4, <2>5
<1>6. CASE ~ \E m \in 1 .. table.count : table.k[w[m]] = key
  <2>1. S = {}
    BY <1>1, <1>3, <1>6
  <2> QED
    BY <1>4, <1>6, <2>1
<1> QED
  BY <1>5, <1>6

LEMMA SoundNext ==
    ASSUME hash' = hash, NEW x, Sound(table', x)
    PROVE  Sound(table, x)'
<1>1. Findable(table') => Findable(table)'
  BY DEF Findable, Probe
<1>2. Findable(table)'
  BY <1>1 DEF Sound
<1> QED
  BY <1>2 DEF Sound

LEMMA HashStep == HashIInv /\ [HashNext]_hashVars => HashIInv'
<1> SUFFICES ASSUME HashIInv, [HashNext]_hashVars PROVE HashIInv'
  OBVIOUS
<1>1. PICK w \in Seq(Slot(table)) : Sound(table, w)
  BY DEF HashIInv
<1>2. hash' = hash
  BY DEF HashNext, Lookup, Delete, Insert, Renew, hashVars
<1>3. ASSUME NEW x, Sound(table', x), table'.size <= MaxSize, endless' = FALSE,
             result' \in {Nothing} \cup (Keys \X (Values \cup {Nothing}))
      PROVE  HashIInv'
  <2>1. Sound(table, x)'
    BY <1>2, <1>3, SoundNext
  <2>2. (\E y \in Seq(Slot(table)) : Sound(table, y))'
    BY <2>1 DEF Sound
  <2> QED
    BY <1>2, <1>3, <2>2 DEF HashIInv
<1>4. ASSUME NEW key \in Keys, Lookup(key) PROVE HashIInv'
  <2>1. /\ table' = table
        /\ IF \E m \in 1 .. table.count : table.k[w[m]] = key
           THEN \E m \in 1 .. table.count : table.k[w[m]] = key /\ result' = <<key, table.v[w[m]]>>
           ELSE result' = <<key, Nothing>>
    BY <1>1, <1>4, LookupEffect
  <2>2. \A m \in 1 .. table.count : table.v[w[m]] \in Values \cup {Nothing}
    BY <1>1, SoundFacts
  <2>3. result' \in Keys \X (Values \cup {Nothing})
    BY <2>1, <2>2
  <2>4. endless' = endless
    BY <1>4 DEF Lookup
  <2> QED
    BY <1>1, <1>3, <2>1, <2>3, <2>4 DEF HashIInv
<1>5. ASSUME NEW key \in Keys, NEW value \in Values, Insert(key, value) PROVE HashIInv'
  <2>1. endless' = FALSE /\ table'.size <= MaxSize /\ \E x : Sound(table', x)
    BY <1>1, <1>5, InsertEffect
  <2>2. result' = Nothing
    BY <1>5 DEF Insert
  <2> QED
    BY <1>3, <2>1, <2>2
<1>6. ASSUME NEW key \in Keys, Delete(key) PROVE HashIInv'
  <2>1. /\ endless' = endless
        /\ result' \in {Nothing} \cup (Keys \X (Values \cup {Nothing}))
    <3>1. result' \in {Nothing, <<key, Nothing>>}
      BY <1>1, <1>6, DeleteEffect
    <3>2. endless' = endless
      BY <1>6 DEF Delete
    <3> QED
      BY <3>1, <3>2
  <2>2. \/ \E i \in 1 .. table.count : table' = DeleteAt(table, w[i])
        \/ table' = table
    BY <1>1, <1>6, DeleteEffect
  <2>3. CASE table' = table
    BY <1>1, <1>3, <2>1, <2>3 DEF HashIInv
  <2>4. CASE \E i \in 1 .. table.count : table' = DeleteAt(table, w[i])
    <3>1. PICK i \in 1 .. table.count : table' = DeleteAt(table, w[i])
      BY <2>4
    <3>2. PICK u : u = table'
      OBVIOUS
    <3>3. Sound(u, Removed(w, i)) /\ u.size = table.size
      BY <1>1, <3>1, <3>2, DeleteSound DEF HashIInv
    <3> QED
      BY <1>3, <2>1, <3>2, <3>3 DEF HashIInv
  <2> QED
    BY <2>2, <2>3, <2>4
<1>7. CASE Renew
  <2>1. PICK size \in NewSizes : table' = NewTable(size)
    BY <1>7 DEF Renew
  <2>2. size \in Nat \ {0} /\ size <= MaxSize
    BY HashAssumption
  <2>3. Sound(table', <<>>) /\ table'.size = size
    BY <2>1, <2>2, NewTableSound
  <2> QED
    BY <1>3, <1>7, <2>2, <2>3 DEF Renew, HashIInv
<1>8. CASE UNCHANGED hashVars
  BY <1>1, <1>3, <1>8 DEF hashVars, HashIInv
<1> QED
  BY <1>4, <1>5, <1>6, <1>7, <1>8 DEF HashNext

-----------------------------------------------------------------------------
(* The theorems.                                                            *)

\* The list goes through the occupied slots, no key is there twice, and the
\* probes for a key come to it before they come to an empty slot.  The last is
\* what makes a lookup find it, and so what keeps a second one out.
THEOREM HashInvariance == HashSpec => []HashIInv
  BY HashInitInvariant, HashStep, PTL DEF HashSpec

\* Every variable has its type: no link leads out of the table.
THEOREM HashTypeCorrect == HashSpec => []HashTypeOK
<1>1. HashIInv => HashTypeOK
  <2> SUFFICES ASSUME HashIInv PROVE HashTypeOK
    OBVIOUS
  <2>1. PICK w \in Seq(Slot(table)) : Sound(table, w)
    BY DEF HashIInv
  <2>2. /\ table.size \in Nat \ {0} /\ table.count \in Nat /\ table.count <= table.size
        /\ table.k \in [Slot(table) -> Keys \cup {EMPTY, FREED}]
        /\ table.v \in [Slot(table) -> Values \cup {Nothing}]
        /\ table.next \in [Slot(table) -> Links(table)]
        /\ table.prev \in [Slot(table) -> Links(table)]
        /\ table.head \in Links(table) /\ table.tail \in Links(table)
    BY <2>1, SoundFacts, CountedSlots
  <2>3. table.size \in 1 .. MaxSize /\ table.count \in 0 .. table.size
    BY <2>2, HashAssumption DEF HashIInv
  <2>4. endless \in BOOLEAN
    BY DEF HashIInv
  <2> QED
    BY <2>2, <2>3, <2>4 DEF HashIInv, HashTypeOK
<1> QED
  BY <1>1, HashInvariance, PTL

LEMMA SoundList == HashIInv => ListWellFormed
<1> SUFFICES ASSUME HashIInv PROVE ListWellFormed
  OBVIOUS
<1>1. PICK w \in Seq(Slot(table)) : Sound(table, w)
  BY DEF HashIInv
<1>2. PICK c, a : c \in Nat /\ c = table.count /\ a = Walk(table)
  BY <1>1, SoundFacts
<1>3. /\ Len(w) = c
      /\ \A m \in 1 .. c : w[m] \in Slot(table) /\ ~ Vacant(table, w[m])
      /\ \A n \in Slot(table) : ~ Vacant(table, n) => \E m \in 1 .. c : w[m] = n
  BY <1>1, <1>2, SoundFacts
<1>4. DOMAIN a = 1 .. c /\ \A n \in 1 .. c : a[n] = w[n]
  BY <1>1, <1>2, <1>3, WalkIsList DEF Sound
<1>5. {a[n] : n \in DOMAIN a} = Occupied(table)
  BY <1>3, <1>4 DEF Occupied
<1>6. \A m, n \in DOMAIN a : a[m] = a[n] => m = n
  BY <1>1, <1>3, <1>4 DEF Sound, Covered
<1>7. IF c = 0 THEN table.head = Null /\ table.tail = Null
      ELSE table.tail = a[c] /\ table.next[table.tail] = Null
  <2>1. Chained(table, w)
    BY <1>1 DEF Sound
  <2>2. c # 0 => c \in 1 .. c
    BY <1>2
  <2> QED
    BY <1>2, <1>3, <1>4, <2>1, <2>2 DEF Chained
<1>8. \A n \in DOMAIN a : table.prev[a[n]] = IF n = 1 THEN Null ELSE a[n - 1]
  <2> SUFFICES ASSUME NEW n \in 1 .. c
               PROVE  table.prev[a[n]] = IF n = 1 THEN Null ELSE a[n - 1]
    BY <1>4
  <2>1. table.prev[w[n]] = IF n = 1 THEN Null ELSE w[n - 1]
    BY <1>1, <1>3 DEF Sound, Chained
  <2>2. n # 1 => n - 1 \in 1 .. c
    BY <1>2
  <2> QED
    BY <1>4, <2>1, <2>2
<1> QED
  BY <1>2, <1>5, <1>6, <1>7, <1>8 DEF ListWellFormed

\* The list goes through every occupied slot once, forwards and backwards, and
\* an insertion finds a slot, after any sequence of insertions, deletions and
\* resizes.
THEOREM HashTableSound == HashSpec => []TableSound
<1>1. HashIInv => TableSound
  BY SoundList DEF HashIInv, InsertEnds, TableSound
<1> QED
  BY <1>1, HashInvariance, PTL

-----------------------------------------------------------------------------
(* The ordered map.                                                         *)

Pairs(t, w) == [n \in 1 .. t.count |-> <<t.k[w[n]], t.v[w[n]]>>]

LEMMA PairsAre ==
    ASSUME NEW t, NEW w, Sound(t, w)
    PROVE  /\ [n \in 1 .. t.count |-> <<t.k[Walk(t)[n]], t.v[Walk(t)[n]]>>] = Pairs(t, w)
           /\ Len(Pairs(t, w)) = t.count /\ DOMAIN Pairs(t, w) = 1 .. t.count
           /\ Pairs(t, w) \in Seq(Keys \X Values)
           /\ \A n \in 1 .. t.count : Pairs(t, w)[n] = <<t.k[w[n]], t.v[w[n]]>>
<1>1. /\ t.count \in Nat /\ Len(w) = t.count
      /\ \A n \in Slot(t) : ~ Vacant(t, n) <=> t.k[n] \in Keys
      /\ \A m \in 1 .. t.count : w[m] \in Slot(t) /\ ~ Vacant(t, w[m])
  BY SoundFacts
<1>2. \A n \in 1 .. t.count : Walk(t)[n] = w[n]
  BY <1>1, WalkIsList DEF Sound
<1>3. \A n \in 1 .. t.count : <<t.k[w[n]], t.v[w[n]]>> \in Keys \X Values
  BY <1>1 DEF Sound, Findable
<1>4. PICK c, p : c \in Nat /\ c = t.count /\ p = Pairs(t, w)
  BY <1>1
<1>5. p \in [1 .. c -> Keys \X Values]
  BY <1>3, <1>4 DEF Pairs
<1>6. p \in Seq(Keys \X Values) /\ Len(p) = c
  BY <1>4, <1>5
<1> QED
  BY <1>2, <1>4, <1>5, <1>6 DEF Pairs

\* The pairs before and after a step, and the list of each.
LEMMA PairsStep ==
    ASSUME NEW t, t = table, NEW w, Sound(t, w), NEW u, u = table', NEW x, Sound(u, x)
    PROVE  PairsNow = Pairs(t, w) /\ PairsNow' = Pairs(u, x)
<1>1. PairsNow = [n \in 1 .. t.count |-> <<t.k[Walk(t)[n]], t.v[Walk(t)[n]]>>]
  BY DEF PairsNow
<1>2. PairsNow' = [n \in 1 .. u.count |-> <<u.k[Walk(u)[n]], u.v[Walk(u)[n]]>>]
  BY DEF PairsNow
<1> QED
  BY <1>1, <1>2, PairsAre

LEMMA InsertMaps ==
    ASSUME HashIInv, NEW key \in Keys, NEW value \in Values, Insert(key, value)
    PROVE  Map!Insert(key, value)
<1>1. PICK t, u : t = table /\ u = table'
  OBVIOUS
<1>2. PICK w \in Seq(Slot(t)) : Sound(t, w)
  BY <1>1 DEF HashIInv
<1>3. PICK x : /\ Sound(u, x) /\ u.count = t.count + 1
               /\ SameEntries(u, x, t, w, t.count) /\ Holds(u, x, t.count + 1, key, value)
  BY <1>1, <1>2, InsertEffect
<1>4. PICK c \in Nat : c = t.count
  BY <1>2, SoundFacts
<1>5. PICK p, q : p = Pairs(t, w) /\ q = Pairs(u, x)
  OBVIOUS
<1>6. PairsNow = p /\ PairsNow' = q
  BY <1>1, <1>2, <1>3, <1>5, PairsStep
<1>7. /\ p \in Seq(Keys \X Values) /\ Len(p) = c /\ DOMAIN p = 1 .. c
      /\ \A n \in 1 .. c : p[n] = <<t.k[w[n]], t.v[w[n]]>>
  <2>1. /\ Pairs(t, w) \in Seq(Keys \X Values) /\ Len(Pairs(t, w)) = t.count
        /\ DOMAIN Pairs(t, w) = 1 .. t.count
        /\ \A n \in 1 .. t.count : Pairs(t, w)[n] = <<t.k[w[n]], t.v[w[n]]>>
    BY <1>2, PairsAre
  <2> QED
    BY <1>4, <1>5, <2>1
<1>8. /\ q \in Seq(Keys \X Values) /\ Len(q) = c + 1 /\ DOMAIN q = 1 .. c + 1
      /\ \A n \in 1 .. c + 1 : q[n] = <<u.k[x[n]], u.v[x[n]]>>
  BY <1>3, <1>4, <1>5, PairsAre
<1>9. PICK e \in Keys \X Values : e = <<key, value>>
  OBVIOUS
<1>10. q[c + 1] = e /\ \A n \in 1 .. c : q[n] = p[n]
  <2>1. c + 1 \in 1 .. c + 1 /\ \A n \in 1 .. c : n \in 1 .. c + 1
    OBVIOUS
  <2> QED
    BY <1>3, <1>4, <1>7, <1>8, <1>9, <2>1 DEF SameEntries, Holds
<1>11. q = Append(p, e)
  <2>1. /\ Append(p, e) \in Seq(Keys \X Values) /\ Len(Append(p, e)) = c + 1
        /\ Append(p, e)[c + 1] = e
        /\ \A n \in 1 .. c : Append(p, e)[n] = p[n]
    BY <1>7, AppendFacts
  <2>2. PICK r : r = Append(p, e)
    OBVIOUS
  <2>3. r \in Seq(Keys \X Values) /\ Len(r) = c + 1 /\ \A n \in 1 .. c + 1 : r[n] = q[n]
    BY <1>10, <2>1, <2>2
  <2>4. r = q
    BY <1>8, <2>3
  <2> QED
    BY <2>2, <2>4
<1>12. \A n \in 1 .. c : p[n][1] # key
  <2>1. \A n \in 1 .. c : w[n] \in Slot(t)
    BY <1>2, <1>4, SoundFacts
  <2>2. \A n \in Slot(t) : t.k[n] # key
    BY <1>1 DEF Insert
  <2> QED
    BY <1>7, <2>1, <2>2
<1>13. result' = Nothing
  BY DEF Insert
<1> QED
  BY <1>6, <1>7, <1>9, <1>11, <1>12, <1>13 DEF Map!Insert, Map!KeysOf

LEMMA LookupMaps ==
    ASSUME HashIInv, NEW key \in Keys, Lookup(key)
    PROVE  Map!Lookup(key)
<1>1. PICK t, u : t = table /\ u = table'
  OBVIOUS
<1>2. PICK w \in Seq(Slot(t)) : Sound(t, w)
  BY <1>1 DEF HashIInv
<1>3. /\ u = t
      /\ IF \E m \in 1 .. t.count : t.k[w[m]] = key
         THEN \E m \in 1 .. t.count : t.k[w[m]] = key /\ result' = <<key, t.v[w[m]]>>
         ELSE result' = <<key, Nothing>>
  BY <1>1, <1>2, LookupEffect
<1>4. PICK p : p = Pairs(t, w)
  OBVIOUS
<1>5. PairsNow = p /\ PairsNow' = p
  BY <1>1, <1>2, <1>3, <1>4, PairsStep
<1>6. PICK c \in Nat : c = t.count
  BY <1>2, SoundFacts
<1>7. /\ DOMAIN p = 1 .. c
      /\ \A n \in 1 .. c : p[n][1] = t.k[w[n]] /\ p[n][2] = t.v[w[n]]
  <2>1. /\ DOMAIN Pairs(t, w) = 1 .. t.count
        /\ \A n \in 1 .. t.count : Pairs(t, w)[n] = <<t.k[w[n]], t.v[w[n]]>>
    BY <1>2, PairsAre
  <2>2. DOMAIN p = 1 .. c /\ \A n \in 1 .. c : p[n] = <<t.k[w[n]], t.v[w[n]]>>
    BY <1>4, <1>6, <2>1
  <2> QED
    BY <2>2
<1>8. CASE \E m \in 1 .. c : t.k[w[m]] = key
  <2>1. PICK m \in 1 .. c : t.k[w[m]] = key /\ result' = <<key, t.v[w[m]]>>
    BY <1>3, <1>6, <1>8
  <2>2. \A n \in 1 .. c : t.k[w[n]] = key => n = m
    <3>1. \A n \in 1 .. c : w[n] \in Slot(t) /\ ~ Vacant(t, w[n])
      BY <1>2, <1>6, SoundFacts
    <3>2. \A n \in 1 .. c : t.k[w[n]] = key => w[n] = w[m]
      BY <1>2, <2>1, <3>1 DEF Sound, Findable
    <3>3. Len(w) = c
      BY <1>2, <1>6, SoundFacts
    <3> QED
      BY <1>2, <3>2, <3>3 DEF Sound, Covered
  <2>3. (CHOOSE j \in DOMAIN p : p[j][1] = key) = m
    BY <1>7, <2>1, <2>2
  <2>4. Map!ValueOf(p, key) = t.v[w[m]]
    BY <1>7, <2>3 DEF Map!ValueOf
  <2>5. key \in Map!KeysOf(p)
    BY <1>7, <2>1 DEF Map!KeysOf
  <2> QED
    BY <1>5, <2>1, <2>4, <2>5 DEF Map!Lookup
<1>9. CASE ~ \E m \in 1 .. c : t.k[w[m]] = key
  <2>1. key \notin Map!KeysOf(p)
    BY <1>7, <1>9 DEF Map!KeysOf
  <2>2. result' = <<key, Nothing>>
    BY <1>3, <1>6, <1>9
  <2> QED
    BY <1>5, <2>1, <2>2 DEF Map!Lookup
<1> QED
  BY <1>8, <1>9

LEMMA DeleteMaps ==
    ASSUME HashIInv, NEW key \in Keys, Delete(key)
    PROVE  Map!Delete(key)
<1>1. PICK t, u : t = table /\ u = table'
  OBVIOUS
<1>2. PICK w \in Seq(Slot(t)) : Sound(t, w)
  BY <1>1 DEF HashIInv
<1>3. IF \E m \in 1 .. t.count : t.k[w[m]] = key
      THEN /\ \E i \in 1 .. t.count :
                 /\ t.k[w[i]] = key /\ u = DeleteAt(t, w[i])
                 /\ \A m \in 1 .. t.count : t.k[w[m]] = key => m = i
           /\ result' = Nothing
      ELSE u = t /\ result' = <<key, Nothing>>
  BY <1>1, <1>2, DeleteEffect
<1>4. PICK p : p = Pairs(t, w)
  OBVIOUS
<1>5. PICK c \in Nat : c = t.count
  BY <1>2, SoundFacts
<1>6. /\ p \in Seq(Keys \X Values) /\ Len(p) = c /\ DOMAIN p = 1 .. c
      /\ \A n \in 1 .. c : p[n] = <<t.k[w[n]], t.v[w[n]]>>
  BY <1>2, <1>4, <1>5, PairsAre
<1>7. CASE \E m \in 1 .. c : t.k[w[m]] = key
  <2>1. PICK i \in 1 .. c : t.k[w[i]] = key /\ u = DeleteAt(t, w[i])
    BY <1>3, <1>5, <1>7
  <2>2. PICK x : x = Removed(w, i)
    OBVIOUS
  <2>3. /\ Sound(u, x) /\ u.count = c - 1
        /\ \A m \in 1 .. c \ {i} : u.k[w[m]] = t.k[w[m]] /\ u.v[w[m]] = t.v[w[m]]
    BY <1>2, <1>5, <2>1, <2>2, DeleteSound DEF HashIInv
  <2>4. PICK q : q = Pairs(u, x)
    OBVIOUS
  <2>5. PairsNow = p /\ PairsNow' = q
    BY <1>1, <1>2, <1>4, <2>3, <2>4, PairsStep
  <2>6. /\ q \in Seq(Keys \X Values) /\ Len(q) = c - 1
        /\ \A n \in 1 .. c - 1 : q[n] = <<u.k[x[n]], u.v[x[n]]>>
    BY <2>3, <2>4, PairsAre
  <2>7. \A m \in 1 .. c - 1 : x[m] = IF m < i THEN w[m] ELSE w[m + 1]
    <3>1. w \in Seq(Slot(t)) /\ Len(w) = c /\ i \in 1 .. Len(w)
      BY <1>2, <1>5, SoundFacts
    <3> QED
      BY <2>2, <3>1, RemovedFacts
  <2>8. ASSUME NEW m \in 1 .. c - 1 PROVE q[m] = IF m < i THEN p[m] ELSE p[m + 1]
    <3>1. PICK a \in 1 .. c \ {i} : a = IF m < i THEN m ELSE m + 1
      OBVIOUS
    <3>2. x[m] = w[a]
      BY <2>7, <3>1
    <3>3. q[m] = p[a]
      <4>1. q[m] = <<u.k[w[a]], u.v[w[a]]>>
        BY <2>6, <3>2
      <4>2. u.k[w[a]] = t.k[w[a]] /\ u.v[w[a]] = t.v[w[a]]
        BY <2>3, <3>1
      <4>3. p[a] = <<t.k[w[a]], t.v[w[a]]>>
        BY <1>6, <3>1
      <4> QED
        BY <4>1, <4>2, <4>3
    <3> QED
      BY <3>1, <3>3
  <2>9. q = [m \in 1 .. Len(p) - 1 |-> IF m < i THEN p[m] ELSE p[m + 1]]
    <3>1. q = [m \in 1 .. c - 1 |-> q[m]]
      BY <2>6
    <3> QED
      BY <1>6, <2>8, <3>1
  <2>10. q = Map!Without(p, i)
    BY <2>9 DEF Map!Without
  <2>11. p[i][1] = key
    BY <1>6, <2>1
  <2>12. key \in Map!KeysOf(p)
    BY <1>6, <2>11 DEF Map!KeysOf
  <2>13. result' = Nothing
    BY <1>3, <1>5, <1>7
  <2> QED
    BY <1>6, <2>5, <2>10, <2>11, <2>12, <2>13 DEF Map!Delete
<1>8. CASE ~ \E m \in 1 .. c : t.k[w[m]] = key
  <2>1. u = t /\ result' = <<key, Nothing>>
    BY <1>3, <1>5, <1>8
  <2>2. PairsNow = p /\ PairsNow' = p
    BY <1>1, <1>2, <1>4, <2>1, PairsStep
  <2>3. key \notin Map!KeysOf(p)
    BY <1>6, <1>8 DEF Map!KeysOf
  <2> QED
    BY <2>1, <2>2, <2>3 DEF Map!Delete
<1> QED
  BY <1>7, <1>8

\* The table is the ordered map it is used as: every operation on the slots is
\* the operation on the pairs.
THEOREM HashImplementsMap == HashSpec => ImplementsOrderedMap
<1>1. HashInit => Map!Init
  <2> SUFFICES ASSUME HashInit PROVE PairsNow = <<>> /\ result = Nothing
    BY DEF Map!Init
  <2>1. PICK size \in NewSizes : table = NewTable(size)
    BY DEF HashInit
  <2>2. table.count = 0
    BY <2>1 DEF NewTable
  <2> QED
    BY <2>2 DEF HashInit, PairsNow
<1>2. HashIInv /\ [HashNext]_hashVars => [Map!Next]_<<PairsNow, result>>
  <2> SUFFICES ASSUME HashIInv, [HashNext]_hashVars
               PROVE  Map!Next \/ UNCHANGED <<PairsNow, result>>
    OBVIOUS
  <2>1. ASSUME NEW key \in Keys, Lookup(key) \/ Delete(key) PROVE Map!Next
    BY <2>1, LookupMaps, DeleteMaps DEF Map!Next
  <2>2. ASSUME NEW key \in Keys, NEW value \in Values, Insert(key, value) PROVE Map!Next
    BY <2>2, InsertMaps DEF Map!Next
  <2>3. CASE Renew
    <3>1. PICK size \in NewSizes : table' = NewTable(size)
      BY <2>3 DEF Renew
    <3>2. table'.count = 0
      BY <3>1 DEF NewTable
    <3>3. PairsNow' = <<>> /\ result' = Nothing
      BY <2>3, <3>2 DEF Renew, PairsNow
    <3> QED
      BY <3>3 DEF Map!Next, Map!Clear
  <2>4. CASE UNCHANGED hashVars
    BY <2>4 DEF hashVars, PairsNow
  <2> QED
    BY <2>1, <2>2, <2>3, <2>4 DEF HashNext
<1> QED
  BY <1>1, <1>2, HashInvariance, PTL DEF HashSpec, ImplementsOrderedMap, Map!Spec
=============================================================================
