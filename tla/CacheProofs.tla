---------------------------- MODULE CacheProofs ----------------------------
(***************************************************************************)
(* Proofs about Cache and CacheCluster for any number of proxies, clients, *)
(* tables, keys and commits and any size and time to live of the caches.   *)
(***************************************************************************)
EXTENDS CacheCluster, FiniteSetTheorems, TLAPS

-----------------------------------------------------------------------------
(* Induction *)

\* A set of numbers has a least one.
LEMMA LeastNumber ==
    ASSUME NEW T, T \subseteq Nat, T # {}
    PROVE  \E n \in T : \A m \in T : n <= m
<1> DEFINE R == OpToRel(<, Nat)
<1>1. \E x \in T : \A y \in T : ~ (<<y, x>> \in R)
  BY WFMin, NatLessThanWellFounded, Zenon
<1>2. \A x, y \in Nat : (<<y, x>> \in R) <=> y < x
  BY DEF OpToRel
<1> HIDE DEF R
<1>3. PICK n \in T : \A m \in T : ~ (<<m, n>> \in R)
  BY <1>1
<1>4. ASSUME NEW m \in T PROVE n <= m
  <2>1. ~ (m < n)
    BY <1>2, <1>3, Zenon
  <2>2. n \in Nat /\ m \in Nat
    OBVIOUS
  <2> QED
    BY <2>1, <2>2
<1> QED
  BY <1>4

\* Induction, with the property as a set.
LEMMA NatInd ==
    ASSUME NEW S, 0 \in S, \A n \in Nat : n \in S => n + 1 \in S
    PROVE  Nat \subseteq S
<1> SUFFICES ASSUME Nat \ S # {} PROVE FALSE
  OBVIOUS
<1>1. PICK n \in Nat \ S : \A m \in Nat \ S : n <= m
  BY LeastNumber, Zenon
<1>2. n - 1 \in Nat /\ n - 1 \in S
  BY <1>1
<1> QED
  BY <1>1, <1>2

-----------------------------------------------------------------------------
(* The list *)

\* A list of different keys, r, that is order without the keys in D.
Shorter(order, D, r) ==
    /\ r \in Seq(Keys) /\ IsInjective(r)
    /\ Range(r) = Range(order) \ D

\* What Unlisted has made of the first n elements.
Filters(order, D, n, g) ==
    /\ g \in [0 .. n -> Seq(Keys)]
    /\ g[0] = <<>>
    /\ \A i \in 1 .. n : g[i] = IF order[i] \in D THEN g[i - 1] ELSE Append(g[i - 1], order[i])

\* The function Unlisted defines by recursion exists.
LEMMA FilterExists ==
    ASSUME NEW order \in Seq(Keys), NEW D
    PROVE  \E g : Filters(order, D, Len(order), g)
<1> DEFINE S == {n \in Nat : n <= Len(order) => \E g : Filters(order, D, n, g)}
<1>1. 0 \in S
  <2>1. Filters(order, D, 0, [i \in 0 .. 0 |-> <<>>])
    BY DEF Filters
  <2> QED
    BY <2>1
<1>2. ASSUME NEW n \in Nat, n \in S PROVE n + 1 \in S
  <2> SUFFICES ASSUME n + 1 <= Len(order) PROVE \E g : Filters(order, D, n + 1, g)
    OBVIOUS
  <2>1. PICK g : Filters(order, D, n, g)
    BY <1>2
  <2>2. order[n + 1] \in Keys /\ g[n] \in Seq(Keys)
    BY <2>1 DEF Filters
  <2>3. PICK y : y = IF order[n + 1] \in D THEN g[n] ELSE Append(g[n], order[n + 1])
    BY Zenon
  <2>4. PICK h : h = [i \in 0 .. n + 1 |-> IF i <= n THEN g[i] ELSE y]
    BY Zenon
  <2>5. h \in [0 .. n + 1 -> Seq(Keys)] /\ h[0] = <<>>
    <3>1. y \in Seq(Keys)
      BY <2>2, <2>3
    <3> QED
      BY <2>1, <2>4, <3>1 DEF Filters
  <2>6. ASSUME NEW i \in 1 .. n + 1
        PROVE  h[i] = IF order[i] \in D THEN h[i - 1] ELSE Append(h[i - 1], order[i])
    <3>1. CASE i <= n
      <4>1. h[i] = g[i] /\ h[i - 1] = g[i - 1] /\ i \in 1 .. n
        BY <2>4, <3>1
      <4> QED
        BY <2>1, <4>1 DEF Filters
    <3>2. CASE i = n + 1
      <4>1. h[i] = y /\ h[i - 1] = g[n]
        BY <2>4, <3>2
      <4> QED
        BY <2>3, <3>2, <4>1
    <3> QED
      BY <3>1, <3>2
  <2> QED
    BY <2>5, <2>6, Zenon DEF Filters
<1>3. Len(order) \in S
  <2> HIDE DEF S
  <2> QED
    BY <1>1, <1>2, NatInd
<1> QED
  BY <1>3

\* And its last value is the value of Unlisted.
LEMMA UnlistedFilters ==
    ASSUME NEW order \in Seq(Keys), NEW D
    PROVE  \E g : Filters(order, D, Len(order), g) /\ Unlisted(order, D) = g[Len(order)]
<1> DEFINE Step(f, n) == IF n = 0 THEN <<>>
                         ELSE IF order[n] \in D THEN f[n - 1] ELSE Append(f[n - 1], order[n])
<1>1. PICK g : Filters(order, D, Len(order), g)
  BY FilterExists
<1>2. g = [n \in 0 .. Len(order) |-> Step(g, n)]
  <2>1. g = [n \in 0 .. Len(order) |-> g[n]]
    BY <1>1, Zenon DEF Filters
  <2>2. ASSUME NEW n \in 0 .. Len(order) PROVE g[n] = Step(g, n)
    <3>1. n # 0 => n \in 1 .. Len(order)
      OBVIOUS
    <3> QED
      BY <1>1, <3>1, Zenon DEF Filters
  <2> HIDE DEF Step
  <2> QED
    BY <2>1, <2>2, Zenon
<1>3. PICK f : f = CHOOSE h : h = [n \in 0 .. Len(order) |-> Step(h, n)]
  BY Zenon
<1>4. f = [n \in 0 .. Len(order) |-> Step(f, n)]
  BY <1>2, <1>3, Zenon
<1>5. Unlisted(order, D) = f[Len(order)]
  BY <1>3, Zenon DEF Unlisted
<1>6. \A n \in 0 .. Len(order) : f[n] = Step(f, n)
  BY <1>4, Zenon
<1>7. \A n \in 0 .. Len(order) : f[n] = g[n]
  <2> DEFINE S == {n \in Nat : n <= Len(order) => f[n] = g[n]}
  <2>1. 0 \in S
    BY <1>1, <1>6 DEF Filters
  <2>2. ASSUME NEW n \in Nat, n \in S PROVE n + 1 \in S
    <3> SUFFICES ASSUME n + 1 <= Len(order) PROVE f[n + 1] = g[n + 1]
      OBVIOUS
    <3>1. n + 1 \in 0 .. Len(order) /\ n + 1 # 0 /\ (n + 1) - 1 = n /\ n + 1 \in 1 .. Len(order)
      OBVIOUS
    <3>2. f[n] = g[n]
      BY <2>2
    <3>3. f[n + 1] = IF order[n + 1] \in D THEN f[n] ELSE Append(f[n], order[n + 1])
      BY <1>6, <3>1
    <3> QED
      BY <1>1, <3>1, <3>2, <3>3 DEF Filters
  <2> HIDE DEF S
  <2>3. Nat \subseteq S
    BY <2>1, <2>2, NatInd
  <2> QED
    BY <2>3 DEF S
<1> QED
  BY <1>1, <1>5, <1>7

\* Unlisted removes the keys it is given, keeps the others and repeats none.
LEMMA UnlistedShorter ==
    ASSUME NEW order \in Seq(Keys), IsInjective(order), NEW D
    PROVE  Shorter(order, D, Unlisted(order, D))
<1> DEFINE First(n) == {order[i] : i \in 1 .. n}
           Good(n, r) == r \in Seq(Keys) /\ IsInjective(r) /\ Range(r) = First(n) \ D
<1>1. PICK g : Filters(order, D, Len(order), g) /\ Unlisted(order, D) = g[Len(order)]
  BY UnlistedFilters
<1> DEFINE S == {n \in Nat : n <= Len(order) => Good(n, g[n])}
<1>2. 0 \in S
  <2>1. g[0] = <<>> /\ <<>> \in Seq(Keys)
    BY <1>1 DEF Filters
  <2>2. Range(<<>>) = {} /\ IsInjective(<<>>)
    BY DEF Range, IsInjective
  <2>3. First(0) = {}
    OBVIOUS
  <2> QED
    BY <2>1, <2>2, <2>3, Zenon
<1>3. ASSUME NEW n \in Nat, n \in S PROVE n + 1 \in S
  <2> SUFFICES ASSUME n + 1 <= Len(order) PROVE Good(n + 1, g[n + 1])
    OBVIOUS
  <2>1. PICK r : r = g[n]
    BY Zenon
  <2>2. r \in Seq(Keys) /\ IsInjective(r) /\ Range(r) = First(n) \ D
    BY <1>3, <2>1
  <2>3. PICK k \in Keys : k = order[n + 1]
    OBVIOUS
  <2>4. First(n + 1) = First(n) \cup {k}
    BY <2>3
  <2>5. k \notin First(n)
    BY <2>3 DEF IsInjective
  <2>6. g[n + 1] = IF k \in D THEN r ELSE Append(r, k)
    <3>1. n + 1 \in 1 .. Len(order) /\ (n + 1) - 1 = n
      OBVIOUS
    <3> QED
      BY <1>1, <2>1, <2>3, <3>1 DEF Filters
  <2> HIDE DEF First
  <2>7. CASE k \in D
    BY <2>2, <2>4, <2>6, <2>7
  <2>8. CASE k \notin D
    <3>1. Append(r, k) \in Seq(Keys) /\ Len(Append(r, k)) = Len(r) + 1
      BY <2>2
    <3>2. \A i \in 1 .. Len(r) + 1 : Append(r, k)[i] = IF i <= Len(r) THEN r[i] ELSE k
      BY <2>2
    <3>3. Range(Append(r, k)) = Range(r) \cup {k}
      <4>1. DOMAIN Append(r, k) = 1 .. Len(r) + 1 /\ DOMAIN r = 1 .. Len(r) /\ Len(r) \in Nat
        BY <2>2, <3>1
      <4>2. \A i \in 1 .. Len(r) : i \in 1 .. Len(r) + 1 /\ Append(r, k)[i] = r[i]
        BY <3>2, <4>1
      <4>3. Len(r) + 1 \in 1 .. Len(r) + 1 /\ Append(r, k)[Len(r) + 1] = k
        BY <3>2, <4>1
      <4>4. \A i \in 1 .. Len(r) + 1 : i \in 1 .. Len(r) \/ i = Len(r) + 1
        BY <4>1
      <4> QED
        BY <4>1, <4>2, <4>3, <4>4, Zenon DEF Range
    <3>4. k \notin Range(r)
      BY <2>2, <2>5
    <3>5. IsInjective(Append(r, k))
      BY <2>2, <3>1, <3>2, <3>4 DEF Range, IsInjective
    <3> QED
      BY <2>2, <2>4, <2>6, <2>8, <3>1, <3>3, <3>5
  <2> QED
    BY <2>7, <2>8
<1>4. Len(order) \in S
  <2> HIDE DEF S
  <2> QED
    BY <1>2, <1>3, NatInd
<1>5. First(Len(order)) = Range(order)
  BY DEF Range
<1> QED
  BY <1>1, <1>4, <1>5 DEF Shorter

\* A list without repetition is as long as it has elements.
LEMMA LengthCounts ==
    ASSUME NEW order \in Seq(Keys), IsInjective(order)
    PROVE  IsFiniteSet(Range(order)) /\ Cardinality(Range(order)) = Len(order)
<1>1. order \in [1 .. Len(order) -> Range(order)] /\ Len(order) \in Nat
  BY DEF Range
<1>2. order \in Bijection(1 .. Len(order), Range(order))
  BY <1>1 DEF Bijection, Injection, Surjection, Range
<1>3. ExistsBijection(1 .. Len(order), Range(order))
  BY <1>2 DEF ExistsBijection
<1>4. IsFiniteSet(1 .. Len(order))
  BY <1>1, FS_Interval
<1>5. Cardinality(Range(order)) = Len(order)
  BY <1>1, <1>3, FS_CountingElements
<1>6. IsFiniteSet(Range(order))
  BY <1>3, <1>4, FS_Bijection
<1> QED
  BY <1>5, <1>6

\* A key in front of a list that does not have it.
LEMMA PushFront ==
    ASSUME NEW r \in Seq(Keys), IsInjective(r), NEW key \in Keys, key \notin Range(r)
    PROVE  /\ <<key>> \o r \in Seq(Keys) /\ IsInjective(<<key>> \o r)
           /\ Range(<<key>> \o r) = Range(r) \cup {key}
           /\ Len(<<key>> \o r) = Len(r) + 1
<1> DEFINE q == <<key>> \o r
<1>1. q \in Seq(Keys) /\ Len(q) = Len(r) + 1 /\ Len(r) \in Nat
  OBVIOUS
<1>2. \A i \in 1 .. Len(r) + 1 : q[i] = IF i = 1 THEN key ELSE r[i - 1]
  OBVIOUS
<1>3. DOMAIN q = 1 .. Len(r) + 1 /\ DOMAIN r = 1 .. Len(r)
  BY <1>1
<1> HIDE DEF q
<1>4. q[1] = key /\ 1 \in 1 .. Len(r) + 1
  BY <1>1, <1>2
<1>5. \A i \in 1 .. Len(r) : i + 1 \in 1 .. Len(r) + 1 /\ q[i + 1] = r[i]
  BY <1>1, <1>2
<1>6. \A i \in 1 .. Len(r) + 1 : i = 1 \/ (i - 1 \in 1 .. Len(r) /\ q[i] = r[i - 1])
  BY <1>1, <1>2
<1>7. Range(q) = Range(r) \cup {key}
  <2>1. \A x : x \in Range(q) <=> \E i \in 1 .. Len(r) + 1 : x = q[i]
    BY <1>3, Zenon DEF Range
  <2>2. \A x : x \in Range(r) <=> \E i \in 1 .. Len(r) : x = r[i]
    BY <1>3, Zenon DEF Range
  <2>3. ASSUME NEW x \in Range(q) PROVE x \in Range(r) \cup {key}
    <3>1. PICK i \in 1 .. Len(r) + 1 : x = q[i]
      BY <2>1, <2>3
    <3>2. CASE i = 1
      BY <1>4, <3>1, <3>2
    <3>3. CASE i - 1 \in 1 .. Len(r) /\ q[i] = r[i - 1]
      BY <2>2, <3>1, <3>3
    <3> QED
      BY <1>6, <3>2, <3>3
  <2>4. ASSUME NEW x \in Range(r) PROVE x \in Range(q)
    BY <1>5, <2>1, <2>2, <2>4, Zenon
  <2>5. key \in Range(q)
    BY <1>4, <2>1, Zenon
  <2> QED
    BY <2>3, <2>4, <2>5, Zenon
<1>8. IsInjective(q)
  <2> SUFFICES ASSUME NEW i \in 1 .. Len(r) + 1, NEW j \in 1 .. Len(r) + 1, q[i] = q[j]
               PROVE  i = j
    BY <1>3 DEF IsInjective
  <2>1. \A a \in 1 .. Len(r) : r[a] # key
    BY <1>3 DEF Range
  <2>2. CASE i = 1 \/ j = 1
    BY <1>4, <1>6, <2>1, <2>2
  <2>3. CASE i # 1 /\ j # 1
    <3>1. i - 1 \in 1 .. Len(r) /\ j - 1 \in 1 .. Len(r) /\ r[i - 1] = r[j - 1]
      BY <1>6, <2>3
    <3>2. i - 1 = j - 1
      BY <1>3, <3>1 DEF IsInjective
    <3> QED
      BY <3>2
  <2> QED
    BY <2>2, <2>3
<1> QED
  BY <1>1, <1>7, <1>8 DEF q

-----------------------------------------------------------------------------
(* The index *)

Entries == [pos : Nat, tables : SUBSET Tables, age : Nat, missed : SUBSET Tables]

KeysOf(items, t) == {k \in DOMAIN items : t \in items[k].tables}

\* The index the entries ask for.
IndexOf(items) == [t \in {u \in Tables : KeysOf(items, u) # {}} |-> KeysOf(items, t)]

\* A cache as the methods leave it: list and map have the same keys, none twice, and the
\* index is determined by the map.
Sane(c) ==
    /\ c = [order |-> c.order, items |-> c.items, index |-> c.index]
    /\ c.order \in Seq(Keys) /\ IsInjective(c.order) /\ Len(c.order) <= MaxEntries
    /\ c.items \in [Range(c.order) -> Entries]
    /\ c.index = IndexOf(c.items)

\* That is what IndexExact asks for.
LEMMA SaneWellFormed ==
    ASSUME NEW c, Sane(c)
    PROVE  WellFormed(c)
<1>1. DOMAIN c.items = Range(c.order)
  BY DEF Sane
<1>2. Len(c.order) = Cardinality(DOMAIN c.items)
  BY <1>1, LengthCounts DEF Sane
<1>3. \A k \in DOMAIN c.items : c.items[k].tables \subseteq Tables
  BY <1>1 DEF Sane, Entries
<1>4. DOMAIN c.index = {u \in Tables : KeysOf(c.items, u) # {}}
  BY DEF Sane, IndexOf
<1>5. \A t \in DOMAIN c.index : c.index[t] = {k \in DOMAIN c.items : t \in c.items[k].tables}
  BY <1>4, Zenon DEF Sane, IndexOf, KeysOf
<1>6. DOMAIN c.index = UNION {c.items[k].tables : k \in DOMAIN c.items}
  BY <1>3, <1>4, Zenon DEF KeysOf
<1> QED
  BY <1>1, <1>2, <1>5, <1>6 DEF WellFormed, Sane

\* removeTableIndex makes the index that of the other entries.
LEMMA UnindexedExact ==
    ASSUME NEW c, Sane(c), NEW D
    PROVE  Unindexed(c, D) = IndexOf(Restrict(c.items, DOMAIN c.items \ D))
<1> DEFINE rest == Restrict(c.items, DOMAIN c.items \ D)
           left(t) == {k \in c.index[t] : k \in D => t \notin c.items[k].tables}
<1>1. DOMAIN rest = DOMAIN c.items \ D /\ \A k \in DOMAIN rest : rest[k] = c.items[k]
  BY DEF Restrict
<1>2. DOMAIN c.index = {u \in Tables : KeysOf(c.items, u) # {}}
  BY DEF Sane, IndexOf
<1>3. \A t \in DOMAIN c.index : c.index[t] = KeysOf(c.items, t)
  BY <1>2, Zenon DEF Sane, IndexOf
<1>4. ASSUME NEW t \in DOMAIN c.index PROVE left(t) = KeysOf(rest, t)
  <2>1. left(t) = {k \in KeysOf(c.items, t) : k \in D => t \notin c.items[k].tables}
    BY <1>3, Zenon
  <2> HIDE DEF rest, left
  <2> QED
    BY <1>1, <2>1, Zenon DEF KeysOf
<1>5. \A t : KeysOf(rest, t) # {} => KeysOf(c.items, t) # {}
  BY <1>1, Zenon DEF KeysOf
<1>6. {u \in DOMAIN c.index : left(u) # {}} = {u \in Tables : KeysOf(rest, u) # {}}
  <2> HIDE DEF left, rest
  <2> QED
    BY <1>2, <1>4, <1>5, Zenon
<1>7. Unindexed(c, D) = [t \in {u \in DOMAIN c.index : left(u) # {}} |-> left(t)]
  BY Zenon DEF Unindexed
<1> HIDE DEF left, rest
<1>8. IndexOf(rest) = [t \in {u \in Tables : KeysOf(rest, u) # {}} |-> KeysOf(rest, t)]
  BY Zenon DEF IndexOf
<1>9. \A t \in {u \in DOMAIN c.index : left(u) # {}} : left(t) = KeysOf(rest, t)
  BY <1>4, Zenon
<1>10. Unindexed(c, D) = IndexOf(rest)
  BY <1>6, <1>7, <1>8, <1>9, Zenon
<1> QED
  BY <1>10 DEF rest

\* updateTableIndex makes the index of items that of items with entry e under key.
LEMMA IndexedExact ==
    ASSUME NEW items, NEW key, NEW e \in Entries, NEW more,
           key \notin DOMAIN items, DOMAIN more = DOMAIN items \cup {key},
           more[key] = e, \A k \in DOMAIN items : more[k] = items[k]
    PROVE  Indexed(IndexOf(items), key, e.tables) = IndexOf(more)
<1> DEFINE I == IndexOf(items)
           new(t) == (IF t \in DOMAIN I THEN I[t] ELSE {}) \cup (IF t \in e.tables THEN {key} ELSE {})
<1>1. e.tables \subseteq Tables
  BY DEF Entries
<1>2. DOMAIN I = {u \in Tables : KeysOf(items, u) # {}} /\ \A t \in DOMAIN I : I[t] = KeysOf(items, t)
  BY Zenon DEF IndexOf
<1>3. \A t : KeysOf(more, t) = KeysOf(items, t) \cup (IF t \in e.tables THEN {key} ELSE {})
  BY Zenon DEF KeysOf
<1>4. \A t \in Tables : (IF t \in DOMAIN I THEN I[t] ELSE {}) = KeysOf(items, t)
  <2> HIDE DEF I
  <2> QED
    BY <1>2, Zenon
<1>5. Indexed(I, key, e.tables) = [t \in DOMAIN I \cup e.tables |-> new(t)]
  BY Zenon DEF Indexed
<1> HIDE DEF I
<1>6. \A t \in Tables : new(t) = KeysOf(more, t)
  BY <1>3, <1>4, Zenon
<1> HIDE DEF new
<1>7. DOMAIN I \cup e.tables = {u \in Tables : KeysOf(more, u) # {}}
  BY <1>1, <1>2, <1>3, Zenon
<1>8. IndexOf(more) = [t \in {u \in Tables : KeysOf(more, u) # {}} |-> KeysOf(more, t)]
  BY Zenon DEF IndexOf
<1>9. \A t \in DOMAIN I \cup e.tables : new(t) = KeysOf(more, t)
  BY <1>1, <1>2, <1>6, Zenon
<1>10. Indexed(I, key, e.tables) = IndexOf(more)
  BY <1>5, <1>7, <1>8, <1>9, Zenon
<1> QED
  BY <1>10 DEF I

-----------------------------------------------------------------------------
(* The methods *)

\* Some entries are gone, the others are as they were.
Shrinks(c, d) ==
    /\ Sane(d)
    /\ DOMAIN d.items \subseteq DOMAIN c.items
    /\ \A k \in DOMAIN d.items : d.items[k] = c.items[k]

\* Entry e is under key; of the others some may be gone.
Stores(c, key, e, d) ==
    /\ Sane(d)
    /\ key \in DOMAIN d.items /\ d.items[key] = e
    /\ \A k \in DOMAIN d.items \ {key} : k \in DOMAIN c.items /\ d.items[k] = c.items[k]

\* New: an empty cache is sane.
LEMMA EmptySane == Sane(EmptyCache) /\ DOMAIN EmptyCache.items = {}
<1>1. <<>> \in Seq(Keys) /\ Len(<<>>) = 0 /\ DOMAIN <<>> = {}
  OBVIOUS
<1>2. IsInjective(<<>>) /\ Range(<<>>) = {}
  BY <1>1, Zenon DEF IsInjective, Range
<1>3. <<>> \in [{} -> Entries]
  BY <1>1
<1>4. IndexOf(<<>>) = <<>>
  <2>1. \A t : KeysOf(<<>>, t) = {}
    BY <1>1, Zenon DEF KeysOf
  <2>2. {u \in Tables : KeysOf(<<>>, u) # {}} = {}
    BY <2>1, Zenon
  <2>3. DOMAIN IndexOf(<<>>) = {} /\ IndexOf(<<>>) = [t \in DOMAIN IndexOf(<<>>) |-> IndexOf(<<>>)[t]]
    BY <2>2, Zenon DEF IndexOf
  <2> QED
    BY <1>1, <2>3
<1>5. 0 <= MaxEntries
  BY CacheAssumption
<1> QED
  BY <1>1, <1>2, <1>3, <1>4, <1>5 DEF Sane, EmptyCache

\* removeElement takes the keys out of list, map and index.
LEMMA RemovedShrinks ==
    ASSUME NEW c, Sane(c), NEW D
    PROVE  /\ Shrinks(c, Removed(c, D))
           /\ DOMAIN Removed(c, D).items = DOMAIN c.items \ D
           /\ (D \cap DOMAIN c.items # {}) => Len(Removed(c, D).order) < Len(c.order)
<1> DEFINE r == Unlisted(c.order, D)
           rest == Restrict(c.items, DOMAIN c.items \ D)
           d == Removed(c, D)
<1>1. d.order = r /\ d.items = rest /\ d.index = Unindexed(c, D)
      /\ d = [order |-> d.order, items |-> d.items, index |-> d.index]
  BY DEF Removed
<1>2. c.order \in Seq(Keys) /\ IsInjective(c.order) /\ c.items \in [Range(c.order) -> Entries]
      /\ Len(c.order) \in Nat /\ Len(c.order) <= MaxEntries
  BY DEF Sane
<1>3. r \in Seq(Keys) /\ IsInjective(r) /\ Range(r) = Range(c.order) \ D
  BY <1>2, UnlistedShorter DEF Shorter
<1>4. DOMAIN rest = Range(r) /\ rest \in [Range(r) -> Entries] /\ \A k \in DOMAIN rest : rest[k] = c.items[k]
  BY <1>2, <1>3 DEF Restrict
<1>5. IsFiniteSet(Range(c.order)) /\ Cardinality(Range(c.order)) = Len(c.order)
      /\ Cardinality(Range(r)) = Len(r) /\ Len(r) \in Nat
  <2> HIDE DEF r
  <2>1. Cardinality(Range(r)) = Len(r)
    BY <1>3, LengthCounts, Zenon
  <2>2. Len(r) \in Nat
    BY <1>3
  <2>3. IsFiniteSet(Range(c.order)) /\ Cardinality(Range(c.order)) = Len(c.order)
    BY <1>2, LengthCounts, Zenon
  <2> QED
    BY <2>1, <2>2, <2>3
<1>6. Len(r) <= Len(c.order) /\ (Len(r) = Len(c.order) => Range(r) = Range(c.order))
  <2>1. Range(r) \in SUBSET Range(c.order)
    BY <1>3
  <2> QED
    BY <1>5, <2>1, FS_Subset
<1>7. Unindexed(c, D) = IndexOf(rest)
  BY UnindexedExact
<1>8. Sane(d)
  <2>1. Len(d.order) <= MaxEntries
    BY <1>1, <1>2, <1>5, <1>6, CacheAssumption
  <2> HIDE DEF r, rest, d
  <2> QED
    BY <1>1, <1>3, <1>4, <1>7, <2>1 DEF Sane
<1>9. D \cap DOMAIN c.items # {} => Len(r) < Len(c.order)
  <2>1. DOMAIN c.items = Range(c.order)
    BY <1>2
  <2>2. D \cap DOMAIN c.items # {} => Range(r) # Range(c.order)
    BY <1>3, <2>1
  <2> HIDE DEF r
  <2> QED
    BY <1>2, <1>5, <1>6, <2>2
<1> HIDE DEF r, rest
<1> QED
  BY <1>1, <1>2, <1>3, <1>4, <1>8, <1>9 DEF Shrinks

\* Moving a key to the front changes the order only.
LEMMA MovedSame ==
    ASSUME NEW order \in Seq(Keys), IsInjective(order), NEW key \in Range(order)
    PROVE  LET r == MovedToFront(order, key)
           IN  r \in Seq(Keys) /\ IsInjective(r) /\ Range(r) = Range(order) /\ Len(r) = Len(order)
<1> DEFINE u == Unlisted(order, {key})
           r == MovedToFront(order, key)
<1>1. u \in Seq(Keys) /\ IsInjective(u) /\ Range(u) = Range(order) \ {key}
  BY UnlistedShorter DEF Shorter
<1>2. key \in Keys
  BY DEF Range
<1>3. r = <<key>> \o u
  BY Zenon DEF MovedToFront
<1> HIDE DEF u, r
<1>4. r \in Seq(Keys) /\ IsInjective(r) /\ Range(r) = Range(u) \cup {key}
  <2>1. key \notin Range(u)
    BY <1>1
  <2> QED
    BY <1>1, <1>2, <1>3, <2>1, PushFront
<1>5. Range(r) = Range(order)
  BY <1>1, <1>4
<1>6. Len(r) = Len(order)
  <2>1. Cardinality(Range(r)) = Len(r)
    BY <1>4, LengthCounts, Zenon
  <2>2. Cardinality(Range(order)) = Len(order)
    BY LengthCounts
  <2> QED
    BY <1>5, <2>1, <2>2
<1> QED
  BY <1>4, <1>5, <1>6 DEF r

\* Get drops an expired entry at most.
LEMMA AfterGetShrinks ==
    ASSUME NEW c, Sane(c), NEW key
    PROVE  Shrinks(c, AfterGet(c, key))
<1>1. CASE Hit(c, key)
  <2> DEFINE d == [c EXCEPT !.order = MovedToFront(@, key)]
  <2>1. AfterGet(c, key) = d
    BY <1>1 DEF AfterGet
  <2>2. d.order = MovedToFront(c.order, key) /\ d.items = c.items /\ d.index = c.index
        /\ d = [order |-> d.order, items |-> d.items, index |-> d.index]
    BY DEF Sane
  <2>3. key \in Range(c.order)
    BY <1>1 DEF Hit, Sane
  <2>4. /\ d.order \in Seq(Keys) /\ IsInjective(d.order) /\ Range(d.order) = Range(c.order)
        /\ Len(d.order) = Len(c.order)
    BY <2>2, <2>3, MovedSame DEF Sane
  <2> HIDE DEF d
  <2> QED
    BY <2>1, <2>2, <2>4 DEF Sane, Shrinks
<1>2. CASE ~Hit(c, key) /\ key \in DOMAIN c.items
  BY <1>2, RemovedShrinks DEF AfterGet
<1>3. CASE key \notin DOMAIN c.items
  BY <1>3 DEF AfterGet, Hit, Shrinks
<1> QED
  BY <1>1, <1>2, <1>3

\* Set of a key that has no entry, when there is room.
LEMMA SetNew ==
    ASSUME NEW c, Sane(c), Len(c.order) < MaxEntries, NEW key \in Keys, key \notin DOMAIN c.items,
           NEW e \in Entries, NEW d,
           d = [order |-> <<key>> \o c.order,
                items |-> [k \in DOMAIN c.items \cup {key} |-> IF k = key THEN e ELSE c.items[k]],
                index |-> Indexed(c.index, key, e.tables)]
    PROVE  Stores(c, key, e, d)
<1>1. c.order \in Seq(Keys) /\ IsInjective(c.order) /\ c.items \in [Range(c.order) -> Entries]
      /\ c.index = IndexOf(c.items) /\ DOMAIN c.items = Range(c.order) /\ Len(c.order) \in Nat
  BY DEF Sane
<1>2. d = [order |-> d.order, items |-> d.items, index |-> d.index] /\ d.order = <<key>> \o c.order
      /\ d.index = Indexed(c.index, key, e.tables)
  OBVIOUS
<1>3. DOMAIN d.items = DOMAIN c.items \cup {key} /\ d.items[key] = e
      /\ \A k \in DOMAIN c.items : d.items[k] = c.items[k]
  OBVIOUS
<1>4. d.order \in Seq(Keys) /\ IsInjective(d.order) /\ Range(d.order) = Range(c.order) \cup {key}
      /\ Len(d.order) = Len(c.order) + 1
  BY <1>1, <1>2, PushFront
<1>5. d.index = IndexOf(d.items)
  <2>1. PICK i, m : i = c.items /\ m = d.items
    BY Zenon
  <2>2. key \notin DOMAIN i /\ DOMAIN m = DOMAIN i \cup {key} /\ m[key] = e
        /\ \A k \in DOMAIN i : m[k] = i[k]
    BY <1>3, <2>1, Zenon
  <2>3. Indexed(IndexOf(i), key, e.tables) = IndexOf(m)
    BY <2>2, IndexedExact, Zenon
  <2> QED
    BY <1>1, <1>2, <2>1, <2>3, Zenon
<1>6. d.items \in [Range(d.order) -> Entries]
  BY <1>1, <1>4
<1>7. Len(d.order) <= MaxEntries
  BY <1>1, <1>4, CacheAssumption
<1> QED
  BY <1>2, <1>3, <1>4, <1>5, <1>6, <1>7 DEF Stores, Sane

\* Set: the entry is in the cache, at the cost of one other at most.
LEMMA AfterSetStores ==
    ASSUME NEW c, Sane(c), NEW key \in Keys, NEW e \in Entries
    PROVE  Stores(c, key, e, AfterSet(c, key, e))
<1>1. CASE key \in DOMAIN c.items
  <2> DEFINE d == AfterSet(c, key, e)
             rest == Restrict(c.items, DOMAIN c.items \ {key})
  <2>1. d = [order |-> MovedToFront(c.order, key), items |-> [c.items EXCEPT ![key] = e],
             index |-> Indexed(Unindexed(c, {key}), key, e.tables)]
    BY <1>1 DEF AfterSet
  <2> HIDE DEF d
  <2>2. c.order \in Seq(Keys) /\ IsInjective(c.order) /\ c.items \in [Range(c.order) -> Entries]
        /\ DOMAIN c.items = Range(c.order) /\ Len(c.order) <= MaxEntries
    BY DEF Sane
  <2>3. /\ d.order \in Seq(Keys) /\ IsInjective(d.order) /\ Range(d.order) = Range(c.order)
        /\ Len(d.order) = Len(c.order)
    BY <1>1, <2>1, <2>2, MovedSame
  <2>4. DOMAIN d.items = DOMAIN c.items /\ d.items[key] = e
        /\ \A k \in DOMAIN c.items \ {key} : d.items[k] = c.items[k]
    BY <1>1, <2>1, <2>2
  <2>5. d.items \in [Range(d.order) -> Entries]
    BY <2>1, <2>2, <2>3, Zenon
  <2>6. d.index = IndexOf(d.items)
    <3>1. Unindexed(c, {key}) = IndexOf(rest)
      BY UnindexedExact
    <3>2. DOMAIN rest = DOMAIN c.items \ {key} /\ \A k \in DOMAIN rest : rest[k] = c.items[k]
      BY DEF Restrict
    <3>3. d.index = Indexed(IndexOf(rest), key, e.tables)
      BY <2>1, <3>1
    <3> HIDE DEF rest
    <3>4. key \notin DOMAIN rest /\ DOMAIN d.items = DOMAIN rest \cup {key}
          /\ \A k \in DOMAIN rest : d.items[k] = rest[k]
      BY <1>1, <2>4, <3>2
    <3> QED
      BY <2>4, <3>3, <3>4, IndexedExact
  <2>7. d = [order |-> d.order, items |-> d.items, index |-> d.index]
    BY <2>1
  <2>8. Sane(d)
    BY <2>2, <2>3, <2>5, <2>6, <2>7 DEF Sane
  <2>9. Stores(c, key, e, d)
    BY <1>1, <2>4, <2>8 DEF Stores
  <2> QED
    BY <2>9 DEF d
<1>2. CASE key \notin DOMAIN c.items
  <2> DEFINE f == IF Len(c.order) >= MaxEntries THEN Evicted(c) ELSE c
             d == AfterSet(c, key, e)
  <2>1. d = [order |-> <<key>> \o f.order,
             items |-> [k \in DOMAIN f.items \cup {key} |-> IF k = key THEN e ELSE f.items[k]],
             index |-> Indexed(f.index, key, e.tables)]
    BY <1>2, Zenon DEF AfterSet
  <2>2. Len(c.order) \in Nat /\ Len(c.order) <= MaxEntries /\ DOMAIN c.items = Range(c.order)
    BY DEF Sane
  <2>3. Shrinks(c, f) /\ Len(f.order) < MaxEntries
    <3>1. CASE Len(c.order) >= MaxEntries
      <4>1. c.order[Len(c.order)] \in DOMAIN c.items
        <5>1. Len(c.order) \in DOMAIN c.order
          BY <2>2, <3>1, CacheAssumption DEF Sane
        <5> QED
          BY <2>2, <5>1 DEF Range
      <4>2. Shrinks(c, Evicted(c)) /\ Len(Evicted(c).order) < Len(c.order)
        BY <4>1, RemovedShrinks DEF Evicted
      <4>3. Len(Evicted(c).order) \in Nat
        BY <4>2 DEF Shrinks, Sane
      <4> QED
        BY <2>2, <3>1, <4>2, <4>3, CacheAssumption
    <3>2. CASE ~(Len(c.order) >= MaxEntries)
      BY <2>2, <3>2, CacheAssumption DEF Shrinks
    <3> QED
      BY <3>1, <3>2
  <2> HIDE DEF f, d
  <2>4. Stores(f, key, e, d)
    BY <1>2, <2>1, <2>3, SetNew, Zenon DEF Shrinks
  <2>5. Stores(c, key, e, d)
    BY <2>3, <2>4 DEF Stores, Shrinks
  <2> QED
    BY <2>5 DEF d
<1> QED
  BY <1>1, <1>2

\* InvalidateTable leaves no entry that reads the table.
LEMMA InvalidatedShrinks ==
    ASSUME NEW c, Sane(c), NEW table
    PROVE  /\ Shrinks(c, Invalidated(c, table))
           /\ \A k \in DOMAIN Invalidated(c, table).items : table \notin c.items[k].tables
<1>1. \A k \in DOMAIN c.items : c.items[k].tables \subseteq Tables
  BY DEF Sane, Entries
<1>2. DOMAIN c.index = {u \in Tables : KeysOf(c.items, u) # {}}
      /\ \A t \in DOMAIN c.index : c.index[t] = KeysOf(c.items, t)
  <2>1. c.index = IndexOf(c.items)
    BY DEF Sane
  <2> QED
    BY <2>1, Zenon DEF IndexOf
<1>3. CASE table \notin DOMAIN c.index
  <2>1. Invalidated(c, table) = c
    BY <1>3 DEF Invalidated
  <2>2. \A k \in DOMAIN c.items : table \notin c.items[k].tables
    BY <1>1, <1>2, <1>3, Zenon DEF KeysOf
  <2> QED
    BY <2>1, <2>2 DEF Shrinks
<1>4. CASE table \in DOMAIN c.index
  <2> DEFINE D == c.index[table] \cap DOMAIN c.items
             r == Removed(c, D)
  <2>1. Invalidated(c, table) = [r EXCEPT !.index = Restrict(@, DOMAIN @ \ {table})]
    BY <1>4, Zenon DEF Invalidated
  <2>2. Shrinks(c, r) /\ DOMAIN r.items = DOMAIN c.items \ D
    BY RemovedShrinks
  <2>3. \A k \in DOMAIN c.items : k \in D <=> table \in c.items[k].tables
    BY <1>2, <1>4, Zenon DEF KeysOf
  <2> HIDE DEF D, r
  <2>4. r.index = IndexOf(r.items) /\ r = [order |-> r.order, items |-> r.items, index |-> r.index]
    BY <2>2 DEF Shrinks, Sane
  <2>5. KeysOf(r.items, table) = {}
    BY <2>2, <2>3, Zenon DEF KeysOf, Shrinks
  <2>6. table \notin DOMAIN r.index
    BY <2>4, <2>5 DEF IndexOf
  <2>7. Restrict(r.index, DOMAIN r.index \ {table}) = r.index
    <3>1. DOMAIN r.index \ {table} = DOMAIN r.index
      BY <2>6
    <3>2. r.index = [t \in DOMAIN r.index |-> r.index[t]]
      BY <2>4 DEF IndexOf
    <3> QED
      BY <3>1, <3>2 DEF Restrict
  <2>8. [r EXCEPT !.index = Restrict(@, DOMAIN @ \ {table})] = r
    BY <2>4, <2>7
  <2> QED
    BY <2>1, <2>2, <2>3, <2>8
<1> QED
  BY <1>3, <1>4

\* Time passes: only the ages change.
LEMMA AgedSane ==
    ASSUME NEW c, Sane(c)
    PROVE  /\ Sane(Aged(c))
           /\ DOMAIN Aged(c).items = DOMAIN c.items
           /\ \A k \in DOMAIN c.items :
                 LET e == Aged(c).items[k]
                 IN  /\ e.pos = c.items[k].pos /\ e.tables = c.items[k].tables
                     /\ e.missed = c.items[k].missed
                     /\ c.items[k].age \in 0 .. TTL + 1 => e.age \in 0 .. TTL + 1
<1> DEFINE d == Aged(c)
<1>1. c = [order |-> c.order, items |-> c.items, index |-> c.index]
      /\ c.items \in [Range(c.order) -> Entries] /\ DOMAIN c.items = Range(c.order)
      /\ c.index = IndexOf(c.items)
  BY DEF Sane
<1>2. d = [order |-> c.order, items |-> [k \in DOMAIN c.items |-> Older(c.items[k])], index |-> c.index]
  BY <1>1 DEF Aged
<1>3. ASSUME NEW e \in Entries
      PROVE  /\ Older(e) \in Entries /\ Older(e).pos = e.pos /\ Older(e).tables = e.tables
             /\ Older(e).missed = e.missed
             /\ e.age \in 0 .. TTL + 1 => Older(e).age \in 0 .. TTL + 1
  BY CacheAssumption DEF Entries, Older
<1> HIDE DEF d
<1>4. d = [order |-> d.order, items |-> d.items, index |-> d.index] /\ d.order = c.order /\ d.index = c.index
      /\ DOMAIN d.items = DOMAIN c.items /\ \A k \in DOMAIN c.items : d.items[k] = Older(c.items[k])
  BY <1>2
<1>5. d.items \in [Range(d.order) -> Entries]
  BY <1>1, <1>2, <1>3, <1>4
<1>6. IndexOf(d.items) = IndexOf(c.items)
  <2>1. \A k \in DOMAIN c.items : d.items[k].tables = c.items[k].tables
    BY <1>1, <1>3, <1>4
  <2>2. \A t : KeysOf(d.items, t) = KeysOf(c.items, t)
    BY <1>4, <2>1, Zenon DEF KeysOf
  <2>3. {u \in Tables : KeysOf(d.items, u) # {}} = {u \in Tables : KeysOf(c.items, u) # {}}
    BY <2>2, Zenon
  <2> QED
    BY <2>2, <2>3 DEF IndexOf
<1>7. Sane(d)
  BY <1>1, <1>4, <1>5, <1>6 DEF Sane
<1>8. \A k \in DOMAIN c.items : c.items[k] \in Entries
  BY <1>1
<1>9. \A k \in DOMAIN c.items :
        /\ d.items[k].pos = c.items[k].pos /\ d.items[k].tables = c.items[k].tables
        /\ d.items[k].missed = c.items[k].missed
        /\ c.items[k].age \in 0 .. TTL + 1 => d.items[k].age \in 0 .. TTL + 1
  BY <1>3, <1>4, <1>8, Zenon
<1> QED
  BY <1>4, <1>7, <1>9, Zenon DEF d

-----------------------------------------------------------------------------
(* The cluster *)

Requests ==
    {Idle} \cup [step : {"fetch"}, proxy : Proxies, key : Keys]
           \cup [step : {"store"}, proxy : Proxies, key : Keys, pos : Nat]
           \cup [step : {"invalidate", "publish"}, proxy : Proxies, left : SUBSET Tables,
                  pos : Nat, news : SUBSET (Tables \cup {Star})]

\* An answer under way, and one in a cache, is of a reader at position r or before.
Answered(o, r) == o.step = "store" => o.pos <= r

EntryOK(k, e, r) == e.tables \in ReadsOf[k] /\ e.age <= TTL + 1 /\ e.pos <= r

\* The writes on e's tables invalidated where it is, h[t] being the last on t, are in the
\* answer or were missing in it when it was stored.
Accounted(e, h) == {t \in e.tables : h[t] > e.pos} \subseteq e.missed

CacheOK(c, r, h) ==
    /\ Sane(c)
    /\ \A k \in DOMAIN c.items : EntryOK(k, c.items[k], r) /\ Accounted(c.items[k], h)

ClusterInv ==
    /\ log \in Seq(Writes) /\ replayed \in Nat /\ replayed <= Len(log)
    /\ op \in [Clients -> Requests]
    /\ \A c \in Clients : Answered(op[c], replayed)
    /\ DOMAIN cache = Proxies /\ cache = [p \in Proxies |-> cache[p]]
    /\ DOMAIN cleared = Proxies /\ cleared = [p \in Proxies |-> cleared[p]]
    /\ \A p \in Proxies : CacheOK(cache[p], replayed, cleared[p])

\* What a request has at each step.
LEMMA RequestFields ==
    ASSUME NEW o \in Requests
    PROVE  /\ o.step \in {"idle", "fetch", "store", "invalidate", "publish"}
           /\ o.step \in {"fetch", "store"} => o.proxy \in Proxies /\ o.key \in Keys
           /\ o.step = "store" => o.pos \in Nat
           /\ o.step = "invalidate" =>
                 o \in [step : {"invalidate", "publish"}, proxy : Proxies, left : SUBSET Tables,
                        pos : Nat, news : SUBSET (Tables \cup {Star})]
<1>1. CASE o = Idle
  BY <1>1 DEF Idle
<1>2. CASE o \in [step : {"fetch"}, proxy : Proxies, key : Keys]
  BY <1>2
<1>3. CASE o \in [step : {"store"}, proxy : Proxies, key : Keys, pos : Nat]
  BY <1>3
<1>4. CASE o \in [step : {"invalidate", "publish"}, proxy : Proxies, left : SUBSET Tables,
                  pos : Nat, news : SUBSET (Tables \cup {Star})]
  BY <1>4
<1> QED
  BY <1>1, <1>2, <1>3, <1>4 DEF Requests

\* Losing entries does no harm.
LEMMA ShrinksOK ==
    ASSUME NEW c, NEW d, NEW r, NEW h, CacheOK(c, r, h), Shrinks(c, d)
    PROVE  CacheOK(d, r, h)
BY Zenon DEF CacheOK, Shrinks

\* An invalidation of the tables in T may be noted when no entry reads one of them.
LEMMA ClearsOK ==
    ASSUME NEW c, NEW d, NEW r, NEW h, NEW g, NEW T, CacheOK(c, r, h), Shrinks(c, d),
           \A k \in DOMAIN d.items : c.items[k].tables \cap T = {},
           \A t \in Tables \ T : g[t] = h[t]
    PROVE  CacheOK(d, r, g)
<1> SUFFICES ASSUME NEW k \in DOMAIN d.items
             PROVE  EntryOK(k, d.items[k], r) /\ Accounted(d.items[k], g)
  BY Zenon DEF CacheOK, Shrinks
<1>1. d.items[k] = c.items[k] /\ k \in DOMAIN c.items
  BY DEF Shrinks
<1>2. EntryOK(k, c.items[k], r) /\ Accounted(c.items[k], h)
  BY <1>1 DEF CacheOK
<1>3. c.items[k].tables \subseteq Tables \ T
  BY <1>1 DEF CacheOK, Sane, Entries
<1>4. {t \in c.items[k].tables : g[t] > c.items[k].pos} = {t \in c.items[k].tables : h[t] > c.items[k].pos}
  BY <1>3, Zenon
<1> QED
  BY <1>1, <1>2, <1>4 DEF Accounted

\* Storing an entry in order.
LEMMA StoresOK ==
    ASSUME NEW c, NEW d, NEW r, NEW h, NEW key, NEW e, CacheOK(c, r, h), Stores(c, key, e, d),
           EntryOK(key, e, r), Accounted(e, h)
    PROVE  CacheOK(d, r, h)
BY Zenon DEF CacheOK, Stores

\* Time and replication.
LEMMA AgesOK ==
    ASSUME NEW c, NEW r \in Nat, NEW h, CacheOK(c, r, h)
    PROVE  CacheOK(Aged(c), r, h) /\ CacheOK(c, r + 1, h)
<1>1. \A k \in DOMAIN c.items : c.items[k] \in Entries
  BY DEF CacheOK, Sane
<1>2. CacheOK(Aged(c), r, h)
  <2> SUFFICES ASSUME NEW k \in DOMAIN Aged(c).items
               PROVE  EntryOK(k, Aged(c).items[k], r) /\ Accounted(Aged(c).items[k], h)
    BY AgedSane DEF CacheOK
  <2>1. PICK e, f : e = c.items[k] /\ f = Aged(c).items[k]
    BY Zenon
  <2>2. /\ k \in DOMAIN c.items /\ f.pos = e.pos /\ f.tables = e.tables /\ f.missed = e.missed
        /\ e.age \in 0 .. TTL + 1 => f.age \in 0 .. TTL + 1
    BY <2>1, AgedSane DEF CacheOK
  <2>3. EntryOK(k, e, r) /\ Accounted(e, h) /\ e \in Entries
    BY <1>1, <2>1, <2>2 DEF CacheOK
  <2>4. e.age \in 0 .. TTL + 1
    BY <2>3, CacheAssumption DEF EntryOK, Entries
  <2>5. EntryOK(k, f, r)
    BY <2>2, <2>3, <2>4 DEF EntryOK
  <2>6. Accounted(f, h)
    BY <2>2, <2>3, Zenon DEF Accounted
  <2> QED
    BY <2>1, <2>5, <2>6
<1>3. CacheOK(c, r + 1, h)
  <2> SUFFICES ASSUME NEW k \in DOMAIN c.items PROVE EntryOK(k, c.items[k], r + 1)
    BY DEF CacheOK
  <2>1. c.items[k].pos \in Nat /\ EntryOK(k, c.items[k], r)
    BY <1>1 DEF CacheOK, Entries
  <2> QED
    BY <2>1 DEF EntryOK
<1> QED
  BY <1>2, <1>3

\* A step at one proxy p, which leaves cache d and notes g there.
AtProxy(p, d, g) ==
    /\ cache' = [cache EXCEPT ![p] = d]
    /\ cleared' = [cleared EXCEPT ![p] = g]
    /\ CacheOK(d, replayed, g)

\* A step of client c, or of nobody: its request becomes o.
Request(c, o) == op' = [op EXCEPT ![c] = o] /\ o \in Requests /\ Answered(o, replayed)

LogKept == UNCHANGED <<log, replayed>>

\* Together these keep the invariant.
LEMMA ProxyInv ==
    ASSUME ClusterInv, NEW p \in Proxies, NEW d, NEW g, AtProxy(p, d, g), LogKept,
           UNCHANGED op \/ \E c \in Clients, o \in Requests : Request(c, o)
    PROVE  ClusterInv'
<1>1. DOMAIN cache' = Proxies /\ cache' = [q \in Proxies |-> cache'[q]]
      /\ \A q \in Proxies : cache'[q] = IF q = p THEN d ELSE cache[q]
  BY DEF ClusterInv, AtProxy
<1>2. DOMAIN cleared' = Proxies /\ cleared' = [q \in Proxies |-> cleared'[q]]
      /\ \A q \in Proxies : cleared'[q] = IF q = p THEN g ELSE cleared[q]
  BY DEF ClusterInv, AtProxy
<1>3. \A q \in Proxies : CacheOK(cache[q], replayed, cleared[q])
  BY DEF ClusterInv
<1>4. \A q \in Proxies : CacheOK(cache'[q], replayed', cleared'[q])
  <2>1. replayed' = replayed /\ CacheOK(d, replayed, g)
    BY DEF LogKept, AtProxy
  <2> QED
    BY <1>1, <1>2, <1>3, <2>1, Zenon
<1>5. op' \in [Clients -> Requests] /\ \A c \in Clients : Answered(op'[c], replayed)
  BY DEF ClusterInv, Request
<1> QED
  BY <1>1, <1>2, <1>4, <1>5 DEF ClusterInv, LogKept

\* A step of a request that touches no cache.
LEMMA RequestInv ==
    ASSUME ClusterInv, UNCHANGED <<cache, cleared>>, LogKept,
           NEW c \in Clients, NEW o, Request(c, o)
    PROVE  ClusterInv'
<1>1. op' \in [Clients -> Requests] /\ \A b \in Clients : Answered(op'[b], replayed)
  BY DEF ClusterInv, Request
<1> QED
  BY <1>1 DEF ClusterInv, LogKept

\* Get, on the path to a read.
LEMMA LookupInv ==
    ASSUME ClusterInv, NEW c \in Clients, NEW p \in Proxies, NEW k \in Keys, Lookup(c, p, k)
    PROVE  ClusterInv'
<1>1. CacheOK(cache[p], replayed, cleared[p])
  BY DEF ClusterInv
<1>2. CacheOK(AfterGet(cache[p], k), replayed, cleared[p])
  <2>1. Shrinks(cache[p], AfterGet(cache[p], k))
    BY <1>1, AfterGetShrinks DEF CacheOK
  <2> QED
    BY <1>1, <2>1, ShrinksOK
<1>3. AtProxy(p, AfterGet(cache[p], k), cleared[p])
  <2>1. cleared = [cleared EXCEPT ![p] = cleared[p]]
    BY DEF ClusterInv
  <2> QED
    BY <1>2, <2>1 DEF Lookup, AtProxy
<1>4. PICK o : o = IF Hit(cache[p], k) THEN Idle ELSE [step |-> "fetch", proxy |-> p, key |-> k]
  BY Zenon
<1>5. o \in Requests /\ o.step # "store"
  BY <1>4 DEF Requests, Idle
<1>6. Request(c, o)
  BY <1>4, <1>5 DEF Lookup, Request, Answered
<1> QED
  BY <1>3, <1>5, <1>6, ProxyInv DEF Lookup, LogKept

\* The answer to a read, kept for the cache or not.
LEMMA FetchInv ==
    ASSUME ClusterInv, NEW c \in Clients, Fetch(c) \/ FetchUncached(c)
    PROVE  ClusterInv'
<1>1. op[c] \in Requests /\ replayed \in Nat
  BY DEF ClusterInv
<1>2. CASE Fetch(c)
  <2>1. PICK o : o = [step |-> "store", proxy |-> op[c].proxy, key |-> op[c].key, pos |-> replayed]
    BY Zenon
  <2>2. op[c].proxy \in Proxies /\ op[c].key \in Keys
    BY <1>1, <1>2, RequestFields DEF Fetch
  <2>3. o \in Requests /\ o.pos <= replayed
    BY <1>1, <2>1, <2>2 DEF Requests
  <2>4. Request(c, o)
    BY <1>2, <2>1, <2>3 DEF Fetch, Request, Answered
  <2> QED
    BY <1>2, <2>4, RequestInv DEF Fetch, LogKept
<1>3. CASE FetchUncached(c)
  <2>1. Request(c, Idle)
    BY <1>3 DEF FetchUncached, Request, Answered, Idle, Requests
  <2> QED
    BY <1>3, <2>1, RequestInv DEF FetchUncached, LogKept
<1> QED
  BY <1>2, <1>3

\* Set, with what had been invalidated by then noted.
LEMMA StoreInv ==
    ASSUME ClusterInv, NEW c \in Clients, Store(c)
    PROVE  ClusterInv'
<1>1. op[c] \in Requests /\ replayed \in Nat /\ op[c].step = "store"
  BY DEF ClusterInv, Store
<1>2. PICK p \in Proxies, k \in Keys, n \in Nat : p = op[c].proxy /\ k = op[c].key /\ n = op[c].pos
  BY <1>1, RequestFields
<1>3. n <= replayed
  BY <1>1, <1>2 DEF ClusterInv, Answered
<1> DEFINE Late(q, tables, m) == {t \in tables : cleared[q][t] > m}
<1>4. PICK tables \in ReadsOf[k] :
         cache' = [cache EXCEPT ![p] =
             AfterSet(@, k, [pos |-> n, tables |-> tables, age |-> 0,
                             missed |-> Late(p, tables, n)])]
  <2>1. \E tables \in ReadsOf[op[c].key] :
           cache' = [cache EXCEPT ![op[c].proxy] =
               AfterSet(@, op[c].key, [pos |-> op[c].pos, tables |-> tables, age |-> 0,
                                       missed |-> Late(op[c].proxy, tables, op[c].pos)])]
    BY Zenon DEF Store
  <2> HIDE DEF Late
  <2> QED
    BY <1>2, <2>1, Zenon
<1>5. PICK e : e = [pos |-> n, tables |-> tables, age |-> 0, missed |-> Late(p, tables, n)]
  BY Zenon
<1>6. tables \subseteq Tables
  BY ClusterAssumption
<1>7. e \in Entries /\ EntryOK(k, e, replayed)
  <2>1. PICK m \in SUBSET Tables : m = Late(p, tables, n)
    BY <1>6, Zenon
  <2>2. e = [pos |-> n, tables |-> tables, age |-> 0, missed |-> m]
    BY <1>5, <2>1
  <2> QED
    BY <1>3, <1>6, <2>2, CacheAssumption DEF Entries, EntryOK
<1>8. Accounted(e, cleared[p])
  BY <1>5 DEF Accounted
<1>9. CacheOK(cache[p], replayed, cleared[p])
  BY DEF ClusterInv
<1>10. CacheOK(AfterSet(cache[p], k, e), replayed, cleared[p])
  <2>1. Stores(cache[p], k, e, AfterSet(cache[p], k, e))
    BY <1>7, <1>9, AfterSetStores DEF CacheOK
  <2> QED
    BY <1>7, <1>8, <1>9, <2>1, StoresOK
<1>11. AtProxy(p, AfterSet(cache[p], k, e), cleared[p])
  <2>1. cleared = [cleared EXCEPT ![p] = cleared[p]]
    BY DEF ClusterInv
  <2>2. cache' = [cache EXCEPT ![p] = AfterSet(cache[p], k, e)]
    BY <1>4, <1>5
  <2> QED
    BY <1>10, <2>1, <2>2, Zenon DEF Store, AtProxy
<1>12. Request(c, Idle) /\ Idle \in Requests
  BY DEF Store, Request, Answered, Idle, Requests
<1> QED
  BY <1>11, <1>12, ProxyInv DEF Store, LogKept

\* A commit, and what its client does next.
LEMMA WriteInv ==
    ASSUME ClusterInv, NEW tables \in Writes,
           \/ \E c \in Clients, p \in Proxies : Write(c, p, tables)
           \/ WriteUnseen(tables)
    PROVE  ClusterInv'
<1>1. log \in Seq(Writes) /\ replayed \in Nat /\ replayed <= Len(log) /\ Len(log) \in Nat
      /\ op \in [Clients -> Requests]
  BY DEF ClusterInv
<1>2. log' = Append(log, tables) /\ UNCHANGED <<cache, replayed, channel, cleared>>
  BY DEF Write, WriteUnseen
<1>3. log' \in Seq(Writes) /\ Len(log') = Len(log) + 1
  BY <1>1, <1>2
<1>4. op' \in [Clients -> Requests] /\ \A b \in Clients : Answered(op'[b], replayed)
  <2>1. CASE UNCHANGED op
    BY <2>1 DEF ClusterInv
  <2>2. CASE \E c \in Clients, p \in Proxies : Write(c, p, tables)
    <3>1. PICK c \in Clients, p \in Proxies : Write(c, p, tables)
      BY <2>2
    <3>2. PICK o : o = [step |-> "invalidate", proxy |-> p, left |-> tables,
                        pos |-> Len(log) + 1, news |-> tables]
      BY Zenon
    <3>3. o \in Requests /\ o.step # "store"
      <4>1. tables \subseteq Tables
        BY ClusterAssumption
      <4> QED
        BY <1>1, <3>2, <4>1 DEF Requests
    <3>4. op' = [op EXCEPT ![c] = o]
      BY <3>1, <3>2 DEF Write
    <3> QED
      BY <1>1, <3>3, <3>4 DEF Answered, ClusterInv
  <2> QED
    BY <2>1, <2>2 DEF WriteUnseen
<1> QED
  BY <1>1, <1>2, <1>3, <1>4 DEF ClusterInv

\* A table or everything is invalidated at a proxy, and noted as of position n.
LEMMA ClearInv ==
    ASSUME ClusterInv, NEW p \in Proxies, NEW T, NEW n, NEW d, Clears(p, T, n),
           cache' = [cache EXCEPT ![p] = d], Shrinks(cache[p], d),
           \A k \in DOMAIN d.items : cache[p].items[k].tables \cap T = {}
    PROVE  \E g : AtProxy(p, d, g)
<1>1. CacheOK(cache[p], replayed, cleared[p]) /\ DOMAIN cleared = Proxies
  BY DEF ClusterInv
<1>2. PICK g : g = [t \in Tables |-> IF t \in T /\ n > cleared[p][t] THEN n ELSE cleared[p][t]]
  BY Zenon
<1>3. cleared' = [cleared EXCEPT ![p] = g]
  BY <1>1, <1>2 DEF Clears
<1>4. \A t \in Tables \ T : g[t] = cleared[p][t]
  BY <1>2
<1>5. PICK c, h : c = cache[p] /\ h = cleared[p]
  BY Zenon
<1>6. /\ CacheOK(c, replayed, h) /\ Shrinks(c, d)
      /\ \A k \in DOMAIN d.items : c.items[k].tables \cap T = {}
      /\ \A t \in Tables \ T : g[t] = h[t]
  BY <1>1, <1>4, <1>5
<1>7. CacheOK(d, replayed, g)
  BY <1>6, ClearsOK, Zenon
<1> QED
  BY <1>3, <1>7, Zenon DEF AtProxy

\* InvalidateTable or FlushAll, as a message or a request asks for it.
LEMMA FlushShrinks ==
    ASSUME NEW c, Sane(c), NEW table
    PROVE  LET d == IF table = Star THEN Flushed(c) ELSE Invalidated(c, table)
           IN  /\ Shrinks(c, d)
               /\ \A k \in DOMAIN d.items :
                     c.items[k].tables \cap (IF table = Star THEN Tables ELSE {table}) = {}
<1>1. CASE table = Star
  <2>1. Shrinks(c, EmptyCache) /\ DOMAIN EmptyCache.items = {}
    BY EmptySane DEF Shrinks
  <2> QED
    BY <1>1, <2>1 DEF Flushed
<1>2. CASE table # Star
  <2>1. Shrinks(c, Invalidated(c, table))
        /\ \A k \in DOMAIN Invalidated(c, table).items : table \notin c.items[k].tables
    BY InvalidatedShrinks
  <2> QED
    BY <1>2, <2>1
<1> QED
  BY <1>1, <1>2

\* One pass of the loop of a write.
LEMMA InvalidateNextInv ==
    ASSUME ClusterInv, NEW c \in Clients, InvalidateNext(c)
    PROVE  ClusterInv'
<1>1. op[c] \in [step : {"invalidate", "publish"}, proxy : Proxies, left : SUBSET Tables,
                 pos : Nat, news : SUBSET (Tables \cup {Star})]
  BY RequestFields DEF ClusterInv, InvalidateNext
<1>2. PICK p \in Proxies : p = op[c].proxy
  BY <1>1
<1>3. PICK t \in op[c].left :
         /\ cache' = [cache EXCEPT ![p] = Invalidated(@, t)]
         /\ Clears(p, {t}, op[c].pos)
         /\ op' = [op EXCEPT ![c].step = IF op[c].left = {t} THEN "publish" ELSE @,
                             ![c].left = @ \ {t}]
  BY <1>2, Zenon DEF InvalidateNext
<1>4. PICK d : d = Invalidated(cache[p], t)
  BY Zenon
<1>5. Sane(cache[p]) /\ DOMAIN cache = Proxies
  BY DEF ClusterInv, CacheOK
<1>6. Shrinks(cache[p], d) /\ \A k \in DOMAIN d.items : t \notin cache[p].items[k].tables
  BY <1>4, <1>5, InvalidatedShrinks
<1>7. cache' = [cache EXCEPT ![p] = d]
  BY <1>3, <1>4
<1>8. PICK g : AtProxy(p, d, g)
  <2>1. \A k \in DOMAIN d.items : cache[p].items[k].tables \cap {t} = {}
    BY <1>6
  <2> QED
    BY <1>3, <1>6, <1>7, <2>1, ClearInv, Zenon
<1>9. PICK o : o = [op[c] EXCEPT !.step = IF op[c].left = {t} THEN "publish" ELSE @, !.left = @ \ {t}]
  BY Zenon
<1>10. o \in [step : {"invalidate", "publish"}, proxy : Proxies, left : SUBSET Tables,
              pos : Nat, news : SUBSET (Tables \cup {Star})]
  <2>1. op[c].left \ {t} \in SUBSET Tables
    BY <1>1
  <2>2. (IF op[c].left = {t} THEN "publish" ELSE op[c].step) \in {"invalidate", "publish"}
    BY <1>1
  <2> QED
    BY <1>1, <1>9, <2>1, <2>2, Zenon
<1>11. o \in Requests /\ o.step # "store"
  BY <1>10 DEF Requests
<1>12. Request(c, o)
  <2>1. op' = [op EXCEPT ![c] = o]
    BY <1>3, <1>9, Zenon DEF ClusterInv
  <2> QED
    BY <1>11, <2>1 DEF Request, Answered
<1> QED
  BY <1>8, <1>11, <1>12, ProxyInv DEF InvalidateNext, LogKept

\* Redis, and the operator.
LEMMA DeliverInv ==
    ASSUME ClusterInv, NEW p \in Proxies, Deliver(p)
    PROVE  ClusterInv'
<1>1. PICK m : m = Head(channel[p])
  BY Zenon
<1>2. PICK d : d = IF m.table = Star THEN Flushed(cache[p]) ELSE Invalidated(cache[p], m.table)
  BY Zenon
<1>3. PICK T : T = IF m.table = Star THEN Tables ELSE {m.table}
  BY Zenon
<1>4. cache' = [cache EXCEPT ![p] = d] /\ Clears(p, T, m.pos)
  BY <1>1, <1>2, <1>3 DEF Deliver, ClusterInv
<1>5. Sane(cache[p])
  BY DEF ClusterInv, CacheOK
<1>6. Shrinks(cache[p], d) /\ \A k \in DOMAIN d.items : cache[p].items[k].tables \cap T = {}
  BY <1>2, <1>3, <1>5, FlushShrinks
<1>7. PICK g : AtProxy(p, d, g)
  BY <1>4, <1>6, ClearInv, Zenon
<1> QED
  BY <1>7, ProxyInv DEF Deliver, LogKept

\* handleCacheFlush.
LEMMA AdminFlushInv ==
    ASSUME ClusterInv, NEW c \in Clients, NEW p \in Proxies, NEW table \in Flushes,
           AdminFlush(c, p, table)
    PROVE  ClusterInv'
<1>1. PICK d : d = IF table = Star THEN Flushed(cache[p]) ELSE Invalidated(cache[p], table)
  BY Zenon
<1>2. PICK T : T = IF table = Star THEN Tables ELSE {table}
  BY Zenon
<1>3. cache' = [cache EXCEPT ![p] = d] /\ Clears(p, T, Len(log))
  BY <1>1, <1>2 DEF AdminFlush, ClusterInv
<1>4. Sane(cache[p])
  BY DEF ClusterInv, CacheOK
<1>5. Shrinks(cache[p], d) /\ \A k \in DOMAIN d.items : cache[p].items[k].tables \cap T = {}
  BY <1>1, <1>2, <1>4, FlushShrinks
<1>6. PICK g : AtProxy(p, d, g)
  BY <1>3, <1>5, ClearInv, Zenon
<1>7. PICK o : o = [step |-> "publish", proxy |-> p, left |-> {}, pos |-> Len(log), news |-> {table}]
  BY Zenon
<1>8. o \in Requests /\ o.step # "store"
  <2>1. Len(log) \in Nat /\ table \in Tables \cup {Star}
    BY ClusterAssumption DEF ClusterInv
  <2> QED
    BY <1>7, <2>1 DEF Requests
<1>9. Request(c, o)
  BY <1>7, <1>8 DEF AdminFlush, Request, Answered
<1> QED
  BY <1>6, <1>8, <1>9, ProxyInv DEF AdminFlush, LogKept

\* The caches start empty.
LEMMA ClusterStart == Init => ClusterInv
<1> SUFFICES ASSUME Init PROVE ClusterInv
  OBVIOUS
<1>1. \A p \in Proxies : cache[p] = EmptyCache
  BY DEF Init
<1>2. \A p \in Proxies : CacheOK(cache[p], replayed, cleared[p])
  BY <1>1, EmptySane DEF CacheOK
<1>3. op \in [Clients -> Requests] /\ \A c \in Clients : Answered(op[c], replayed)
  BY DEF Init, Requests, Answered, Idle
<1>4. log \in Seq(Writes) /\ replayed \in Nat /\ replayed <= Len(log)
  BY DEF Init
<1> QED
  BY <1>2, <1>3, <1>4 DEF Init, ClusterInv

\* And every step keeps the invariant.
LEMMA ClusterStep == ClusterInv /\ [Next]_vars => ClusterInv'
<1> SUFFICES ASSUME ClusterInv, [Next]_vars PROVE ClusterInv'
  OBVIOUS
<1>1. ASSUME NEW c \in Clients, Proceed(c) PROVE ClusterInv'
  <2>1. CASE Publish(c)
    <3>1. Request(c, Idle)
      BY <2>1 DEF Publish, Request, Answered, Idle, Requests
    <3> QED
      BY <2>1, <3>1, RequestInv DEF Publish, LogKept
  <2> QED
    BY <1>1, <2>1, FetchInv, StoreInv, InvalidateNextInv DEF Proceed
<1>2. ASSUME NEW c \in Clients, NEW p \in Home[c],
             \/ \E k \in Keys : Lookup(c, p, k)
             \/ \E tables \in Writes : Write(c, p, tables)
             \/ \E table \in Flushes : AdminFlush(c, p, table)
      PROVE  ClusterInv'
  <2>1. p \in Proxies
    BY ClusterAssumption
  <2> QED
    BY <1>2, <2>1, LookupInv, WriteInv, AdminFlushInv
<1>3. CASE \E tables \in Writes : WriteUnseen(tables)
  BY <1>3, WriteInv
<1>4. CASE \E p \in Proxies : Deliver(p)
  BY <1>4, DeliverInv
<1>5. CASE Replay
  <2>1. replayed \in Nat /\ log \in Seq(Writes) /\ replayed < Len(log) /\ replayed' = replayed + 1
    BY <1>5 DEF Replay, ClusterInv
  <2>2. \A p \in Proxies : CacheOK(cache[p], replayed + 1, cleared[p])
    BY <2>1, AgesOK, Zenon DEF ClusterInv
  <2>3. \A c \in Clients : Answered(op[c], replayed + 1)
    BY <2>1, RequestFields DEF ClusterInv, Answered
  <2> QED
    BY <1>5, <2>1, <2>2, <2>3 DEF Replay, ClusterInv
<1>6. CASE Tick
  <2>1. DOMAIN cache' = Proxies /\ cache' = [p \in Proxies |-> cache'[p]]
        /\ \A p \in Proxies : cache'[p] = Aged(cache[p])
    BY <1>6 DEF Tick
  <2>2. \A p \in Proxies : CacheOK(cache'[p], replayed, cleared[p])
    BY <2>1, AgesOK DEF ClusterInv
  <2> QED
    BY <1>6, <2>1, <2>2 DEF Tick, ClusterInv
<1>7. CASE UNCHANGED vars
  BY <1>7 DEF vars, ClusterInv
<1> QED
  BY <1>1, <1>2, <1>3, <1>4, <1>5, <1>6, <1>7, Zenon DEF Next

-----------------------------------------------------------------------------

\* List, map and table index of every cache agree in every reachable state: no sequence of
\* lookups, stores, evictions, expiries, invalidations and flushes leaves an entry that an
\* invalidation of its tables would not find.
THEOREM CachesConsistent == Spec => []IndexExact
<1>1. ClusterInv => IndexExact
  BY SaneWellFormed DEF ClusterInv, CacheOK, IndexExact
<1> QED
  BY <1>1, ClusterStart, ClusterStep, PTL DEF Spec

\* Once a write has been invalidated at a proxy, no cached answer there is without it,
\* except one that a read still under way stored afterwards and that was without it then:
\* for any interleaving of reads, writes, messages of Redis, lost ones included, and flushes.
THEOREM InvalidatedStaysOut == Spec => []StaleOnlyIfLate
<1>1. ClusterInv => StaleOnlyIfLate
  BY Zenon DEF ClusterInv, CacheOK, Accounted, StaleOnlyIfLate
<1> QED
  BY <1>1, ClusterStart, ClusterStep, PTL DEF Spec

\* Types; in particular, no answer is in a cache or on its way to one that is ahead of the
\* reader it was asked of.
THEOREM CacheTypes == Spec => []TypeOK
<1>1. ClusterInv => TypeOK
  <2> SUFFICES ASSUME ClusterInv PROVE TypeOK
    OBVIOUS
  <2>1. log \in Seq(Writes) /\ replayed \in 0 .. Len(log) /\ replayed \in Nat
    BY DEF ClusterInv
  <2>2. \A c \in Clients : op[c].step \in {"idle", "fetch", "store", "invalidate", "publish"}
    BY RequestFields DEF ClusterInv
  <2>3. ASSUME NEW p \in Proxies, NEW k \in DOMAIN cache[p].items
        PROVE  LET e == cache[p].items[k]
               IN  k \in Keys /\ e.tables \in ReadsOf[k] /\ e.age \in 0 .. TTL + 1
                   /\ e.pos \in 0 .. replayed
    <3>1. CacheOK(cache[p], replayed, cleared[p])
      BY DEF ClusterInv
    <3>2. k \in Keys /\ cache[p].items[k] \in Entries
      BY <3>1 DEF CacheOK, Sane, Range
    <3>3. EntryOK(k, cache[p].items[k], replayed)
      BY <3>1 DEF CacheOK
    <3> QED
      BY <2>1, <3>2, <3>3, CacheAssumption DEF Entries, EntryOK
  <2> QED
    BY <2>1, <2>2, <2>3 DEF TypeOK
<1> QED
  BY <1>1, ClusterStart, ClusterStep, PTL DEF Spec
=============================================================================
