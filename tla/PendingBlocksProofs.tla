------------------------ MODULE PendingBlocksProofs ------------------------
(***************************************************************************)
(* The store of waiting blocks, for every tree of blocks, every number of  *)
(* peers and every pair of limits: its four fields agree between two       *)
(* calls.  Each operation of PendingBlocks keeps Tidy, which says so of    *)
(* the buckets, the arrival order, the numbers per peer and the total; the *)
(* proofs about the pipeline rest on these lemmas.                         *)
(***************************************************************************)
EXTENDS BlockPipeline, FiniteSetTheorems, TLAPS

-----------------------------------------------------------------------------
(* Sequences: what the operations of Vec and VecDeque leave. *)

Distinct(t) == \A i, j \in DOMAIN t : t[i] = t[j] => i = j

LEMMA DistinctCounts ==
    ASSUME NEW S, NEW t \in Seq(S), Distinct(t)
    PROVE  IsFiniteSet(Values(t)) /\ Cardinality(Values(t)) = Len(t)
<1>1. Len(t) \in Nat /\ DOMAIN t = 1..Len(t)
  OBVIOUS
<1>2. t \in Bijection(1..Len(t), Values(t))
  <2>1. t \in [1..Len(t) -> Values(t)]
    BY <1>1 DEF Values
  <2>2. \A x, y \in 1..Len(t) : t[x] = t[y] => x = y
    BY <1>1 DEF Distinct
  <2>3. \A v \in Values(t) : \E x \in 1..Len(t) : t[x] = v
    BY <1>1 DEF Values
  <2> QED BY <2>1, <2>2, <2>3 DEF Bijection, Injection, Surjection, IsInjective
<1>3. ExistsBijection(1..Len(t), Values(t))
  BY <1>2 DEF ExistsBijection
<1>4. IsFiniteSet(1..Len(t)) /\ Cardinality(1..Len(t)) = Len(t)
  BY <1>1, FS_Interval
<1> QED BY <1>3, <1>4, FS_Bijection

LEMMA ConcatRight ==
    ASSUME NEW S, NEW a \in Seq(S), NEW b \in Seq(S), NEW j \in 1..(Len(a) + Len(b)), j > Len(a)
    PROVE  (a \o b)[j] = b[j - Len(a)]
OBVIOUS

LEMMA RemoveIndexFacts ==
    ASSUME NEW S, NEW t \in Seq(S), NEW i \in DOMAIN t, NEW u, u = RemoveIndex(t, i)
    PROVE  /\ u \in Seq(S) /\ Len(u) = Len(t) - 1
           /\ \A j \in 1..(Len(t) - 1) : u[j] = IF j < i THEN t[j] ELSE t[j + 1]
<1> DEFINE a == SubSeq(t, 1, i - 1)
           b == SubSeq(t, i + 1, Len(t))
<1>1. Len(t) \in Nat /\ i \in 1..Len(t)
  OBVIOUS
<1>2. a \in Seq(S) /\ Len(a) = i - 1 /\ \A j \in 1..(i - 1) : a[j] = t[j]
  BY <1>1
<1>3. b \in Seq(S) /\ Len(b) = Len(t) - i /\ \A j \in 1..(Len(t) - i) : b[j] = t[i + j]
  BY <1>1
<1>4. u = a \o b
  BY DEF RemoveIndex
<1> HIDE DEF a, b
<1>5. u \in Seq(S) /\ Len(u) = Len(t) - 1
  BY <1>1, <1>2, <1>3, <1>4
<1>6. ASSUME NEW j \in 1..(Len(t) - 1) PROVE u[j] = IF j < i THEN t[j] ELSE t[j + 1]
  <2>1. CASE j < i
    <3>1. j \in 1..(i - 1) /\ j \in 1..Len(a)
      BY <1>1, <1>2, <2>1
    <3>2. u[j] = a[j]
      BY <1>2, <1>3, <1>4, <3>1
    <3> QED BY <1>2, <2>1, <3>1, <3>2
  <2>2. CASE ~(j < i)
    <3>1. j - (i - 1) \in 1..(Len(t) - i) /\ i + (j - (i - 1)) = j + 1 /\ j > Len(a)
      BY <1>1, <1>2, <2>2
    <3>2. u[j] = b[j - (i - 1)]
      <4>1. j \in 1..(Len(a) + Len(b))
        BY <1>1, <1>2, <1>3
      <4>2. (a \o b)[j] = b[j - Len(a)]
        BY ONLY <1>2, <1>3, <3>1, <4>1, ConcatRight
      <4> QED BY <1>2, <1>4, <4>2
    <3>3. b[j - (i - 1)] = t[i + (j - (i - 1))]
      BY <1>3, <3>1
    <3> QED BY <2>2, <3>1, <3>2, <3>3
  <2> QED BY <2>1, <2>2
<1> QED BY <1>5, <1>6

LEMMA AppendFacts ==
    ASSUME NEW S, NEW t \in Seq(S), NEW x \in S
    PROVE  /\ Append(t, x) \in Seq(S) /\ Len(Append(t, x)) = Len(t) + 1
           /\ Values(Append(t, x)) = Values(t) \cup {x}
           /\ Distinct(t) /\ x \notin Values(t) => Distinct(Append(t, x))
<1> DEFINE u == Append(t, x)
<1>1. Len(t) \in Nat /\ DOMAIN t = 1..Len(t) /\ DOMAIN u = 1..(Len(t) + 1)
  OBVIOUS
<1>2. u \in Seq(S) /\ Len(u) = Len(t) + 1
  OBVIOUS
<1>3. u[Len(t) + 1] = x /\ \A i \in 1..Len(t) : u[i] = t[i]
  OBVIOUS
<1> HIDE DEF u
<1>4. \A i \in 1..(Len(t) + 1) : i \in 1..Len(t) \/ i = Len(t) + 1
  BY <1>1
<1>5. Len(t) + 1 \in DOMAIN u /\ \A i \in DOMAIN t : i \in DOMAIN u
  BY <1>1
<1>6. Values(u) = Values(t) \cup {x}
  BY <1>1, <1>3, <1>4, <1>5 DEF Values
<1>7. ASSUME Distinct(t), x \notin Values(t) PROVE Distinct(u)
  <2>1. \A i \in DOMAIN t : t[i] # x
    BY <1>7 DEF Values
  <2> QED BY <1>1, <1>3, <1>4, <1>7, <2>1 DEF Distinct
<1> QED BY <1>2, <1>6, <1>7 DEF u

(* VecDeque::retain keeps, in their order, the elements that are not to go. *)
LEMMA RetainFacts ==
    ASSUME NEW S, NEW t \in Seq(S), Distinct(t), NEW out
    PROVE  LET u == RetainExcept(t, out) IN u \in Seq(S) /\ Distinct(u) /\ Values(u) = Values(t) \ out
<1> DEFINE I == {i \in DOMAIN t : t[i] \notin out}
           n == Cardinality(I)
           Upto(i) == {j \in I : j <= i}
           g == [i \in I |-> Cardinality(Upto(i))]
           at == [k \in 1..n |-> CHOOSE i \in I : g[i] = k]
           u == [k \in 1..n |-> t[at[k]]]
<1>1. Len(t) \in Nat /\ DOMAIN t = 1..Len(t)
  OBVIOUS
<1>2. IsFiniteSet(I) /\ n \in Nat /\ \A i \in I : i \in 1..Len(t) /\ i \in Nat
  <2>1. I \in SUBSET (1..Len(t)) /\ IsFiniteSet(1..Len(t)) /\ \A i \in I : i \in 1..Len(t) /\ i \in Nat
    BY <1>1, FS_Interval
  <2> HIDE DEF I
  <2> QED BY <2>1, FS_Subset, FS_CardinalityType, Zenon
<1>3. RetainExcept(t, out) = u
  <2>1. \A i \in I : g[i] = Cardinality(Upto(i))
    OBVIOUS
  <2> HIDE DEF g, Upto
  <2> DEFINE c(k) == CHOOSE i \in I : Cardinality(Upto(i)) = k
             d(k) == CHOOSE i \in I : g[i] = k
  <2>2. ASSUME NEW k PROVE d(k) = c(k)
    <3> HIDE DEF I
    <3> QED BY <2>1
  <2>3. \A k \in 1..n : at[k] = d(k)
    BY Zenon
  <2> HIDE DEF c, d, at, n
  <2>4. u = [k \in 1..n |-> t[c(k)]]
    BY <2>2, <2>3
  <2> QED BY <2>4, Zenon DEF RetainExcept, Upto, c, n
<1> HIDE DEF I
<1>4. ASSUME NEW i \in I PROVE IsFiniteSet(Upto(i)) /\ g[i] \in 1..n /\ i \in Upto(i)
  <2>1. Upto(i) \in SUBSET I /\ i \in Upto(i)
    BY <1>2
  <2> HIDE DEF Upto
  <2>2. IsFiniteSet(Upto(i)) /\ Cardinality(Upto(i)) <= n
    BY <1>2, <2>1, FS_Subset
  <2>3. Cardinality(Upto(i)) \in Nat /\ Cardinality(Upto(i)) # 0
    BY <2>1, <2>2, FS_CardinalityType, FS_EmptySet
  <2> QED BY <1>2, <2>1, <2>2, <2>3
<1>5. ASSUME NEW i \in I, NEW j \in I, i < j PROVE g[i] # g[j]
  <2>1. Upto(i) \in SUBSET Upto(j) /\ j \in Upto(j) /\ j \notin Upto(i)
    BY <1>1, <1>2, <1>5
  <2> HIDE DEF Upto
  <2>2. IsFiniteSet(Upto(j)) /\ Upto(i) # Upto(j)
    BY <1>4, <2>1
  <2> QED BY <2>1, <2>2, FS_Subset
<1>6. g \in Injection(I, 1..n)
  <2>1. g \in [I -> 1..n]
    BY <1>4, Zenon
  <2> HIDE DEF g
  <2>2. \A i, j \in I : g[i] = g[j] => i = j
    <3>1. \A i, j \in I : i = j \/ i < j \/ j < i
      BY <1>2
    <3> QED BY <1>5, <3>1
  <2> QED BY <2>1, <2>2 DEF Injection, IsInjective
<1>7. g \in Surjection(I, 1..n)
  <2>1. IsFiniteSet(1..n) /\ Cardinality(1..n) = n
    BY <1>2, FS_Interval
  <2> HIDE DEF g
  <2> QED BY <1>6, <2>1, FS_Injection
<1> HIDE DEF g
<1>8. \A k \in 1..n : at[k] \in I /\ g[at[k]] = k
  BY <1>7 DEF Surjection
<1>9. \A i \in I : g[i] \in 1..n /\ at[g[i]] = i
  <2>1. \A i, j \in I : g[i] = g[j] => i = j
    BY <1>6 DEF Injection, IsInjective
  <2> HIDE DEF at
  <2> QED BY <1>4, <1>8, <2>1, Zenon
<1> HIDE DEF at, n
<1>10. u \in Seq(S)
  <2>1. n \in Nat /\ \A k \in 1..n : t[at[k]] \in S
    BY <1>1, <1>2, <1>8
  <2> QED BY ONLY <2>1
<1>11. Distinct(u)
  <2>1. \A k, m \in 1..n : u[k] = u[m] => k = m
    <3>1. \A i, j \in I : t[i] = t[j] => i = j
      BY <1>1, <1>2 DEF Distinct
    <3> QED BY <1>8, <3>1
  <2> QED BY <2>1 DEF Distinct
<1>12. Values(u) = {t[i] : i \in I}
  <2>1. Values(u) = {t[at[k]] : k \in 1..n}
    BY DEF Values
  <2> QED BY <1>8, <1>9, <2>1
<1>13. {t[i] : i \in I} = Values(t) \ out
  BY DEF I, Values
<1> QED BY <1>3, <1>10, <1>11, <1>12, <1>13

-----------------------------------------------------------------------------
(* What the four structures say of each other between two calls. *)

Bucket(b, q) ==
    /\ b \in Seq(Entry)
    /\ \A i \in DOMAIN b : b[i].root \in Blocks /\ Parent[b[i].root] = q
    /\ \A i, j \in DOMAIN b : b[i].root = b[j].root => i = j

OfPeer(E, p) == {e \in E : e.peer = p}

RootsOf(E) == {e.root : e \in E}

Tidy(s) ==
    /\ s \in PendingType
    /\ \A q \in Roots : Bucket(s.by_parent[q], q)
    /\ s.order \in Seq(Blocks) /\ Distinct(s.order)
    /\ Values(s.order) = RootsOf(Entries(s))
    /\ s.total = Len(s.order)
    /\ \A p \in Peers : s.per_peer[p] = Cardinality(OfPeer(Entries(s), p))
    /\ \A p \in Peers : s.per_peer[p] <= MaxPerPeer

LEMMA EmptyBucket == ASSUME NEW q PROVE Bucket(<<>>, q)
BY DEF Bucket

LEMMA PendingFields ==
    ASSUME NEW s \in PendingType
    PROVE  /\ s.by_parent \in [Roots -> Seq(Entry)] /\ s.per_peer \in [Peers -> Nat]
           /\ s.order \in Seq(Roots) /\ s.total \in Nat
BY Zenon DEF PendingType

LEMMA TidyFields ==
    ASSUME NEW s, Tidy(s)
    PROVE  /\ s \in PendingType /\ s.by_parent \in [Roots -> Seq(Entry)] /\ s.per_peer \in [Peers -> Nat]
           /\ s.order \in Seq(Roots) /\ s.total \in Nat
           /\ \A q \in Roots : Bucket(s.by_parent[q], q)
           /\ s.order \in Seq(Blocks) /\ Distinct(s.order)
           /\ Values(s.order) = RootsOf(Entries(s)) /\ s.total = Len(s.order)
BY PendingFields, Zenon DEF Tidy

(* A bucket has as many entries, and as many of a peer, as its sequence has indices. *)
LEMMA BucketCounts ==
    ASSUME NEW b, NEW q, Bucket(b, q)
    PROVE  /\ IsFiniteSet(Values(b)) /\ Cardinality(Values(b)) = Len(b)
           /\ Cardinality(RootsOf(Values(b))) = Len(b)
           /\ \A p : Cardinality({i \in DOMAIN b : b[i].peer = p}) = Cardinality(OfPeer(Values(b), p))
           /\ \A e, f \in Values(b) : e.root = f.root => e = f
<1>1. b \in Seq(Entry) /\ Distinct(b) /\ Len(b) \in Nat /\ DOMAIN b = 1..Len(b)
  BY DEF Bucket, Distinct
<1>2. IsFiniteSet(Values(b)) /\ Cardinality(Values(b)) = Len(b)
  BY <1>1, DistinctCounts
<1>3. \A e, f \in Values(b) : e.root = f.root => e = f
  BY DEF Bucket, Values
<1>4. Cardinality(RootsOf(Values(b))) = Len(b)
  <2> DEFINE V == Values(b)
             g == [e \in V |-> e.root]
  <2>1. g \in [V -> RootsOf(V)] /\ \A r \in RootsOf(V) : \E e \in V : g[e] = r
    BY DEF RootsOf
  <2>2. \A e, f \in V : g[e] = g[f] => e = f
    BY <1>3
  <2> HIDE DEF V, g
  <2>3. g \in Bijection(V, RootsOf(V))
    BY <2>1, <2>2 DEF Bijection, Injection, Surjection, IsInjective
  <2>4. ExistsBijection(V, RootsOf(V))
    BY <2>3 DEF ExistsBijection
  <2>5. IsFiniteSet(V) /\ Cardinality(V) = Len(b)
    BY <1>2 DEF V
  <2>6. Cardinality(RootsOf(V)) = Len(b)
    BY <2>4, <2>5, FS_Bijection
  <2> QED BY <2>6 DEF V
<1>5. ASSUME NEW p
      PROVE  Cardinality({i \in DOMAIN b : b[i].peer = p}) = Cardinality(OfPeer(Values(b), p))
  <2> DEFINE I == {i \in DOMAIN b : b[i].peer = p}
             T == OfPeer(Values(b), p)
             g == [i \in I |-> b[i]]
  <2>1. g \in [I -> T] /\ \A e \in T : \E i \in I : g[i] = e
    BY DEF Values, OfPeer
  <2>2. \A i, j \in I : g[i] = g[j] => i = j
    BY <1>1 DEF Distinct
  <2>3. IsFiniteSet(I)
    <3>1. IsFiniteSet(1..Len(b)) /\ I \in SUBSET (1..Len(b))
      BY <1>1, FS_Interval
    <3> QED BY ONLY <3>1, FS_Subset
  <2> HIDE DEF I, T, g
  <2>4. g \in Bijection(I, T)
    BY <2>1, <2>2 DEF Bijection, Injection, Surjection, IsInjective
  <2>5. ExistsBijection(I, T)
    BY <2>4 DEF ExistsBijection
  <2>6. Cardinality(T) = Cardinality(I)
    BY <2>3, <2>5, FS_Bijection
  <2> QED BY <2>6 DEF I, T
<1> QED BY <1>2, <1>3, <1>4, <1>5

(* An entry is in the bucket of its parent, and no other entry has its root. *)
LEMMA EntryPlace ==
    ASSUME NEW s, \A q \in Roots : Bucket(s.by_parent[q], q)
    PROVE  /\ \A e \in Entries(s) : /\ e \in Entry /\ e.root \in Blocks /\ Parent[e.root] \in Roots
                                    /\ e \in Values(s.by_parent[Parent[e.root]])
           /\ \A e, f \in Entries(s) : e.root = f.root => e = f
<1>1. ASSUME NEW e \in Entries(s)
      PROVE  /\ e \in Entry /\ e.root \in Blocks /\ Parent[e.root] \in Roots
             /\ e \in Values(s.by_parent[Parent[e.root]])
  <2>1. PICK q \in Roots : e \in Values(s.by_parent[q])
    BY DEF Entries
  <2>2. Bucket(s.by_parent[q], q)
    OBVIOUS
  <2>3. e \in Entry /\ e.root \in Blocks /\ Parent[e.root] = q
    BY <2>1, <2>2 DEF Bucket, Values
  <2> QED BY <2>1, <2>3
<1>2. ASSUME NEW e \in Entries(s), NEW f \in Entries(s), e.root = f.root PROVE e = f
  <2> DEFINE q == Parent[e.root]
  <2>1. q \in Roots /\ e \in Values(s.by_parent[q]) /\ f \in Values(s.by_parent[q])
    BY <1>1, <1>2
  <2>2. Bucket(s.by_parent[q], q)
    BY <2>1
  <2> HIDE DEF q
  <2> QED BY <1>2, <2>1, <2>2, BucketCounts
<1> QED BY <1>1, <1>2

LEMMA EntriesCount ==
    ASSUME NEW s, Tidy(s)
    PROVE  /\ IsFiniteSet(Values(s.order)) /\ Cardinality(Values(s.order)) = s.total
           /\ IsFiniteSet(Entries(s)) /\ Cardinality(Entries(s)) = s.total
<1> DEFINE E == Entries(s)
           W == Values(s.order)
           g == [e \in E |-> e.root]
<1>1. IsFiniteSet(W) /\ Cardinality(W) = s.total
  <2>1. s.order \in Seq(Blocks) /\ Distinct(s.order) /\ s.total = Len(s.order)
    BY DEF Tidy
  <2> QED BY <2>1, DistinctCounts
<1>2. \A e, f \in E : e.root = f.root => e = f
  BY EntryPlace DEF Tidy
<1>3. W = RootsOf(E)
  BY DEF Tidy
<1>4. g \in [E -> W] /\ \A r \in W : \E e \in E : g[e] = r
  <2> HIDE DEF E, W
  <2> QED BY <1>3 DEF RootsOf
<1>5. \A e, f \in E : g[e] = g[f] => e = f
  BY <1>2
<1> HIDE DEF E, W, g
<1>6. g \in Bijection(E, W)
  BY <1>4, <1>5 DEF Bijection, Injection, Surjection, IsInjective
<1>7. IsFiniteSet(E) /\ Cardinality(E) = Cardinality(W)
  <2>1. g \in Injection(E, W) /\ g \in Surjection(E, W)
    BY <1>6 DEF Bijection
  <2> QED BY ONLY <1>1, <2>1, FS_Injection
<1> QED BY <1>1, <1>7 DEF E, W

(* What replacing one bucket does to the entries. *)
Filed(s) ==
    s.by_parent \in [Roots -> Seq(Entry)] /\ \A q \in Roots : Bucket(s.by_parent[q], q)

Swapped(E, old, new) == (E \ old) \cup new

Replaced(s, u, q, b) == u.by_parent = [s.by_parent EXCEPT ![q] = b]

LEMMA BucketReplaced ==
    ASSUME NEW s, NEW u, NEW q \in Roots, NEW b, Filed(s), Replaced(s, u, q, b)
    PROVE  Entries(u) = Swapped(Entries(s), Values(s.by_parent[q]), Values(b))
<1>1. \A p \in Roots : u.by_parent[p] = IF p = q THEN b ELSE s.by_parent[p]
  BY DEF Replaced, Filed
<1>2. ASSUME NEW p \in Roots, NEW e \in Values(s.by_parent[p]) PROVE Parent[e.root] = p
  <2>1. Bucket(s.by_parent[p], p)
    BY DEF Filed
  <2> QED BY <2>1 DEF Bucket, Values
<1>3. \A e : e \in Entries(s) <=> \E p \in Roots : e \in Values(s.by_parent[p])
  BY DEF Entries
<1>4. \A e : e \in Entries(u) <=> \E p \in Roots : e \in Values(u.by_parent[p])
  BY DEF Entries
<1>5. ASSUME NEW e PROVE e \in Entries(u) <=> e \in (Entries(s) \ Values(s.by_parent[q])) \cup Values(b)
  <2>1. ASSUME e \in Entries(u) PROVE e \in (Entries(s) \ Values(s.by_parent[q])) \cup Values(b)
    <3>1. PICK p \in Roots : e \in Values(u.by_parent[p])
      BY <1>4, <2>1
    <3>2. CASE p = q
      BY <1>1, <3>1, <3>2
    <3>3. CASE p # q
      <4>1. e \in Values(s.by_parent[p])
        BY <1>1, <3>1, <3>3
      <4>2. e \notin Values(s.by_parent[q])
        BY <1>2, <3>3, <4>1
      <4> QED BY <1>3, <4>1, <4>2
    <3> QED BY <3>2, <3>3
  <2>2. ASSUME e \in Values(b) PROVE e \in Entries(u)
    <3>1. u.by_parent[q] = b
      BY <1>1
    <3> QED BY ONLY <1>4, <2>2, <3>1, q \in Roots
  <2>3. ASSUME e \in Entries(s), e \notin Values(s.by_parent[q]) PROVE e \in Entries(u)
    <3>1. PICK p \in Roots : e \in Values(s.by_parent[p])
      BY <1>3, <2>3
    <3>2. p # q
      BY <2>3, <3>1
    <3>3. u.by_parent[p] = s.by_parent[p]
      BY <1>1, <3>2
    <3> QED BY ONLY <1>4, <3>1, <3>3
  <2> QED BY <2>1, <2>2, <2>3
<1> QED BY <1>5 DEF Swapped

LEMMA BucketGrows ==
    ASSUME NEW b, NEW q, Bucket(b, q), NEW x \in Entry, x.root \in Blocks, Parent[x.root] = q,
           ~IsIn(b, x.root)
    PROVE  Bucket(Append(b, x), q) /\ Values(Append(b, x)) = Values(b) \cup {x}
<1> DEFINE c == Append(b, x)
<1>1. b \in Seq(Entry) /\ Len(b) \in Nat /\ DOMAIN b = 1..Len(b)
  BY DEF Bucket
<1>2. /\ c \in Seq(Entry) /\ DOMAIN c = 1..(Len(b) + 1) /\ c[Len(b) + 1] = x
      /\ \A i \in 1..Len(b) : c[i] = b[i]
  BY <1>1
<1>3. Values(c) = Values(b) \cup {x}
  BY ONLY <1>1, x \in Entry, AppendFacts
<1> HIDE DEF c
<1>4. \A i \in DOMAIN c : i \in DOMAIN b \/ i = Len(b) + 1
  BY <1>1, <1>2
<1>5. \A i \in DOMAIN b : c[i] = b[i] /\ c[i].root # x.root
  BY <1>1, <1>2 DEF IsIn
<1>6. \A i \in DOMAIN c : c[i].root \in Blocks /\ Parent[c[i].root] = q
  BY <1>2, <1>4, <1>5 DEF Bucket
<1>7. ASSUME NEW i \in DOMAIN c, NEW j \in DOMAIN c, c[i].root = c[j].root PROVE i = j
  BY <1>2, <1>4, <1>5, <1>7 DEF Bucket
<1>8. Bucket(c, q)
  BY <1>2, <1>6, <1>7 DEF Bucket
<1> QED BY <1>3, <1>8 DEF c

(* A block that is not waiting yet is added. *)
LEMMA AddedTidy ==
    ASSUME NEW s, Tidy(s), NEW r \in Blocks, NEW peer \in Peers \cup {RandomPeer},
           ~IsIn(s.by_parent[Parent[r]], r), ~(peer \in Peers /\ s.per_peer[peer] >= MaxPerPeer),
           NEW u, u = Added(s, r, peer)
    PROVE  Tidy(u) /\ u.total = s.total + 1 /\ u.order # <<>>
<1>a. PICK q : q = Parent[r]
  BY Zenon
<1>b. PICK B : B = s.by_parent[q]
  BY Zenon
<1>c. PICK x : x = [root |-> r, peer |-> peer]
  BY Zenon
<1>d. PICK E : E = Entries(s)
  BY Zenon
<1>1. /\ s \in PendingType /\ r \in Roots /\ q \in Roots /\ x \in Entry /\ Bucket(B, q)
      /\ x.root = r /\ x.peer = peer /\ s.order \in Seq(Blocks) /\ s.total = Len(s.order)
  <2>1. r \in Roots /\ q \in Roots
    BY <1>a, PipelineAssumption DEF Blocks
  <2>2. x \in Entry /\ x.root = r /\ x.peer = peer
    BY <1>c, <2>1 DEF Entry
  <2> QED BY <1>b, <2>1, <2>2, TidyFields, Zenon
<1>2. /\ u.by_parent = [s.by_parent EXCEPT ![q] = Append(B, x)]
      /\ u.per_peer = [p \in Peers |-> s.per_peer[p] + IF p = peer THEN 1 ELSE 0]
      /\ u.order = Append(s.order, r) /\ u.total = s.total + 1
      /\ u = [by_parent |-> u.by_parent, per_peer |-> u.per_peer, order |-> u.order, total |-> u.total]
  BY <1>1, <1>a, <1>b, <1>c, Zenon DEF Added, PendingType
<1>3. Bucket(Append(B, x), q) /\ Values(Append(B, x)) = Values(B) \cup {x}
  BY <1>1, <1>a, <1>b, BucketGrows
<1>4. E \cup {x} = Entries(u)
  <2> DEFINE c == Append(B, x)
  <2>1. Entries(u) = Swapped(E, Values(B), Values(c))
    <3>1. Filed(s)
      BY TidyFields, Zenon DEF Filed
    <3>2. Replaced(s, u, q, c) /\ q \in Roots
      BY <1>1, <1>2 DEF Replaced
    <3> HIDE DEF c
    <3> QED BY ONLY <3>1, <3>2, <1>b, <1>d, BucketReplaced
  <2>2. Values(B) \subseteq E
    BY <1>1, <1>b, <1>d DEF Entries
  <2> QED BY <1>3, <2>1, <2>2 DEF Swapped
<1>5. \A e \in E : e.root # r
  <2> SUFFICES ASSUME NEW e \in E, e.root = r PROVE FALSE
    OBVIOUS
  <2>1. e \in Values(B)
    <3>1. \A p \in Roots : Bucket(s.by_parent[p], p)
      BY TidyFields, Zenon
    <3> QED BY <1>a, <1>b, <1>d, <3>1, EntryPlace
  <2> QED BY <1>a, <1>b, <2>1 DEF Values, IsIn
<1>6. x \notin E /\ r \notin Values(s.order)
  <2>1. Values(s.order) = RootsOf(E)
    BY <1>d, TidyFields, Zenon
  <2> QED BY <1>1, <1>5, <2>1 DEF RootsOf
<1>7. u.order \in Seq(Blocks) /\ Distinct(u.order) /\ Values(u.order) = Values(s.order) \cup {r} /\ Len(u.order) = Len(s.order) + 1
  <2>1. Distinct(s.order) /\ r \notin Values(s.order)
    BY <1>6, TidyFields, Zenon
  <2> QED BY <1>1, <1>2, <2>1, AppendFacts
<1>8. Values(u.order) = RootsOf(Entries(u))
  <2>1. Values(s.order) = RootsOf(E)
    BY <1>d, TidyFields, Zenon
  <2> QED BY <1>1, <1>4, <1>7, <2>1 DEF RootsOf
<1>9. ASSUME NEW p \in Peers
      PROVE  u.per_peer[p] = Cardinality(OfPeer(Entries(u), p)) /\ u.per_peer[p] <= MaxPerPeer
             /\ u.per_peer[p] \in Nat
  <2> DEFINE F == OfPeer(E, p)
  <2>1. /\ s.per_peer[p] = Cardinality(F) /\ s.per_peer[p] <= MaxPerPeer /\ s.per_peer[p] \in Nat
        /\ IsFiniteSet(F)
    <3>1. IsFiniteSet(E) /\ F \in SUBSET E
      BY <1>d, EntriesCount DEF OfPeer
    <3>2. IsFiniteSet(F)
      BY ONLY <3>1, FS_Subset
    <3>3. s.per_peer[p] = Cardinality(F) /\ s.per_peer[p] <= MaxPerPeer
      BY <1>d, Zenon DEF Tidy
    <3>4. s.per_peer[p] \in Nat
      BY TidyFields
    <3> QED BY <3>2, <3>3, <3>4, Zenon
  <2>2. CASE p = peer
    <3>1. OfPeer(Entries(u), p) = F \cup {x}
      <4> QED BY <1>1, <1>4, <2>2 DEF OfPeer
    <3>2. x \notin F
      BY <1>6 DEF OfPeer
    <3>3. Cardinality(F \cup {x}) = Cardinality(F) + 1
      <4> HIDE DEF F
      <4> QED BY <2>1, <3>2, FS_AddElement, Zenon
    <3>4. u.per_peer[p] = s.per_peer[p] + 1 /\ s.per_peer[p] < MaxPerPeer
      BY <1>2, <2>1, <2>2, PendingAssumption
    <3> HIDE DEF F
    <3> QED BY <2>1, <3>1, <3>3, <3>4, PendingAssumption
  <2>3. CASE p # peer
    <3>1. OfPeer(Entries(u), p) = F
      <4> QED BY <1>1, <1>4, <2>3 DEF OfPeer
    <3> HIDE DEF F
    <3> QED BY <1>2, <2>1, <2>3, <3>1
  <2> QED BY <2>2, <2>3
<1>10. \A p \in Roots : Bucket(u.by_parent[p], p)
  <2>1. s.by_parent \in [Roots -> Seq(Entry)] /\ \A p \in Roots : Bucket(s.by_parent[p], p)
    BY TidyFields, Zenon
  <2>2. u.by_parent = [s.by_parent EXCEPT ![q] = Append(B, x)]
    BY <1>2, Zenon
  <2> QED BY ONLY <1>3, <2>1, <2>2
<1>11. u \in PendingType
  <2>1. u.by_parent \in [Roots -> Seq(Entry)]
    <3>1. s.by_parent \in [Roots -> Seq(Entry)] /\ Append(B, x) \in Seq(Entry)
      BY <1>3, TidyFields, Zenon DEF Bucket
    <3> DEFINE c == Append(B, x)
    <3>2. u.by_parent = [s.by_parent EXCEPT ![q] = c]
      BY <1>2, Zenon
    <3> HIDE DEF c
    <3> QED BY <3>1, <3>2, Zenon DEF c
  <2>2. u.per_peer \in [Peers -> Nat]
    BY <1>2, <1>9
  <2>3. u.order \in Seq(Roots)
    <3>1. s.order \in Seq(Roots)
      BY TidyFields, Zenon
    <3> QED BY <1>1, <1>2, <3>1
  <2>4. u.total \in Nat
    <3>1. s.total \in Nat
      BY TidyFields, Zenon
    <3> QED BY <1>2, <3>1
  <2> QED BY <1>2, <2>1, <2>2, <2>3, <2>4, Zenon DEF PendingType
<1>12. u.total = Len(u.order)
  BY <1>1, <1>2, <1>7
<1>13. u.order # <<>> /\ u.total = s.total + 1
  <2>1. Len(s.order) \in Nat /\ Len(<<>>) = 0
    BY <1>1
  <2>2. u.total = s.total + 1
    BY <1>2, Zenon
  <2> QED BY ONLY <1>7, <2>1, <2>2
<1>14. Tidy(u)
  <2> HIDE DEF Distinct, Bucket, OfPeer, RootsOf
  <2> QED BY ONLY <1>7, <1>8, <1>9, <1>10, <1>11, <1>12 DEF Tidy
<1> QED BY <1>13, <1>14

LEMMA TailFacts ==
    ASSUME NEW S, NEW t \in Seq(S), t # <<>>, Distinct(t)
    PROVE  /\ Tail(t) \in Seq(S) /\ Len(Tail(t)) = Len(t) - 1 /\ Distinct(Tail(t))
           /\ Values(Tail(t)) = Values(t) \ {Head(t)} /\ Head(t) \in Values(t)
<1> DEFINE u == Tail(t)
<1>1. Len(t) \in Nat \ {0} /\ DOMAIN t = 1..Len(t) /\ Head(t) = t[1]
  OBVIOUS
<1>2. u \in Seq(S) /\ Len(u) = Len(t) - 1 /\ DOMAIN u = 1..(Len(t) - 1)
  BY <1>1
<1>3. \A i \in 1..(Len(t) - 1) : u[i] = t[i + 1]
  BY <1>1
<1> HIDE DEF u
<1>4. Distinct(u)
  <2> SUFFICES ASSUME NEW i \in DOMAIN u, NEW j \in DOMAIN u, u[i] = u[j] PROVE i = j
    BY DEF Distinct
  <2>1. /\ i + 1 \in DOMAIN t /\ j + 1 \in DOMAIN t /\ t[i + 1] = t[j + 1]
        /\ i \in Nat /\ j \in Nat
    BY <1>1, <1>2, <1>3
  <2>2. i + 1 = j + 1
    BY <2>1 DEF Distinct
  <2> QED BY <2>1, <2>2
<1>5. Values(u) = Values(t) \ {Head(t)}
  <2>1. ASSUME NEW i \in DOMAIN u PROVE u[i] \in Values(t) \ {Head(t)}
    <3>1. i + 1 \in DOMAIN t /\ i + 1 # 1 /\ 1 \in DOMAIN t /\ u[i] = t[i + 1]
      BY <1>1, <1>2, <1>3
    <3> QED BY <1>1, <3>1 DEF Values, Distinct
  <2>2. ASSUME NEW i \in DOMAIN t, t[i] # Head(t) PROVE t[i] \in Values(u)
    <3>1. i - 1 \in DOMAIN u /\ u[i - 1] = t[i]
      BY <1>1, <1>2, <1>3, <2>2
    <3> QED BY <3>1 DEF Values
  <2> QED BY <2>1, <2>2 DEF Values
<1>6. Head(t) \in Values(t)
  BY <1>1 DEF Values
<1> QED BY <1>2, <1>4, <1>5, <1>6 DEF u

(* The position of a root that is in the bucket, and the bucket without it. *)
LEMMA BucketShrinks ==
    ASSUME NEW b, NEW q, Bucket(b, q), NEW r, IsIn(b, r), NEW i, i = Position(b, r), NEW c, c = RemoveIndex(b, i)
    PROVE  /\ i \in DOMAIN b /\ b[i].root = r
           /\ Bucket(c, q) /\ Values(c) = Values(b) \ {b[i]}
<1>1. b \in Seq(Entry) /\ Len(b) \in Nat /\ DOMAIN b = 1..Len(b) /\ \A k, j \in DOMAIN b : b[k].root = b[j].root => k = j
  BY DEF Bucket
<1>2. i \in DOMAIN b /\ b[i].root = r
  <2>1. PICK k \in DOMAIN b : b[k].root = r
    BY DEF IsIn
  <2>2. \A j \in 1..(k - 1) : b[j].root # r
    <3> SUFFICES ASSUME NEW j \in 1..(k - 1), b[j].root = r PROVE FALSE
      OBVIOUS
    <3>1. j \in DOMAIN b /\ j # k
      BY <1>1
    <3> QED BY <1>1, <2>1, <3>1
  <2> QED BY <2>1, <2>2 DEF Position
<1>3. /\ c \in Seq(Entry) /\ Len(c) = Len(b) - 1
      /\ \A j \in 1..(Len(b) - 1) : c[j] = IF j < i THEN b[j] ELSE b[j + 1]
  <2>1. b \in Seq(Entry) /\ i \in DOMAIN b /\ c = RemoveIndex(b, i)
    BY <1>1, <1>2
  <2> QED BY ONLY <2>1, RemoveIndexFacts, Zenon
<1> DEFINE at(j) == IF j < i THEN j ELSE j + 1
<1>4. DOMAIN c = 1..(Len(b) - 1) /\ i \in 1..Len(b)
  BY <1>1, <1>2, <1>3
<1>5. ASSUME NEW j \in DOMAIN c PROVE at(j) \in DOMAIN b /\ at(j) # i /\ c[j] = b[at(j)]
  BY <1>1, <1>3, <1>4
<1>6. ASSUME NEW k \in DOMAIN b, k # i PROVE \E j \in DOMAIN c : at(j) = k
  <2>1. CASE k < i
    BY <1>1, <1>4, <2>1
  <2>2. CASE ~(k < i)
    <3>1. k - 1 \in DOMAIN c /\ at(k - 1) = k
      BY <1>1, <1>4, <1>6, <2>2
    <3> QED BY <3>1
  <2> QED BY <2>1, <2>2
<1>7. ASSUME NEW j \in DOMAIN c, NEW k \in DOMAIN c, at(j) = at(k) PROVE j = k
  BY <1>4, <1>7
<1> HIDE DEF at
<1>8. Bucket(c, q)
  <2>1. \A j \in DOMAIN c : c[j].root \in Blocks /\ Parent[c[j].root] = q
    BY <1>5 DEF Bucket
  <2>2. \A j, k \in DOMAIN c : c[j].root = c[k].root => j = k
    BY <1>1, <1>5, <1>7
  <2> QED BY <1>3, <2>1, <2>2 DEF Bucket
<1>9. Values(c) = Values(b) \ {b[i]}
  <2>1. \A j \in DOMAIN c : c[j] \in Values(b) /\ c[j] # b[i]
    BY <1>1, <1>2, <1>5 DEF Values
  <2>2. ASSUME NEW k \in DOMAIN b, b[k] # b[i] PROVE b[k] \in Values(c)
    <3>1. PICK j \in DOMAIN c : at(j) = k
      BY <1>6, <2>2
    <3> QED BY <1>5, <3>1 DEF Values
  <2> QED BY <2>1, <2>2 DEF Values
<1> QED BY <1>2, <1>8, <1>9

(* What Released leaves: the entries of V are gone from E. *)
LEMMA CountsFall ==
    ASSUME NEW E, IsFiniteSet(E), NEW V \in SUBSET E, NEW p
    PROVE  /\ Cardinality(OfPeer(E \ V, p)) = Cardinality(OfPeer(E, p)) - Cardinality(OfPeer(V, p))
           /\ Cardinality(OfPeer(E, p)) \in Nat /\ Cardinality(OfPeer(V, p)) \in Nat
           /\ Cardinality(OfPeer(V, p)) <= Cardinality(OfPeer(E, p))
<1> DEFINE F == OfPeer(E, p)
           G == OfPeer(V, p)
<1>1. F \in SUBSET E /\ G \in SUBSET F /\ F \cap G = G /\ OfPeer(E \ V, p) = F \ G
  BY DEF OfPeer
<1> HIDE DEF F, G
<1>2. IsFiniteSet(F)
  BY <1>1, FS_Subset
<1>3. IsFiniteSet(G) /\ Cardinality(G) <= Cardinality(F)
  BY <1>1, <1>2, FS_Subset
<1>4. Cardinality(F \ G) = Cardinality(F) - Cardinality(F \cap G)
  BY <1>2, FS_Difference, Zenon
<1>5. Cardinality(F) \in Nat /\ Cardinality(G) \in Nat
  BY <1>2, <1>3, FS_CardinalityType
<1> QED BY <1>1, <1>3, <1>4, <1>5, Zenon DEF F, G

Leaving(out, p) == Cardinality({i \in DOMAIN out : out[i].peer = p})

LEMMA ReleasedFields ==
    ASSUME NEW t \in PendingType, NEW out \in Seq(Entry), Len(out) <= t.total, NEW u, u = Released(t, out)
    PROVE  /\ u \in PendingType /\ u.by_parent = t.by_parent /\ u.order = t.order
           /\ u.total = t.total - Len(out)
           /\ \A p \in Peers : u.per_peer[p] = IF t.per_peer[p] > Leaving(out, p)
                                               THEN t.per_peer[p] - Leaving(out, p) ELSE 0
<1> DEFINE pp == [p \in Peers |-> IF t.per_peer[p] > Leaving(out, p)
                                  THEN t.per_peer[p] - Leaving(out, p) ELSE 0]
           m == t.total - Len(out)
<1>1. ASSUME NEW p \in Peers PROVE Leaving(out, p) \in Nat
  <2> DEFINE I == {i \in DOMAIN out : out[i].peer = p}
  <2>1. Len(out) \in Nat /\ I \in SUBSET (1..Len(out))
    OBVIOUS
  <2>2. IsFiniteSet(1..Len(out))
    BY <2>1, FS_Interval
  <2> HIDE DEF I
  <2>3. IsFiniteSet(I)
    BY ONLY <2>1, <2>2, FS_Subset, Zenon
  <2> QED BY <2>3, FS_CardinalityType DEF I, Leaving
<1>2. pp \in [Peers -> Nat]
  <2>1. t.per_peer \in [Peers -> Nat]
    BY PendingFields, Zenon
  <2> QED BY <1>1, <2>1
<1>3. m \in Nat
  <2>1. t.total \in Nat
    BY PendingFields, Zenon
  <2> QED BY <2>1
<1>4. u = [t EXCEPT !.total = m, !.per_peer = pp]
  BY DEF Released, Leaving
<1> HIDE DEF m, pp
<1>5. /\ u \in PendingType /\ u.by_parent = t.by_parent /\ u.order = t.order
      /\ u.total = m /\ u.per_peer = pp
  BY <1>2, <1>3, <1>4, Zenon DEF PendingType
<1> QED BY <1>5 DEF m, pp

(* The oldest block leaves. *)
LEMMA EvictTidy ==
    ASSUME NEW s, Tidy(s), s.order # <<>>, NEW u, u = EvictOldest(s)
    PROVE  Tidy(u) /\ u.total = s.total - 1
<1>a. PICK r : r = Head(s.order)
  BY Zenon
<1>b. PICK q : q = Parent[r]
  BY Zenon
<1>c. PICK B : B = s.by_parent[q]
  BY Zenon
<1>d. PICK pos : pos = Position(B, r)
  BY Zenon
<1>e. PICK x : x = B[pos]
  BY Zenon
<1>f. PICK C : C = RemoveIndex(B, pos)
  BY Zenon
<1>g. PICK E : E = Entries(s)
  BY Zenon
<1>1. /\ s \in PendingType /\ s.order \in Seq(Blocks) /\ Distinct(s.order) /\ s.total = Len(s.order)
      /\ Values(s.order) = RootsOf(E) /\ \A p \in Roots : Bucket(s.by_parent[p], p)
  BY <1>g, TidyFields, Zenon
<1>2. /\ Tail(s.order) \in Seq(Blocks) /\ Len(Tail(s.order)) = Len(s.order) - 1
      /\ Distinct(Tail(s.order)) /\ Values(Tail(s.order)) = Values(s.order) \ {r} /\ r \in Values(s.order)
  BY <1>1, <1>a, TailFacts
<1>3. /\ r \in Blocks /\ q \in Roots /\ Bucket(B, q) /\ IsIn(B, r)
  <2>1. PICK e \in E : e.root = r
    <3> QED BY <1>1, <1>2 DEF RootsOf
  <2>2. r \in Blocks /\ q \in Roots /\ e \in Values(B)
    <3> QED BY <1>1, <1>b, <1>c, <1>g, <2>1, EntryPlace
  <2>3. IsIn(B, r)
    <3> QED BY <2>1, <2>2 DEF IsIn, Values
  <2> QED BY <1>1, <1>c, <2>2, <2>3
<1>4. pos \in DOMAIN B /\ x.root = r /\ Bucket(C, q) /\ Values(C) = Values(B) \ {x}
  BY <1>3, <1>d, <1>e, <1>f, BucketShrinks
<1>5. x \in Values(B) /\ x \in Entry
  BY <1>3, <1>4, <1>e DEF Values, Bucket
<1> DEFINE t == [[s EXCEPT !.order = Tail(@)] EXCEPT !.by_parent[q] = C]
<1>6. /\ t \in PendingType /\ t.by_parent = [s.by_parent EXCEPT ![q] = C] /\ t.per_peer = s.per_peer
      /\ t.order = Tail(s.order) /\ t.total = s.total
  <2>1. C \in Seq(Entry) /\ Tail(s.order) \in Seq(Roots)
    <3>1. C \in Seq(Entry)
      BY <1>4, Zenon DEF Bucket
    <3>2. s.order \in Seq(Roots) /\ s.order # <<>>
      BY <1>1, PendingFields
    <3> QED BY <3>1, <3>2
  <2> QED BY <1>1, <1>3, <2>1, Zenon DEF PendingType
<1>7. u = Released(t, <<x>>)
  <2> HIDE DEF IsIn, Released, Position, RemoveIndex
  <2> QED BY <1>3, <1>a, <1>b, <1>c, <1>d, <1>e, <1>f, Zenon DEF EvictOldest
<1>8. /\ u \in PendingType /\ u.by_parent = t.by_parent /\ u.order = t.order
      /\ u.total = s.total - 1
      /\ \A p \in Peers : u.per_peer[p] = IF s.per_peer[p] > Leaving(<<x>>, p)
                                          THEN s.per_peer[p] - Leaving(<<x>>, p) ELSE 0
  <2> DEFINE out == <<x>>
  <2> HIDE DEF t
  <2>1. out \in Seq(Entry) /\ Len(out) = 1 /\ 1 <= s.total
    BY <1>1, <1>2, <1>5
  <2>2. t \in PendingType /\ out \in Seq(Entry) /\ Len(out) <= t.total /\ u = Released(t, out)
    BY <1>6, <1>7, <2>1
  <2> HIDE DEF out
  <2>3. /\ u \in PendingType /\ u.by_parent = t.by_parent /\ u.order = t.order
        /\ u.total = t.total - Len(out)
        /\ \A p \in Peers : u.per_peer[p] = IF t.per_peer[p] > Leaving(out, p)
                                            THEN t.per_peer[p] - Leaving(out, p) ELSE 0
    BY ONLY <2>2, ReleasedFields
  <2> QED BY <1>6, <2>1, <2>3 DEF out
<1> HIDE DEF t
<1>9. Entries(u) = E \ {x} /\ x \in E
  <2>1. Entries(u) = Swapped(E, Values(B), Values(C))
    <3>1. Filed(s) /\ Replaced(s, u, q, C) /\ q \in Roots
      <4>1. Filed(s)
        BY TidyFields, Zenon DEF Filed
      <4> QED BY <1>3, <1>6, <1>8, <4>1, Zenon DEF Replaced
    <3> QED BY ONLY <3>1, <1>c, <1>g, BucketReplaced
  <2>2. Values(B) \subseteq E
    BY <1>3, <1>c, <1>g DEF Entries
  <2> QED BY <1>4, <1>5, <2>1, <2>2 DEF Swapped
<1>10. Values(u.order) = RootsOf(Entries(u))
  <2>1. Values(u.order) = RootsOf(E) \ {r}
    BY <1>1, <1>2, <1>6, <1>8
  <2>2. \A e, f \in E : e.root = f.root => e = f
    BY <1>1, <1>g, EntryPlace
  <2> QED BY <1>4, <1>9, <2>1, <2>2 DEF RootsOf
<1>11. ASSUME NEW p \in Peers
       PROVE  u.per_peer[p] = Cardinality(OfPeer(Entries(u), p)) /\ u.per_peer[p] <= MaxPerPeer
  <2>1. Leaving(<<x>>, p) = Cardinality(OfPeer({x}, p))
    <3>1. {i \in DOMAIN <<x>> : <<x>>[i].peer = p} = IF x.peer = p THEN {1} ELSE {}
      OBVIOUS
    <3>2. OfPeer({x}, p) = IF x.peer = p THEN {x} ELSE {}
      BY DEF OfPeer
    <3> QED BY <3>1, <3>2, FS_Singleton, Zenon DEF Leaving
  <2>2. IsFiniteSet(E) /\ {x} \in SUBSET E
    BY <1>9, <1>g, EntriesCount
  <2>3. s.per_peer[p] = Cardinality(OfPeer(E, p)) /\ s.per_peer[p] <= MaxPerPeer
    BY <1>g, Zenon DEF Tidy
  <2>4. /\ Cardinality(OfPeer(E \ {x}, p)) = Cardinality(OfPeer(E, p)) - Cardinality(OfPeer({x}, p))
        /\ Cardinality(OfPeer(E, p)) \in Nat /\ Cardinality(OfPeer({x}, p)) \in Nat
        /\ Cardinality(OfPeer({x}, p)) <= Cardinality(OfPeer(E, p))
    BY <2>2, CountsFall, Zenon
  <2>5. u.per_peer[p] = IF s.per_peer[p] > Leaving(<<x>>, p) THEN s.per_peer[p] - Leaving(<<x>>, p) ELSE 0
    BY <1>8, Zenon
  <2> QED BY ONLY <1>9, <2>1, <2>3, <2>4, <2>5, PendingAssumption
<1>12. \A p \in Roots : Bucket(u.by_parent[p], p)
  <2>1. u.by_parent = [s.by_parent EXCEPT ![q] = C] /\ s.by_parent \in [Roots -> Seq(Entry)]
    BY <1>6, <1>8, TidyFields, Zenon
  <2> QED BY ONLY <1>1, <1>4, <2>1
<1>13. u.order \in Seq(Blocks) /\ Distinct(u.order) /\ u.total = Len(u.order)
  BY ONLY <1>1, <1>2, <1>6, <1>8
<1> QED BY ONLY <1>8, <1>10, <1>11, <1>12, <1>13 DEF Tidy

LEMMA InsertTidy ==
    ASSUME NEW s, Tidy(s), s.total <= MaxPending, NEW r \in Blocks,
           NEW peer \in Peers \cup {RandomPeer}, NEW u, u = Insert(s, r, peer)
    PROVE  Tidy(u) /\ u.total <= MaxPending
<1> DEFINE a == Added(s, r, peer)
           refused == IsIn(s.by_parent[Parent[r]], r) \/ (peer \in Peers /\ s.per_peer[peer] >= MaxPerPeer)
<1>1. u = IF refused THEN s ELSE IF a.total > MaxPending THEN EvictOldest(a) ELSE a
  BY DEF Insert
<1>2. CASE refused
  BY <1>1, <1>2
<1>3. CASE ~refused
  <2>1. Tidy(a) /\ a.total = s.total + 1 /\ a.order # <<>>
    BY <1>3, AddedTidy
  <2>2. u = IF a.total > MaxPending THEN EvictOldest(a) ELSE a
    BY <1>1, <1>3
  <2> HIDE DEF a
  <2>3. s.total \in Nat
    BY TidyFields, Zenon
  <2>4. CASE a.total > MaxPending
    <3>1. Tidy(u) /\ u.total = a.total - 1
      BY <2>1, <2>2, <2>4, EvictTidy
    <3> QED BY <2>1, <2>3, <3>1, PendingAssumption
  <2>5. CASE ~(a.total > MaxPending)
    BY <2>1, <2>2, <2>3, <2>5, PendingAssumption
  <2> QED BY <2>4, <2>5
<1> QED BY <1>2, <1>3

(* The children of a block leave together. *)
LEMMA DrainTidy ==
    ASSUME NEW s, Tidy(s), NEW q \in Roots, NEW u, u = DrainChildren(s, q)
    PROVE  Tidy(u) /\ u.total <= s.total
<1> DEFINE B == s.by_parent[q]
           V == Values(B)
           R == RootsOf(V)
           E == Entries(s)
           order == RetainExcept(s.order, R)
           t == [s EXCEPT !.by_parent[q] = <<>>, !.order = order]
<1>1. /\ s \in PendingType /\ s.order \in Seq(Blocks) /\ Distinct(s.order) /\ s.total = Len(s.order)
      /\ Values(s.order) = RootsOf(E) /\ Bucket(B, q) /\ \A p \in Roots : Bucket(s.by_parent[p], p)
  BY TidyFields, Zenon
<1>2. /\ B \in Seq(Entry) /\ IsFiniteSet(V) /\ Cardinality(R) = Len(B)
      /\ \A p : Leaving(B, p) = Cardinality(OfPeer(V, p))
  <2> HIDE DEF B
  <2> QED BY <1>1, BucketCounts, Zenon DEF Bucket, Leaving
<1>3. V \subseteq E /\ R \subseteq Values(s.order)
  <2>1. V \subseteq E
    BY DEF Entries
  <2> HIDE DEF V, E
  <2> QED BY <1>1, <2>1 DEF RootsOf
<1>4. order \in Seq(Blocks) /\ Distinct(order) /\ Values(order) = Values(s.order) \ R
  <2> HIDE DEF R
  <2> QED BY <1>1, RetainFacts
<1> HIDE DEF order
<1>5. Len(order) = s.total - Len(B) /\ Len(B) <= s.total /\ Len(order) \in Nat /\ Len(B) \in Nat
  <2>1. IsFiniteSet(Values(s.order)) /\ Cardinality(Values(s.order)) = s.total
    BY EntriesCount
  <2>2. Cardinality(Values(order)) = Len(order)
    BY <1>4, DistinctCounts, Zenon
  <2>3. Values(s.order) \cap R = R
    <3> HIDE DEF R
    <3> QED BY <1>3
  <2> HIDE DEF R, B
  <2>4. Cardinality(Values(s.order) \ R) = Cardinality(Values(s.order)) - Cardinality(Values(s.order) \cap R)
    BY <2>1, FS_Difference, Zenon
  <2>5. Len(B) \in Nat /\ Len(order) \in Nat
    BY <1>2, <1>4
  <2>6. Cardinality(R) <= Cardinality(Values(s.order))
    BY <1>3, <2>1, FS_Subset
  <2> QED BY <1>2, <1>4, <2>1, <2>2, <2>3, <2>4, <2>5, <2>6, Zenon
<1>6. /\ t \in PendingType /\ t.by_parent = [s.by_parent EXCEPT ![q] = <<>>] /\ t.per_peer = s.per_peer
      /\ t.order = order /\ t.total = s.total
  <2>1. order \in Seq(Roots)
    <3>1. Blocks \subseteq Roots
      BY DEF Blocks
    <3> QED BY <1>4, <3>1
  <2> DEFINE buckets == [s.by_parent EXCEPT ![q] = <<>>]
  <2>2. buckets \in [Roots -> Seq(Entry)]
    <3>1. s.by_parent \in [Roots -> Seq(Entry)] /\ <<>> \in Seq(Entry)
      BY TidyFields
    <3> QED BY ONLY <3>1
  <2>3. t = [s EXCEPT !.by_parent = buckets, !.order = order]
    BY <1>1 DEF PendingType
  <2> HIDE DEF buckets, t
  <2>4. /\ t \in PendingType /\ t.by_parent = buckets /\ t.per_peer = s.per_peer
        /\ t.order = order /\ t.total = s.total
    BY <1>1, <2>1, <2>2, <2>3, Zenon DEF PendingType
  <2> QED BY <2>4 DEF buckets
<1>7. u = Released(t, B)
  <2> HIDE DEF Released, RetainExcept
  <2> QED BY DEF DrainChildren, order, RootsOf
<1>8. /\ u \in PendingType /\ u.by_parent = t.by_parent /\ u.order = t.order
      /\ u.total = t.total - Len(B)
      /\ \A p \in Peers : u.per_peer[p] = IF t.per_peer[p] > Leaving(B, p)
                                          THEN t.per_peer[p] - Leaving(B, p) ELSE 0
  <2> HIDE DEF t, B
  <2>1. t \in PendingType /\ B \in Seq(Entry) /\ Len(B) <= t.total /\ u = Released(t, B)
    BY <1>2, <1>5, <1>6, <1>7
  <2> QED BY ONLY <2>1, ReleasedFields
<1> HIDE DEF t
<1>9. Entries(u) = E \ V
  <2>1. Entries(u) = Swapped(E, V, Values(<<>>))
    <3> DEFINE C == <<>>
    <3>1. Filed(s) /\ Replaced(s, u, q, C) /\ q \in Roots
      <4>1. Filed(s)
        BY TidyFields, Zenon DEF Filed
      <4> QED BY <1>6, <1>8, <4>1, Zenon DEF Replaced
    <3> HIDE DEF C
    <3>2. Entries(u) = Swapped(E, V, Values(C))
      BY ONLY <3>1, BucketReplaced
    <3> QED BY <3>2 DEF C
  <2>2. Values(<<>>) = {}
    BY DEF Values
  <2> HIDE DEF E, V
  <2> QED BY <2>1, <2>2 DEF Swapped
<1>10. Values(u.order) = RootsOf(Entries(u))
  <2>1. Values(u.order) = RootsOf(E) \ R
    BY <1>1, <1>4, <1>6, <1>8
  <2>2. \A e, f \in E : e.root = f.root => e = f
    BY <1>1, EntryPlace
  <2> HIDE DEF E, V
  <2> QED BY <1>3, <1>9, <2>1, <2>2 DEF RootsOf
<1>11. ASSUME NEW p \in Peers
       PROVE  u.per_peer[p] = Cardinality(OfPeer(Entries(u), p)) /\ u.per_peer[p] <= MaxPerPeer
  <2>1. IsFiniteSet(E) /\ V \in SUBSET E
    BY <1>3, EntriesCount
  <2>2. s.per_peer[p] = Cardinality(OfPeer(E, p)) /\ s.per_peer[p] <= MaxPerPeer
    BY Zenon DEF Tidy
  <2> HIDE DEF E, V, B
  <2>3. /\ Cardinality(OfPeer(E \ V, p)) = Cardinality(OfPeer(E, p)) - Cardinality(OfPeer(V, p))
        /\ Cardinality(OfPeer(E, p)) \in Nat /\ Cardinality(OfPeer(V, p)) \in Nat
        /\ Cardinality(OfPeer(V, p)) <= Cardinality(OfPeer(E, p))
    BY <2>1, CountsFall, Zenon
  <2>4. /\ u.per_peer[p] = IF s.per_peer[p] > Leaving(B, p) THEN s.per_peer[p] - Leaving(B, p) ELSE 0
        /\ Leaving(B, p) = Cardinality(OfPeer(V, p))
    BY <1>2, <1>6, <1>8, Zenon
  <2> QED BY ONLY <1>9, <2>2, <2>3, <2>4, PendingAssumption
<1>12. \A p \in Roots : Bucket(u.by_parent[p], p)
  <2>1. Bucket(<<>>, q)
    BY ONLY EmptyBucket
  <2>2. u.by_parent = [s.by_parent EXCEPT ![q] = <<>>] /\ s.by_parent \in [Roots -> Seq(Entry)]
    BY <1>6, <1>8, TidyFields, Zenon
  <2> QED BY ONLY <1>1, <2>1, <2>2
<1>13. u.order \in Seq(Blocks) /\ Distinct(u.order) /\ u.total = Len(u.order) /\ u.total <= s.total
  <2> HIDE DEF B
  <2>1. s.total \in Nat
    BY TidyFields, Zenon
  <2> QED BY <1>4, <1>5, <1>6, <1>8, <2>1
<1>14. Tidy(u)
  BY ONLY <1>8, <1>10, <1>11, <1>12, <1>13 DEF Tidy
<1> QED BY <1>13, <1>14

LEMMA EmptyTidy == Tidy(EmptyPending) /\ EmptyPending.total = 0
<1> DEFINE s == EmptyPending
<1>1. /\ s.by_parent = [q \in Roots |-> <<>>] /\ s.per_peer = [p \in Peers |-> 0] /\ s.order = <<>>
      /\ s.total = 0 /\ s \in PendingType
  BY DEF EmptyPending, PendingType
<1> HIDE DEF s
<1>2. Values(<<>>) = {}
  BY DEF Values
<1>3. Entries(s) = {} /\ Values(s.order) = {}
  BY <1>1, <1>2 DEF Entries
<1>4. \A q \in Roots : Bucket(s.by_parent[q], q)
  BY <1>1 DEF Bucket
<1>5. \A p \in Peers : OfPeer(Entries(s), p) = {} /\ s.per_peer[p] = 0
  BY <1>1, <1>3 DEF OfPeer
<1>6. Distinct(s.order) /\ s.order \in Seq(Blocks) /\ s.total = Len(s.order)
  BY <1>1 DEF Distinct
<1>7. Values(s.order) = RootsOf(Entries(s))
  BY <1>3 DEF RootsOf
<1>8. \A p \in Peers : s.per_peer[p] = Cardinality(OfPeer(Entries(s), p)) /\ s.per_peer[p] <= MaxPerPeer
  BY <1>5, FS_EmptySet, PendingAssumption
<1>9. Tidy(s)
  BY <1>1, <1>4, <1>6, <1>7, <1>8 DEF Tidy
<1> QED BY <1>1, <1>9 DEF s

LEMMA TidyIsConsistent == Tidy(pending) /\ pending.total <= MaxPending => PendingConsistent
<1> SUFFICES ASSUME Tidy(pending), pending.total <= MaxPending PROVE PendingConsistent
  OBVIOUS
<1> DEFINE E == Entries(pending)
<1>1. ASSUME NEW q \in Roots
      PROVE  /\ \A e \in Values(pending.by_parent[q]) : Parent[e.root] = q
             /\ Cardinality(Values(pending.by_parent[q])) = Len(pending.by_parent[q])
  <2>1. Bucket(pending.by_parent[q], q)
    BY DEF Tidy
  <2>2. \A e \in Values(pending.by_parent[q]) : Parent[e.root] = q
    BY <2>1 DEF Bucket, Values
  <2> QED BY <2>1, <2>2, BucketCounts
<1>0. Waiting(pending) = Values(pending.order)
  <2>1. pending.order \in Seq(Roots)
    BY TidyFields, Zenon
  <2> QED BY <2>1 DEF Waiting, Values
<1>2. /\ pending.total = Cardinality(E) /\ pending.total = Cardinality(Waiting(pending))
      /\ pending.total = Len(pending.order)
  BY <1>0, EntriesCount DEF Tidy
<1>3. Waiting(pending) = {e.root : e \in E}
  BY <1>0 DEF Tidy, RootsOf
<1>4. \A p \in Peers : /\ pending.per_peer[p] = Cardinality({e \in E : e.peer = p})
                       /\ pending.per_peer[p] <= MaxPerPeer
  BY DEF Tidy, OfPeer
<1> HIDE DEF E
<1> QED BY <1>1, <1>2, <1>3, <1>4, Zenon DEF PendingConsistent, E

=============================================================================
