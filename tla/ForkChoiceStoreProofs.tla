------------------------ MODULE ForkChoiceStoreProofs ------------------------
(***************************************************************************)
(* Lemmas about slots and epochs and about what the handlers do to the     *)
(* fields of a fork-choice store, for every tree of blocks and every       *)
(* number of slots per epoch.  The proofs about the tasks that share the   *)
(* store rest on them, and on the facts about recursion that come first.   *)
(***************************************************************************)
EXTENDS ForkChoiceStore, FiniteSetTheorems, WellFoundedInduction, TLAPS

-----------------------------------------------------------------------------
(* Induction and recursion in the form the proofs use them: a set of       *)
(* natural numbers has a least element, a finite set a heaviest one, and a *)
(* function that is defined by its recursion equation exists when some     *)
(* rank falls with every call.  What a recursive definition computes then  *)
(* follows by looking at a first counterexample.                           *)

Earlier == {p \in Nat \X Nat : p[1] < p[2]}

LEMMA EarlierIsWellFounded == IsWellFoundedOn(Earlier, Nat)
<1>1. Earlier = OpToRel(<, Nat)
  BY Zenon DEF Earlier, OpToRel
<1> QED BY <1>1, NatLessThanWellFounded, Zenon

LEMMA LeastNatural ==
    ASSUME NEW T \in SUBSET Nat, T # {}
    PROVE  \E x \in T : \A y \in T : x <= y
<1>1. \A y, x \in Nat : y < x => <<y, x>> \in Earlier
  BY DEF Earlier
<1>2. PICK x \in T : \A y \in T : ~(<<y, x>> \in Earlier)
  BY EarlierIsWellFounded, WFMin
<1>3. \A y \in T : ~(y < x)
  BY <1>1, <1>2, Zenon
<1> QED BY <1>3

LEMMA LeastRank ==
    ASSUME NEW S, NEW rank \in [S -> Nat], NEW D \in SUBSET S, D # {}
    PROVE  \E x \in D : \A y \in D : rank[x] <= rank[y]
<1> DEFINE R == {rank[x] : x \in D}
<1>1. R \in SUBSET Nat /\ R # {} /\ \A x \in D : rank[x] \in R
  OBVIOUS
<1>2. PICK n \in R : \A m \in R : n <= m
  <2> HIDE DEF R
  <2> QED BY <1>1, LeastNatural
<1> QED BY <1>1, <1>2

-----------------------------------------------------------------------------
(* Recursion: from x the definition calls itself on nxt[x] and applies step[x] to the result. *)

Recurses(f, S, T, val, step, nxt) ==
    f = [x \in S |-> IF x \in T THEN val[x] ELSE step[x][f[nxt[x]]]]

LEMMA Recursion ==
    ASSUME NEW S, NEW T \in SUBSET S, NEW val, NEW step, NEW nxt \in [S -> S],
           NEW rank \in [S -> Nat], \A x \in S \ T : rank[nxt[x]] < rank[x]
    PROVE  \E f : Recurses(f, S, T, val, step, nxt)
<1> DEFINE Below(n) == {x \in S : rank[x] < n}
           Fits(f, n) == f = [x \in Below(n) |-> IF x \in T THEN val[x] ELSE step[x][f[nxt[x]]]]
           Bad == {n \in Nat : ~\E f : Fits(f, n)}
<1>1. Bad = {}
  <2>1. SUFFICES ASSUME Bad # {} PROVE FALSE
    OBVIOUS
  <2>2. PICK n \in Bad : \A m \in Bad : n <= m
    <3>1. Bad \subseteq Nat
      OBVIOUS
    <3> HIDE DEF Bad
    <3> QED BY <2>1, <3>1, LeastNatural
  <2>3. n # 0
    <3>1. Below(0) = {}
      OBVIOUS
    <3>2. Fits([x \in {} |-> x], 0)
      BY <3>1
    <3>3. \E f : Fits(f, 0)
      BY <3>2
    <3>4. ~\E f : Fits(f, n)
      BY <2>2, Zenon
    <3> HIDE DEF Fits, Bad
    <3> QED BY <3>3, <3>4
  <2>4. PICK f : Fits(f, n - 1)
    <3> HIDE DEF Fits
    <3>1. n \in Nat
      BY <2>2
    <3>2. n - 1 \in Nat /\ n - 1 \notin Bad
      <4> HIDE DEF Bad
      <4> QED BY <2>2, <2>3, <3>1
    <3> QED BY <3>2
  <2> DEFINE g == [x \in Below(n) |-> IF x \in T THEN val[x] ELSE step[x][f[nxt[x]]]]
  <2>5. ASSUME NEW x \in Below(n), x \notin T PROVE nxt[x] \in Below(n - 1) /\ nxt[x] \in Below(n)
    BY <2>2, <2>3, <2>5
  <2>6. ASSUME NEW x \in Below(n - 1) PROVE x \in Below(n) /\ g[x] = f[x]
    <3>1. x \in Below(n)
      BY <2>2, <2>3
    <3>2. f[x] = IF x \in T THEN val[x] ELSE step[x][f[nxt[x]]]
      BY <2>4
    <3> QED BY <3>1, <3>2
  <2>7. Fits(g, n)
    <3>1. \A x \in Below(n) : (IF x \in T THEN val[x] ELSE step[x][f[nxt[x]]])
                            = (IF x \in T THEN val[x] ELSE step[x][g[nxt[x]]])
      BY <2>5, <2>6
    <3> QED BY <3>1, Zenon
  <2> QED BY <2>2, <2>7
<1> DEFINE G(n) == CHOOSE f : Fits(f, n)
<1>2. \A n \in Nat : Fits(G(n), n)
  <2>1. ASSUME NEW n \in Nat PROVE Fits(G(n), n)
    <3>1. \E f : Fits(f, n)
      BY <1>1, Zenon
    <3> HIDE DEF Fits
    <3> QED BY <3>1
  <2> QED BY <2>1
<1> HIDE DEF G
<1>3. ASSUME NEW n \in Nat, NEW x \in Below(n)
      PROVE  G(n)[x] = IF x \in T THEN val[x] ELSE step[x][G(n)[nxt[x]]]
  BY <1>2
<1>4. ASSUME NEW m \in Nat, NEW n \in Nat, NEW x \in Below(m) \cap Below(n)
      PROVE  G(m)[x] = G(n)[x]
  <2> DEFINE Odd == {y \in Below(m) \cap Below(n) : G(m)[y] # G(n)[y]}
  <2>1. SUFFICES ASSUME Odd # {} PROVE FALSE
    OBVIOUS
  <2>2. PICK y \in Odd : \A z \in Odd : rank[y] <= rank[z]
    <3>1. Odd \in SUBSET S
      OBVIOUS
    <3> HIDE DEF Odd
    <3> QED BY <2>1, <3>1, LeastRank
  <2>3. y \in S /\ y \in Below(m) /\ y \in Below(n) /\ G(m)[y] # G(n)[y]
    BY <2>2
  <2>4. y \notin T
    BY <1>3, <2>3
  <2>5. nxt[y] \in Below(m) \cap Below(n) /\ rank[nxt[y]] < rank[y] /\ nxt[y] \in S
    BY <2>3, <2>4
  <2>6. G(m)[nxt[y]] = G(n)[nxt[y]]
    <3>1. rank[y] \in Nat /\ rank[nxt[y]] \in Nat
      BY <2>3, <2>5
    <3>2. nxt[y] \notin Odd
      BY <2>2, <2>5, <3>1
    <3> QED BY <2>5, <3>2
  <2> QED BY <1>3, <2>3, <2>4, <2>6
<1> DEFINE h == [x \in S |-> G(rank[x] + 1)[x]]
<1>5. ASSUME NEW x \in S PROVE h[x] = IF x \in T THEN val[x] ELSE step[x][h[nxt[x]]]
  <2>1. rank[x] + 1 \in Nat /\ x \in Below(rank[x] + 1)
    OBVIOUS
  <2>2. h[x] = IF x \in T THEN val[x] ELSE step[x][G(rank[x] + 1)[nxt[x]]]
    BY <1>3, <2>1
  <2>3. CASE x \notin T
    <3> DEFINE y == nxt[x]
    <3>1. /\ y \in S /\ rank[y] + 1 \in Nat /\ y \in Below(rank[y] + 1)
          /\ y \in Below(rank[x] + 1)
      BY <2>3
    <3>2. G(rank[x] + 1)[y] = G(rank[y] + 1)[y]
      BY <1>4, <2>1, <3>1
    <3> QED BY <2>2, <2>3, <3>1, <3>2
  <2> QED BY <2>2, <2>3
<1>6. h = [x \in S |-> IF x \in T THEN val[x] ELSE step[x][h[nxt[x]]]]
  <2>1. \A x \in S : G(rank[x] + 1)[x] = IF x \in T THEN val[x] ELSE step[x][h[nxt[x]]]
    BY <1>5, Zenon
  <2> HIDE DEF Below, Fits
  <2> QED BY <2>1
<1> QED BY <1>6 DEF Recurses

(* The results have the type of the values. *)
LEMMA RecursionType ==
    ASSUME NEW S, NEW T \in SUBSET S, NEW V, NEW val \in [S -> V], NEW step \in [S -> [V -> V]],
           NEW nxt \in [S -> S], NEW rank \in [S -> Nat], \A x \in S \ T : rank[nxt[x]] < rank[x],
           NEW f, Recurses(f, S, T, val, step, nxt)
    PROVE  f \in [S -> V]
<1> DEFINE Odd == {x \in S : f[x] \notin V}
<1>1. Odd = {}
  <2>1. SUFFICES ASSUME Odd # {} PROVE FALSE
    OBVIOUS
  <2>2. PICK y \in Odd : \A z \in Odd : rank[y] <= rank[z]
    <3>1. Odd \in SUBSET S
      OBVIOUS
    <3> HIDE DEF Odd
    <3> QED BY <2>1, <3>1, LeastRank, Zenon
  <2>3. y \in S /\ f[y] = IF y \in T THEN val[y] ELSE step[y][f[nxt[y]]]
    BY <2>2 DEF Recurses
  <2>4. y \notin T
    BY <2>2, <2>3
  <2>5. nxt[y] \in S /\ rank[nxt[y]] < rank[y] /\ rank[y] \in Nat /\ rank[nxt[y]] \in Nat
    BY <2>3, <2>4
  <2>6. nxt[y] \notin Odd
    BY <2>2, <2>5
  <2>7. f[nxt[y]] \in V
    BY <2>5, <2>6
  <2> QED BY <2>2, <2>3, <2>4, <2>7
<1>2. \A x \in S : f[x] \in V
  BY <1>1
<1>3. f = [x \in S |-> f[x]]
  <2>1. DOMAIN f = S
    BY DEF Recurses
  <2> QED BY <2>1 DEF Recurses
<1> QED BY <1>2, <1>3

-----------------------------------------------------------------------------
(* Tail recursion: the result of the call is the result. *)

TailRecurses(f, S, T, nxt) == f = [x \in S |-> IF x \in T THEN x ELSE f[nxt[x]]]

LEMMA TailRecursion ==
    ASSUME NEW S, NEW T \in SUBSET S, NEW nxt \in [S -> S], NEW rank \in [S -> Nat],
           \A x \in S \ T : rank[nxt[x]] < rank[x]
    PROVE  \E f : TailRecurses(f, S, T, nxt)
<1> DEFINE val == [x \in S |-> x]
           step == [x \in S |-> [v \in S |-> v]]
<1>v. \A x \in S : val[x] = x
  OBVIOUS
<1>s. \A x \in S, v \in S : step[x][v] = v
  OBVIOUS
<1> HIDE DEF val, step
<1>1. PICK f : Recurses(f, S, T, val, step, nxt)
  BY Recursion
<1>2. f \in [S -> S]
  <2> DEFINE V == S
  <2>1. val \in [S -> V] /\ step \in [S -> [V -> V]]
    BY DEF val, step
  <2>2. /\ T \in SUBSET S /\ nxt \in [S -> S] /\ rank \in [S -> Nat]
        /\ \A x \in S \ T : rank[nxt[x]] < rank[x]
    OBVIOUS
  <2> HIDE DEF V
  <2>3. f \in [S -> V]
    BY ONLY <1>1, <2>1, <2>2, RecursionType, Zenon
  <2> QED BY <2>3 DEF V
<1>3. ASSUME NEW x \in S
      PROVE  (IF x \in T THEN val[x] ELSE step[x][f[nxt[x]]]) = (IF x \in T THEN x ELSE f[nxt[x]])
  BY <1>2, <1>v, <1>s
<1>4. f = [x \in S |-> IF x \in T THEN x ELSE f[nxt[x]]]
  <2>1. f = [x \in S |-> IF x \in T THEN val[x] ELSE step[x][f[nxt[x]]]]
    BY <1>1 DEF Recurses
  <2>2. \A x \in S : f[x] = IF x \in T THEN x ELSE f[nxt[x]]
    BY <1>3, <2>1
  <2>3. f = [x \in S |-> f[x]]
    BY <1>2
  <2> QED BY ONLY <2>2, <2>3
<1> QED BY <1>4 DEF TailRecurses

(* It ends in T, and in every set that the calls do not leave. *)
LEMMA TailRecursionEnds ==
    ASSUME NEW S, NEW T \in SUBSET S, NEW nxt \in [S -> S], NEW rank \in [S -> Nat],
           \A x \in S \ T : rank[nxt[x]] < rank[x],
           NEW f, TailRecurses(f, S, T, nxt),
           NEW P \in SUBSET S, \A x \in P \ T : nxt[x] \in P,
           NEW x0 \in P
    PROVE  f[x0] \in T \cap P
<1> DEFINE Odd == {x \in P : f[x] \notin T \cap P}
<1>1. SUFFICES ASSUME Odd # {} PROVE FALSE
  OBVIOUS
<1>2. PICK y \in Odd : \A z \in Odd : rank[y] <= rank[z]
  <2>1. Odd \in SUBSET S
    OBVIOUS
  <2> HIDE DEF Odd
  <2> QED BY <1>1, <2>1, LeastRank
<1>3. y \in P /\ y \in S /\ f[y] = IF y \in T THEN y ELSE f[nxt[y]]
  BY <1>2 DEF TailRecurses
<1>4. y \notin T
  BY <1>2, <1>3
<1>5. nxt[y] \in P /\ nxt[y] \in S /\ rank[nxt[y]] < rank[y] /\ rank[y] \in Nat /\ rank[nxt[y]] \in Nat
  BY <1>3, <1>4
<1>6. nxt[y] \notin Odd
  <2> HIDE DEF Odd
  <2> QED BY <1>2, <1>5
<1>7. f[nxt[y]] \in T \cap P /\ f[y] \notin T \cap P
  BY <1>2, <1>5, <1>6
<1> QED BY <1>3, <1>4, <1>7

-----------------------------------------------------------------------------
(* Finite sets. *)

(* A finite set that is not empty has a greatest element under every weight. *)
LEMMA GreatestWeight ==
    ASSUME NEW S, IsFiniteSet(S), S # {}, NEW w \in [S -> Nat]
    PROVE  \E x \in S : \A y \in S : w[y] <= w[x]
<1> DEFINE Topped(D) == \E x \in D : \A y \in D : w[y] <= w[x]
           Odd == {D \in SUBSET S : D # {} /\ ~Topped(D)}
           card == [D \in SUBSET S |-> Cardinality(D)]
<1>1. SUFFICES ASSUME Odd # {} PROVE FALSE
  OBVIOUS
<1>2. ASSUME NEW D \in SUBSET S PROVE IsFiniteSet(D) /\ card[D] = Cardinality(D) /\ card[D] \in Nat
  BY FS_Subset, FS_CardinalityType
<1>3. PICK D \in Odd : \A E \in Odd : card[D] <= card[E]
  <2>1. card \in [SUBSET S -> Nat] /\ Odd \in SUBSET SUBSET S
    BY <1>2
  <2> HIDE DEF Odd, card
  <2> QED BY <1>1, <2>1, LeastRank
<1>4. D \in SUBSET S /\ D # {} /\ ~Topped(D)
  BY <1>3
<1>5. PICK x \in D : TRUE
  BY <1>4
<1> DEFINE E == D \ {x}
<1>6. E \in SUBSET S /\ Cardinality(E) = Cardinality(D) - 1
  BY <1>2, <1>4, FS_RemoveElement, Zenon
<1>7. E \notin Odd
  <2> HIDE DEF Odd, card, E
  <2> QED BY <1>2, <1>3, <1>4, <1>6
<1>8. CASE E = {}
  <2>1. D = {x}
    BY <1>8
  <2>2. w[x] \in Nat
    BY <1>4
  <2> QED BY <1>4, <2>1, <2>2
<1>9. CASE E # {}
  <2>1. PICK m \in E : \A y \in E : w[y] <= w[m]
    BY <1>6, <1>7, <1>9
  <2>2. /\ m \in D /\ w[m] \in Nat /\ w[x] \in Nat /\ \A y \in D : w[y] \in Nat
        /\ \A y \in D : y = x \/ w[y] <= w[m]
    BY <1>4, <2>1
  <2>3. CASE w[x] <= w[m]
    BY <1>4, <2>2, <2>3
  <2>4. CASE ~(w[x] <= w[m])
    <3>1. \A y \in D : w[y] <= w[x]
      BY <2>2, <2>4
    <3> QED BY <1>4, <3>1
  <2> QED BY <2>3, <2>4
<1> QED BY <1>8, <1>9

(* A sum over a finite set of natural numbers is a natural number. *)
SumOf(w, S) == MapThenSumSet(LAMBDA v : w[v], S)

LEMMA SumIsNatural ==
    ASSUME NEW S, IsFiniteSet(S), NEW w, \A v \in S : w[v] \in Nat
    PROVE  SumOf(w, S) \in Nat
<1> DEFINE pick(D) == CHOOSE x \in D : TRUE
           P == SUBSET S
           T == {{}}
           val == [D \in P |-> 0]
           step == [D \in P |-> [n \in Nat |-> IF D = {} THEN n ELSE w[pick(D)] + n]]
           nxt == [D \in P |-> D \ {pick(D)}]
           rank == [D \in P |-> Cardinality(D)]
           iter == CHOOSE f : f = [D \in P |-> IF D = {} THEN 0 ELSE w[pick(D)] + f[D \ {pick(D)}]]
<1>1. ASSUME NEW D \in P, D # {} PROVE pick(D) \in D
  BY <1>1
<1>2. ASSUME NEW D \in P PROVE IsFiniteSet(D) /\ Cardinality(D) \in Nat
  BY FS_Subset, FS_CardinalityType
<1>3. /\ T \in SUBSET P /\ val \in [P -> Nat] /\ nxt \in [P -> P]
      /\ \A D \in P : nxt[D] = D \ {pick(D)}
  <2> HIDE DEF pick
  <2> QED OBVIOUS
<1>4. step \in [P -> [Nat -> Nat]]
  <2>1. ASSUME NEW D \in P, NEW n \in Nat
        PROVE  (IF D = {} THEN n ELSE w[pick(D)] + n) \in Nat
    <3>1. D # {} => w[pick(D)] \in Nat
      BY <1>1
    <3> HIDE DEF pick
    <3> QED BY <3>1
  <2> HIDE DEF pick
  <2> QED BY <2>1
<1>5. rank \in [P -> Nat] /\ \A D \in P : rank[D] = Cardinality(D)
  BY <1>2
<1>6. \A D \in P \ T : rank[nxt[D]] < rank[D]
  <2>1. ASSUME NEW D \in P, D # {} PROVE Cardinality(D \ {pick(D)}) < Cardinality(D)
    <3>1. Cardinality(D \ {pick(D)}) = Cardinality(D) - 1
      BY <1>1, <1>2, <2>1, FS_RemoveElement
    <3> QED BY <1>2, <3>1
  <2> HIDE DEF pick, nxt, rank
  <2> QED BY <1>3, <1>5, <2>1
<1>7. ASSUME NEW D \in P, NEW n \in Nat
      PROVE  val[D] = 0 /\ step[D][n] = IF D = {} THEN n ELSE w[pick(D)] + n
  <2> HIDE DEF pick
  <2> QED OBVIOUS
<1> HIDE DEF val, step, nxt, rank
<1>8. PICK f : Recurses(f, P, T, val, step, nxt)
  <2> HIDE DEF P, T
  <2> QED BY <1>3, <1>5, <1>6, Recursion, Zenon
<1>9. f \in [P -> Nat]
  <2> DEFINE N == Nat
  <2>1. val \in [P -> N] /\ step \in [P -> [N -> N]]
    BY <1>3, <1>4
  <2>2. /\ T \in SUBSET P /\ nxt \in [P -> P] /\ rank \in [P -> Nat]
        /\ \A D \in P \ T : rank[nxt[D]] < rank[D]
    BY <1>3, <1>5, <1>6
  <2> HIDE DEF P, T, N
  <2>3. f \in [P -> N]
    BY ONLY <1>8, <2>1, <2>2, RecursionType, Zenon
  <2> QED BY <2>3 DEF N
<1>10. f = [D \in P |-> IF D = {} THEN 0 ELSE w[pick(D)] + f[D \ {pick(D)}]]
  <2>1. ASSUME NEW D \in P PROVE f[D] = IF D = {} THEN 0 ELSE w[pick(D)] + f[D \ {pick(D)}]
    <3>1. f[D] = IF D \in T THEN val[D] ELSE step[D][f[nxt[D]]]
      <4> HIDE DEF P, T
      <4> QED BY <1>8 DEF Recurses
    <3>2. nxt[D] \in P /\ f[nxt[D]] \in Nat /\ nxt[D] = D \ {pick(D)}
      <4> HIDE DEF pick, P
      <4> QED BY <1>3, <1>9
    <3> HIDE DEF pick
    <3> QED BY <1>7, <3>1, <3>2
  <2>2. f = [D \in P |-> f[D]]
    <3> HIDE DEF P
    <3> QED BY <1>9
  <2> HIDE DEF P, pick
  <2> QED BY ONLY <2>1, <2>2
<1> DEFINE Fits(g) == g = [D \in P |-> IF D = {} THEN 0 ELSE w[pick(D)] + g[D \ {pick(D)}]]
<1>11. Fits(iter)
  <2>1. Fits(f)
    BY <1>10
  <2>2. iter = CHOOSE g : Fits(g)
    OBVIOUS
  <2> HIDE DEF Fits, iter
  <2> QED BY <2>1, <2>2
<1>12. SumOf(w, S) = iter[S]
  BY DEF SumOf, MapThenSumSet, MapThenFoldSet
<1>13. ASSUME NEW D \in P PROVE iter[D] = IF D = {} THEN 0 ELSE w[pick(D)] + iter[D \ {pick(D)}]
  <2> HIDE DEF iter, pick, P
  <2> QED BY <1>11, Zenon
<1> HIDE DEF iter, Fits
<1> DEFINE Odd == {D \in P : iter[D] \notin Nat}
<1>14. Odd = {}
  <2>1. SUFFICES ASSUME Odd # {} PROVE FALSE
    OBVIOUS
  <2>2. PICK D \in Odd : \A E \in Odd : rank[D] <= rank[E]
    <3>1. Odd \in SUBSET P
      OBVIOUS
    <3>2. rank \in [P -> Nat]
      BY <1>5
    <3> HIDE DEF Odd, P
    <3> QED BY ONLY <2>1, <3>1, <3>2, LeastRank
  <2>3. /\ D \in P /\ D # {} /\ pick(D) \in S /\ iter[D] \notin Nat
        /\ iter[D] = w[pick(D)] + iter[D \ {pick(D)}]
    <3>1. D \in P /\ iter[D] \notin Nat
      BY <2>2
    <3>2. iter[D] = IF D = {} THEN 0 ELSE w[pick(D)] + iter[D \ {pick(D)}]
      BY <1>13, <3>1, Zenon
    <3>3. D # {}
      <4> HIDE DEF pick
      <4> QED BY <3>1, <3>2
    <3>4. pick(D) \in S
      BY <1>1, <3>1, <3>3
    <3> HIDE DEF pick
    <3> QED BY <3>1, <3>2, <3>3, <3>4
  <2>4. nxt[D] \in P /\ nxt[D] = D \ {pick(D)} /\ rank[nxt[D]] < rank[D] /\ rank[D] \in Nat /\ rank[nxt[D]] \in Nat
    <3> HIDE DEF pick
    <3> QED BY <1>3, <1>5, <1>6, <2>3
  <2>5. nxt[D] \notin Odd
    <3> HIDE DEF Odd, P, pick
    <3> QED BY ONLY <2>2, <2>4
  <2>6. iter[D \ {pick(D)}] \in Nat /\ w[pick(D)] \in Nat
    <3> HIDE DEF pick, P
    <3> QED BY <2>3, <2>4, <2>5
  <2> HIDE DEF pick, P
  <2> QED BY ONLY <2>3, <2>6
<1> QED BY <1>12, <1>14

-----------------------------------------------------------------------------
(* Slots and epochs. *)

LEMMA EpochDivision ==
    ASSUME NEW a \in Nat
    PROVE  /\ Epoch(a) \in Nat
           /\ a % SlotsPerEpoch \in 0..(SlotsPerEpoch - 1)
           /\ a = SlotsPerEpoch * Epoch(a) + (a % SlotsPerEpoch)
BY EpochAssumption, SMT DEF Epoch

LEMMA ProductMonotone ==
    ASSUME NEW n \in Nat, NEW x \in Nat, NEW y \in Nat, x <= y
    PROVE  n * x <= n * y
BY SMT

LEMMA ProductDivides ==
    ASSUME NEW n \in Nat \ {0}, NEW x \in Nat
    PROVE  (n * x) % n = 0
BY SMT

LEMMA QuotientBounds ==
    ASSUME NEW n \in Nat \ {0}, NEW q \in Nat, NEW m \in 0..(n - 1), NEW a \in Nat,
           a = n * q + m
    PROVE  n * q <= a /\ a < n * (q + 1)
BY SMT

LEMMA EpochBounds ==
    ASSUME NEW a \in Nat
    PROVE  /\ Epoch(a) \in Nat
           /\ SlotsPerEpoch * Epoch(a) <= a
           /\ a < SlotsPerEpoch * (Epoch(a) + 1)
<1> DEFINE q == Epoch(a)
           m == a % SlotsPerEpoch
<1>1. q \in Nat /\ m \in 0..(SlotsPerEpoch - 1) /\ a = SlotsPerEpoch * q + m
  BY EpochDivision
<1> HIDE DEF q, m
<1>2. SlotsPerEpoch * q <= a /\ a < SlotsPerEpoch * (q + 1)
  BY <1>1, QuotientBounds, EpochAssumption
<1> QED BY <1>1, <1>2 DEF q

(* A later slot in a later epoch: the first slot of that epoch was crossed on the way. *)
LEMMA EpochStartCrossed ==
    ASSUME NEW a \in Nat, NEW b \in Nat, Epoch(a) < Epoch(b)
    PROVE  \E k \in (a + 1)..b : k % SlotsPerEpoch = 0
<1> DEFINE p == Epoch(a)
           q == Epoch(b)
           k == SlotsPerEpoch * q
<1>1. /\ p \in Nat /\ q \in Nat /\ p + 1 <= q
      /\ a < SlotsPerEpoch * (p + 1) /\ SlotsPerEpoch * q <= b
  BY EpochBounds
<1> HIDE DEF p, q
<1>2. SlotsPerEpoch * (p + 1) <= k
  BY <1>1, ProductMonotone, EpochAssumption
<1>3. k \in Nat /\ SlotsPerEpoch * (p + 1) \in Nat
  BY <1>1, EpochAssumption
<1>4. k % SlotsPerEpoch = 0
  BY <1>1, ProductDivides, EpochAssumption
<1> HIDE DEF k
<1>5. k \in (a + 1)..b
  <2>1. k <= b BY <1>1 DEF k
  <2> QED BY <1>1, <1>2, <1>3, <2>1
<1> QED BY <1>4, <1>5

LEMMA EpochMonotone ==
    ASSUME NEW a \in Nat, NEW b \in Nat, a <= b
    PROVE  Epoch(a) <= Epoch(b)
<1>1. SUFFICES ASSUME Epoch(b) < Epoch(a) PROVE FALSE
  BY EpochBounds
<1>2. PICK k \in (b + 1)..a : k % SlotsPerEpoch = 0
  BY <1>1, EpochStartCrossed
<1> QED BY <1>2

LEMMA NothingCrossed ==
    ASSUME NEW a \in Nat, NEW b \in Nat, (a + 1)..b = {}
    PROVE  b <= a
<1> SUFFICES ASSUME ~(b <= a) PROVE FALSE
  OBVIOUS
<1>1. b \in (a + 1)..b
  OBVIOUS
<1> QED BY <1>1

-----------------------------------------------------------------------------
(* What the handlers do to a store. *)

LEMMA PromoteCheckpoint ==
    ASSUME NEW c \in Checkpoint, NEW d \in Checkpoint
    PROVE  /\ Promote(c, d) \in Checkpoint
           /\ Promote(c, d) \in {c, d}
           /\ c.epoch <= Promote(c, d).epoch /\ d.epoch <= Promote(c, d).epoch
           /\ Promote(c, d).epoch \in {c.epoch, d.epoch}
BY DEF Promote, Checkpoint

LEMMA PromoteRises ==
    ASSUME NEW old \in Checkpoint, NEW new \in Checkpoint
    PROVE  /\ Promote(old, new).epoch \in Nat
           /\ old.epoch <= Promote(old, new).epoch /\ new.epoch <= Promote(old, new).epoch
BY DEF Promote, Checkpoint

LEMMA BlockCheckpoints ==
    ASSUME NEW r \in Roots
    PROVE  /\ Justified[r] \in Checkpoint /\ Finalized[r] \in Checkpoint
           /\ UnrealizedJ[r] \in Checkpoint /\ UnrealizedF[r] \in Checkpoint
BY PostStateAssumption

LEMMA UpdateCheckpointsFields ==
    ASSUME NEW v \in Store, NEW x \in Checkpoint, NEW y \in Checkpoint,
           NEW u, u = UpdateCheckpoints(v, x, y)
    PROVE  /\ u \in Store /\ u.time = v.time /\ u.blocks = v.blocks /\ u.boost = v.boost
           /\ u.unrealizedJ = v.unrealizedJ /\ u.unrealizedF = v.unrealizedF
           /\ u.justified = Promote(v.justified, x) /\ u.finalized = Promote(v.finalized, y)
<1> DEFINE j == Promote(v.justified, x)
           f == Promote(v.finalized, y)
<1>1. j \in Checkpoint /\ f \in Checkpoint
  BY PromoteCheckpoint DEF Store
<1>2. u = [v EXCEPT !.justified = j, !.finalized = f]
  BY DEF UpdateCheckpoints, Store
<1> HIDE DEF j, f
<1>3. u \in Store
  BY <1>1, <1>2, Zenon DEF Store
<1>4. /\ u.time = v.time /\ u.blocks = v.blocks /\ u.boost = v.boost
      /\ u.unrealizedJ = v.unrealizedJ /\ u.unrealizedF = v.unrealizedF
  BY <1>2 DEF Store
<1>5. u.justified = j /\ u.finalized = f
  BY <1>2 DEF Store
<1> QED BY <1>3, <1>4, <1>5 DEF j, f

LEMMA CrossSlotsFields ==
    ASSUME NEW s \in Store, NEW t \in Nat, NEW crossed, NEW u, u = CrossSlots(s, t, crossed)
    PROVE  /\ u \in Store
           /\ u.time = t
           /\ u.blocks = s.blocks
           /\ u.boost = IF crossed = {} THEN s.boost ELSE Zero
           /\ u.unrealizedJ = s.unrealizedJ /\ u.unrealizedF = s.unrealizedF
           /\ IF \E k \in crossed : k % SlotsPerEpoch = 0
              THEN /\ u.justified = Promote(s.justified, s.unrealizedJ)
                   /\ u.finalized = Promote(s.finalized, s.unrealizedF)
              ELSE u.justified = s.justified /\ u.finalized = s.finalized
<1> DEFINE v == [s EXCEPT !.time = t, !.boost = IF crossed = {} THEN @ ELSE Zero]
<1>1. /\ v \in Store /\ v.time = t /\ v.blocks = s.blocks
      /\ v.boost = IF crossed = {} THEN s.boost ELSE Zero
      /\ v.unrealizedJ = s.unrealizedJ /\ v.unrealizedF = s.unrealizedF
      /\ v.justified = s.justified /\ v.finalized = s.finalized
  BY DEF Store
<1>2. u = IF \E k \in crossed : k % SlotsPerEpoch = 0
          THEN UpdateCheckpoints(v, v.unrealizedJ, v.unrealizedF) ELSE v
  BY DEF CrossSlots
<1> HIDE DEF v
<1>3. v.unrealizedJ \in Checkpoint /\ v.unrealizedF \in Checkpoint
  BY <1>1 DEF Store
<1>4. CASE \E k \in crossed : k % SlotsPerEpoch = 0
  <2>1. u = UpdateCheckpoints(v, v.unrealizedJ, v.unrealizedF)
    BY <1>2, <1>4
  <2>2. /\ u \in Store /\ u.time = v.time /\ u.blocks = v.blocks /\ u.boost = v.boost
        /\ u.unrealizedJ = v.unrealizedJ /\ u.unrealizedF = v.unrealizedF
        /\ u.justified = Promote(v.justified, v.unrealizedJ)
        /\ u.finalized = Promote(v.finalized, v.unrealizedF)
    BY <1>1, <1>3, <2>1, UpdateCheckpointsFields
  <2> QED BY <1>1, <1>4, <2>2
<1>5. CASE ~ \E k \in crossed : k % SlotsPerEpoch = 0
  BY <1>1, <1>2, <1>5
<1> QED BY <1>4, <1>5

LEMMA OnBlockFields ==
    ASSUME NEW s \in Store, NEW r \in Roots, NEW now, NEW elected,
           NEW u, u = OnBlock(s, r, now, elected)
    PROVE  /\ u \in Store
           /\ u.time = s.time
           /\ u.blocks = s.blocks \cup {r}
           /\ u.boost = IF now = Slot[r] /\ elected /\ s.boost = Zero THEN r ELSE s.boost
           /\ u.unrealizedJ = Promote(s.unrealizedJ, UnrealizedJ[r])
           /\ u.unrealizedF = Promote(s.unrealizedF, UnrealizedF[r])
           /\ IF Epoch(Slot[r]) < Epoch(s.time)
              THEN /\ u.justified = Promote(Promote(s.justified, Justified[r]), UnrealizedJ[r])
                   /\ u.finalized = Promote(Promote(s.finalized, Finalized[r]), UnrealizedF[r])
              ELSE /\ u.justified = Promote(s.justified, Justified[r])
                   /\ u.finalized = Promote(s.finalized, Finalized[r])
<1> DEFINE i == InsertBlock(s, r)
           b == UpdateProposerBoostRoot(i, r, now, elected)
           c == UpdateCheckpoints(b, Justified[r], Finalized[r])
           d == UpdateUnrealizedCheckpoints(c, UnrealizedJ[r], UnrealizedF[r])
<1>1. /\ i \in Store /\ i.time = s.time /\ i.boost = s.boost /\ i.blocks = s.blocks \cup {r}
      /\ i.justified = s.justified /\ i.finalized = s.finalized
      /\ i.unrealizedJ = s.unrealizedJ /\ i.unrealizedF = s.unrealizedF
  BY Zenon DEF Store, InsertBlock, Statuses
<1> HIDE DEF i
<1>2. /\ b \in Store /\ b.time = s.time /\ b.blocks = s.blocks \cup {r}
      /\ b.boost = IF now = Slot[r] /\ elected /\ s.boost = Zero THEN r ELSE s.boost
      /\ b.justified = s.justified /\ b.finalized = s.finalized
      /\ b.unrealizedJ = s.unrealizedJ /\ b.unrealizedF = s.unrealizedF
  BY <1>1 DEF Store, UpdateProposerBoostRoot
<1> HIDE DEF b
<1>3. /\ Justified[r] \in Checkpoint /\ Finalized[r] \in Checkpoint
      /\ UnrealizedJ[r] \in Checkpoint /\ UnrealizedF[r] \in Checkpoint
  BY BlockCheckpoints
<1>4. /\ c \in Store /\ c.time = s.time /\ c.blocks = s.blocks \cup {r} /\ c.boost = b.boost
      /\ c.justified = Promote(s.justified, Justified[r])
      /\ c.finalized = Promote(s.finalized, Finalized[r])
      /\ c.unrealizedJ = s.unrealizedJ /\ c.unrealizedF = s.unrealizedF
  <2>1. /\ b \in Store /\ Justified[r] \in Checkpoint /\ Finalized[r] \in Checkpoint
        /\ c = UpdateCheckpoints(b, Justified[r], Finalized[r])
    BY <1>2, <1>3
  <2> HIDE DEF c
  <2>2. /\ c \in Store /\ c.time = b.time /\ c.blocks = b.blocks /\ c.boost = b.boost
        /\ c.unrealizedJ = b.unrealizedJ /\ c.unrealizedF = b.unrealizedF
        /\ c.justified = Promote(b.justified, Justified[r])
        /\ c.finalized = Promote(b.finalized, Finalized[r])
    BY ONLY <2>1, UpdateCheckpointsFields
  <2> QED BY <1>2, <2>2
<1> HIDE DEF c
<1>5. /\ Promote(s.unrealizedJ, UnrealizedJ[r]) \in Checkpoint
      /\ Promote(s.unrealizedF, UnrealizedF[r]) \in Checkpoint
  BY PromoteCheckpoint, BlockCheckpoints DEF Store
<1>6. /\ d \in Store /\ d.time = s.time /\ d.blocks = s.blocks \cup {r} /\ d.boost = b.boost
      /\ d.justified = c.justified /\ d.finalized = c.finalized
      /\ d.unrealizedJ = Promote(s.unrealizedJ, UnrealizedJ[r])
      /\ d.unrealizedF = Promote(s.unrealizedF, UnrealizedF[r])
  BY <1>4, <1>5, Zenon DEF Store, UpdateUnrealizedCheckpoints
<1>7. u = IF Epoch(Slot[r]) < Epoch(s.time)
          THEN UpdateCheckpoints(d, UnrealizedJ[r], UnrealizedF[r]) ELSE d
  BY <1>4 DEF OnBlock, ComputePulledUpTip, i, b, c
<1> HIDE DEF d
<1>9. CASE Epoch(Slot[r]) < Epoch(s.time)
  <2>1. u = UpdateCheckpoints(d, UnrealizedJ[r], UnrealizedF[r])
    BY <1>7, <1>9
  <2>2. /\ u \in Store /\ u.time = d.time /\ u.blocks = d.blocks /\ u.boost = d.boost
        /\ u.unrealizedJ = d.unrealizedJ /\ u.unrealizedF = d.unrealizedF
        /\ u.justified = Promote(d.justified, UnrealizedJ[r])
        /\ u.finalized = Promote(d.finalized, UnrealizedF[r])
    <3>1. d \in Store /\ UnrealizedJ[r] \in Checkpoint /\ UnrealizedF[r] \in Checkpoint
      BY <1>3, <1>6
    <3> QED BY ONLY <2>1, <3>1, UpdateCheckpointsFields
  <2> QED BY <1>2, <1>4, <1>6, <1>9, <2>2
<1>10. CASE ~(Epoch(Slot[r]) < Epoch(s.time))
  <2>1. u = d
    BY <1>7, <1>10
  <2> QED BY <1>2, <1>4, <1>6, <1>10, <2>1
<1> QED BY <1>9, <1>10

LEMMA AnchorIsCheckpoint == AnchorCheckpoint \in Checkpoint
BY TreeAssumption, EpochBounds DEF AnchorCheckpoint, Checkpoint

LEMMA InitStoreType == InitStore \in Store
BY AnchorIsCheckpoint, TreeAssumption DEF InitStore, Store, Statuses, NoVote, Zero

(* Which blocks have a state: the handlers change it with the set of blocks. *)
LEMMA CrossSlotsStates ==
    ASSUME NEW s \in Store, NEW t \in Nat, NEW crossed
    PROVE  CrossSlots(s, t, crossed).states = s.states
<1> DEFINE v == [s EXCEPT !.time = t, !.boost = IF crossed = {} THEN @ ELSE Zero]
<1>1. v \in Store /\ v.states = s.states
  BY DEF Store
<1> HIDE DEF v
<1>2. UpdateCheckpoints(v, v.unrealizedJ, v.unrealizedF).states = v.states
  BY <1>1 DEF UpdateCheckpoints, Store
<1> QED BY <1>1, <1>2 DEF CrossSlots, v

LEMMA UpdateCheckpointsStates ==
    ASSUME NEW v \in Store, NEW x \in Checkpoint, NEW y \in Checkpoint
    PROVE  /\ UpdateCheckpoints(v, x, y).states = v.states
           /\ UpdateCheckpoints(v, x, y) \in Store
           /\ UpdateUnrealizedCheckpoints(v, x, y).states = v.states
           /\ UpdateUnrealizedCheckpoints(v, x, y) \in Store
<1>1. UpdateCheckpoints(v, x, y) \in Store
  BY UpdateCheckpointsFields
<1>2. /\ UpdateCheckpoints(v, x, y).states = v.states
      /\ UpdateUnrealizedCheckpoints(v, x, y).states = v.states
  BY DEF UpdateCheckpoints, UpdateUnrealizedCheckpoints, Store
<1>3. Promote(v.unrealizedJ, x) \in Checkpoint /\ Promote(v.unrealizedF, y) \in Checkpoint
  BY PromoteCheckpoint DEF Store
<1>4. UpdateUnrealizedCheckpoints(v, x, y) \in Store
  BY <1>3, Zenon DEF UpdateUnrealizedCheckpoints, Store
<1> QED BY <1>1, <1>2, <1>4

LEMMA OnBlockStates ==
    ASSUME NEW s \in Store, NEW r \in Roots, NEW now, NEW elected
    PROVE  OnBlock(s, r, now, elected).states = s.states \cup {r}
<1> DEFINE i == InsertBlock(s, r)
           b == UpdateProposerBoostRoot(i, r, now, elected)
           c == UpdateCheckpoints(b, Justified[r], Finalized[r])
           d == UpdateUnrealizedCheckpoints(c, UnrealizedJ[r], UnrealizedF[r])
           e == UpdateCheckpoints(d, UnrealizedJ[r], UnrealizedF[r])
<1>1. i \in Store /\ i.states = s.states \cup {r}
  BY Zenon DEF Store, InsertBlock, Statuses
<1> HIDE DEF i
<1>2. b \in Store /\ b.states = i.states
  BY <1>1, Zenon DEF Store, UpdateProposerBoostRoot
<1> HIDE DEF b
<1>3. c \in Store /\ c.states = b.states
  BY <1>2, UpdateCheckpointsStates, BlockCheckpoints
<1> HIDE DEF c
<1>4. d \in Store /\ d.states = c.states
  BY <1>3, UpdateCheckpointsStates, BlockCheckpoints
<1> HIDE DEF d
<1>5. e.states = d.states
  BY <1>4, UpdateCheckpointsStates, BlockCheckpoints
<1> HIDE DEF e
<1>6. OnBlock(s, r, now, elected) \in {d, e}
  BY DEF OnBlock, ComputePulledUpTip, i, b, c, d, e
<1> QED BY <1>1, <1>2, <1>3, <1>4, <1>5, <1>6

LEMMA OnBlockTree ==
    ASSUME NEW s \in Store, NEW r \in Roots, NEW now, NEW elected, NEW u, u = OnBlock(s, r, now, elected)
    PROVE  u.blocks = s.blocks \cup {r} /\ u.states = s.states \cup {r}
<1>1. s \in Store /\ r \in Roots /\ u = OnBlock(s, r, now, elected)
  OBVIOUS
<1>2. u.blocks = s.blocks \cup {r}
  BY ONLY <1>1, OnBlockFields
<1>3. u.states = s.states \cup {r}
  BY ONLY <1>1, OnBlockStates
<1> QED BY <1>2, <1>3

-----------------------------------------------------------------------------
(* The checkpoints of a store. *)

Ordered(s) ==
    /\ s.finalized.epoch <= s.justified.epoch
    /\ s.unrealizedF.epoch <= s.unrealizedJ.epoch
    /\ s.justified.epoch <= s.unrealizedJ.epoch
    /\ s.finalized.epoch <= s.unrealizedF.epoch

(* The checkpoints come from the anchor or from a post-state; none is older than the anchor. *)
Sourced(s) ==
    /\ s.justified \in JustifiedCheckpoints /\ s.unrealizedJ \in JustifiedCheckpoints
    /\ s.finalized \in FinalizedCheckpoints /\ s.unrealizedF \in FinalizedCheckpoints
    /\ AnchorCheckpoint.epoch <= s.finalized.epoch

Sound(s) == s \in Store /\ Ordered(s) /\ Sourced(s)

(* What a step from s to u does to finality. *)
Keeps(s, u) == s.finalized.epoch <= u.finalized.epoch

LEMMA InitSound == Sound(InitStore)
<1>1. AnchorCheckpoint.epoch \in Nat
  BY AnchorIsCheckpoint DEF Checkpoint
<1>2. Ordered(InitStore)
  BY <1>1 DEF Ordered, InitStore
<1>3. Sourced(InitStore)
  <2>1. /\ InitStore.justified = AnchorCheckpoint /\ InitStore.unrealizedJ = AnchorCheckpoint
        /\ InitStore.finalized = AnchorCheckpoint /\ InitStore.unrealizedF = AnchorCheckpoint
    BY DEF InitStore
  <2>2. AnchorCheckpoint \in JustifiedCheckpoints /\ AnchorCheckpoint \in FinalizedCheckpoints
    BY DEF JustifiedCheckpoints, FinalizedCheckpoints
  <2> HIDE DEF InitStore, JustifiedCheckpoints, FinalizedCheckpoints
  <2> QED BY <1>1, <2>1, <2>2 DEF Sourced
<1> QED BY <1>2, <1>3, InitStoreType DEF Sound

LEMMA CrossSlotsSound ==
    ASSUME NEW s, Sound(s), NEW t \in Nat, NEW crossed, NEW u, u = CrossSlots(s, t, crossed)
    PROVE  Sound(u) /\ Keeps(s, u)
<1>1. /\ s.justified \in Checkpoint /\ s.unrealizedJ \in Checkpoint
      /\ s.finalized \in Checkpoint /\ s.unrealizedF \in Checkpoint
  BY DEF Sound, Store
<1>2. /\ u \in Store /\ u.blocks = s.blocks
      /\ u.unrealizedJ = s.unrealizedJ /\ u.unrealizedF = s.unrealizedF
      /\ u.justified \in {s.justified, Promote(s.justified, s.unrealizedJ)}
      /\ u.finalized \in {s.finalized, Promote(s.finalized, s.unrealizedF)}
      /\ \/ u.justified = s.justified /\ u.finalized = s.finalized
         \/ /\ u.justified = Promote(s.justified, s.unrealizedJ)
            /\ u.finalized = Promote(s.finalized, s.unrealizedF)
  BY CrossSlotsFields DEF Sound
<1>3. Ordered(u) /\ Keeps(s, u)
  BY <1>1, <1>2 DEF Sound, Ordered, Keeps, Promote, Checkpoint
<1>4. Sourced(u)
  BY <1>1, <1>2, <1>3, AnchorIsCheckpoint DEF Sound, Sourced, Promote, Checkpoint, Keeps
<1> QED BY <1>2, <1>3, <1>4 DEF Sound

LEMMA OnBlockSound ==
    ASSUME NEW s, Sound(s), NEW r \in Roots, NEW now, NEW elected,
           NEW u, u = OnBlock(s, r, now, elected)
    PROVE  Sound(u) /\ Keeps(s, u)
<1>1. /\ s.justified \in Checkpoint /\ s.unrealizedJ \in Checkpoint
      /\ s.finalized \in Checkpoint /\ s.unrealizedF \in Checkpoint
  BY DEF Sound, Store
<1> DEFINE J == Justified[r]
           F == Finalized[r]
           UJ == UnrealizedJ[r]
           UF == UnrealizedF[r]
<1>2. /\ J \in Checkpoint /\ F \in Checkpoint /\ UJ \in Checkpoint /\ UF \in Checkpoint
      /\ F.epoch <= J.epoch /\ UF.epoch <= UJ.epoch /\ J.epoch <= UJ.epoch /\ F.epoch <= UF.epoch
      /\ J \in JustifiedCheckpoints /\ UJ \in JustifiedCheckpoints
      /\ F \in FinalizedCheckpoints /\ UF \in FinalizedCheckpoints
  BY PostStateAssumption DEF JustifiedCheckpoints, FinalizedCheckpoints
<1>3. /\ u \in Store /\ u.blocks = s.blocks \cup {r}
      /\ u.unrealizedJ = Promote(s.unrealizedJ, UJ) /\ u.unrealizedF = Promote(s.unrealizedF, UF)
      /\ \/ /\ u.justified = Promote(Promote(s.justified, J), UJ)
            /\ u.finalized = Promote(Promote(s.finalized, F), UF)
         \/ u.justified = Promote(s.justified, J) /\ u.finalized = Promote(s.finalized, F)
  BY OnBlockFields DEF Sound
<1> HIDE DEF J, F, UJ, UF
<1>5. Ordered(u) /\ Keeps(s, u)
  BY <1>1, <1>2, <1>3 DEF Sound, Ordered, Keeps, Promote, Checkpoint
<1>6. Sourced(u)
  BY <1>1, <1>2, <1>3, <1>5, AnchorIsCheckpoint DEF Sound, Sourced, Promote, Checkpoint, Keeps
<1> QED BY <1>3, <1>5, <1>6 DEF Sound

(* What a step does to the rest of the store does not matter. *)
LEMMA SameCheckpointsSound ==
    ASSUME NEW s, Sound(s), NEW u \in Store,
           u.justified = s.justified, u.unrealizedJ = s.unrealizedJ,
           u.finalized = s.finalized, u.unrealizedF = s.unrealizedF
    PROVE  Sound(u) /\ Keeps(s, u)
<1>1. s.finalized.epoch \in Nat
  BY DEF Sound, Store, Checkpoint
<1> QED BY <1>1 DEF Sound, Ordered, Sourced, Keeps

(* Accountable safety, for the checkpoints that a store may have. *)
LEMMA SoundRoots ==
    ASSUME NEW s, Sound(s)
    PROVE  /\ s.finalized.root \in Roots /\ s.justified.root \in Roots
           /\ s.finalized.root \in Chain[s.justified.root]
           /\ \A q \in Chain[s.justified.root] :
                 Slot[q] <= StartSlot(s.finalized.epoch) => q \in Chain[s.finalized.root]
<1>1. /\ s.justified \in JustifiedCheckpoints /\ s.finalized \in FinalizedCheckpoints
      /\ AnchorCheckpoint.epoch <= s.finalized.epoch /\ s.finalized.epoch \in Nat
      /\ s.finalized.epoch <= s.justified.epoch
  BY DEF Sound, Sourced, Ordered, Store, Checkpoint
<1>2. s.finalized.root \in Roots
  BY <1>1, CasperAssumption
<1> QED BY <1>1, <1>2, CasperAssumption

-----------------------------------------------------------------------------
(* Induction over slots: a set of blocks that is not empty has a first one. *)

LEMMA FirstBlock ==
    ASSUME NEW T \in SUBSET Roots, T # {}
    PROVE  \E x \in T : \A y \in T : Slot[x] <= Slot[y]
<1> DEFINE S == {Slot[x] : x \in T}
<1>1. S \in SUBSET Nat /\ S # {}
  <2>1. \A x \in T : Slot[x] \in Nat
    BY TreeAssumption
  <2> QED BY <2>1
<1>2. \A x \in T : Slot[x] \in S
  OBVIOUS
<1>3. PICK n \in S : \A m \in S : n <= m
  <2> HIDE DEF S
  <2> QED BY <1>1, LeastNatural
<1>4. PICK x \in T : n = Slot[x]
  BY <1>3
<1> QED BY <1>2, <1>3, <1>4

(* The ancestors of a block: Chain is given by its recursion equation only. *)
LEMMA ChainStep ==
    ASSUME NEW r \in Roots
    PROVE  /\ r \in Chain[r] /\ Chain[r] \subseteq Roots /\ Slot[r] \in Nat
           /\ r # Anchor => /\ Parent[r] \in Roots /\ Slot[Parent[r]] < Slot[r]
                            /\ Chain[r] = {r} \cup Chain[Parent[r]]
           /\ r = Anchor => Chain[r] = {r} /\ Parent[r] \notin Roots
BY TreeAssumption

(* An ancestor is not later than the block, and its ancestors are the block's. *)
LEMMA ChainIsClosed ==
    ASSUME NEW r \in Roots, NEW q \in Chain[r]
    PROVE  Slot[q] <= Slot[r] /\ Chain[q] \subseteq Chain[r]
<1> DEFINE Closed(b) == \A a \in Chain[b] : Slot[a] <= Slot[b] /\ Chain[a] \subseteq Chain[b]
           Open == {b \in Roots : ~Closed(b)}
<1>1. SUFFICES ASSUME Open # {} PROVE FALSE
  OBVIOUS
<1>2. PICK b \in Open : \A c \in Open : Slot[b] <= Slot[c]
  BY <1>1, FirstBlock, Zenon
<1>3. b # Anchor
  BY <1>2, ChainStep
<1>4. Parent[b] \in Roots /\ Slot[Parent[b]] < Slot[b] /\ Slot[b] \in Nat /\ Slot[Parent[b]] \in Nat
  BY <1>2, <1>3, ChainStep
<1>5. Closed(Parent[b])
  BY <1>2, <1>4
<1>6. Chain[b] = {b} \cup Chain[Parent[b]]
  BY <1>2, <1>3, ChainStep
<1>7. \A a \in Chain[Parent[b]] : Slot[a] \in Nat
  BY <1>4, ChainStep
<1> QED BY <1>2, <1>4, <1>5, <1>6, <1>7

(* A block has one child on a chain. *)
LEMMA OneChildOnChain ==
    ASSUME NEW r \in Roots, NEW p \in Chain[r], NEW q \in Chain[r], p # Anchor, q # Anchor,
           Parent[p] = Parent[q]
    PROVE  p = q
<1> DEFINE Single(b) == \A x, y \in Chain[b] : x # Anchor /\ y # Anchor /\ Parent[x] = Parent[y] => x = y
           Forked == {b \in Roots : ~Single(b)}
<1>1. SUFFICES ASSUME Forked # {} PROVE FALSE
  OBVIOUS
<1>2. PICK b \in Forked : \A c \in Forked : Slot[b] <= Slot[c]
  BY <1>1, FirstBlock, Zenon
<1>3. b # Anchor
  BY <1>2, ChainStep
<1>4. Parent[b] \in Roots /\ Slot[Parent[b]] < Slot[b] /\ Slot[b] \in Nat /\ Slot[Parent[b]] \in Nat
  BY <1>2, <1>3, ChainStep
<1>5. Single(Parent[b])
  BY <1>2, <1>4
<1>6. Chain[b] = {b} \cup Chain[Parent[b]]
  BY <1>2, <1>3, ChainStep
<1>7. ASSUME NEW x \in Chain[Parent[b]], x # Anchor PROVE Parent[x] # Parent[b]
  <2>1. x \in Roots /\ Slot[x] <= Slot[Parent[b]] /\ Slot[Parent[x]] < Slot[x] /\ Slot[x] \in Nat
    BY <1>4, <1>7, ChainStep, ChainIsClosed
  <2> QED BY <1>4, <2>1, ChainStep
<1> QED BY <1>2, <1>3, <1>5, <1>6, <1>7

(* A block other than the last has a child on the chain. *)
LEMMA ChildOnChain ==
    ASSUME NEW r \in Roots, NEW q \in Chain[r], q # r
    PROVE  \E c \in Chain[r] \ Chain[q] : c # Anchor /\ Parent[c] = q
<1> DEFINE Linked(b) == \A a \in Chain[b] : a # b => \E c \in Chain[b] : c # Anchor /\ Parent[c] = a
           Broken == {b \in Roots : ~Linked(b)}
<1>1. Broken = {}
  <2>1. SUFFICES ASSUME Broken # {} PROVE FALSE
    OBVIOUS
  <2>2. PICK b \in Broken : \A c \in Broken : Slot[b] <= Slot[c]
    BY <2>1, FirstBlock, Zenon
  <2>3. b # Anchor
    BY <2>2, ChainStep
  <2>4. Parent[b] \in Roots /\ Slot[Parent[b]] < Slot[b] /\ Slot[b] \in Nat /\ Slot[Parent[b]] \in Nat
    BY <2>2, <2>3, ChainStep
  <2>5. Linked(Parent[b])
    BY <2>2, <2>4
  <2>6. Chain[b] = {b} \cup Chain[Parent[b]]
    BY <2>2, <2>3, ChainStep
  <2> QED BY <2>2, <2>3, <2>5, <2>6
<1>2. PICK c \in Chain[r] : c # Anchor /\ Parent[c] = q
  BY <1>1
<1>3. q \in Roots /\ c \in Roots /\ Slot[q] < Slot[c] /\ Slot[q] \in Nat /\ Slot[c] \in Nat
  BY <1>2, ChainStep
<1>4. c \notin Chain[q]
  BY <1>3, ChainIsClosed
<1> QED BY <1>2, <1>4

(* Two blocks that are ancestors of each other are the same. *)
LEMMA ChainAntisymmetric ==
    ASSUME NEW r \in Roots, NEW q \in Chain[r], r \in Chain[q]
    PROVE  q = r
<1>1. q \in Roots /\ Slot[q] = Slot[r]
  <2>1. q \in Roots /\ Slot[q] \in Nat /\ Slot[r] \in Nat
    BY ChainStep
  <2>2. Slot[q] <= Slot[r] /\ Slot[r] <= Slot[q]
    BY <2>1, ChainIsClosed
  <2> QED BY <2>1, <2>2
<1>2. SUFFICES ASSUME q # r PROVE FALSE
  OBVIOUS
<1>3. r # Anchor /\ q \in Chain[Parent[r]]
  BY <1>2, ChainStep
<1>4. Parent[r] \in Roots /\ Slot[Parent[r]] < Slot[r] /\ Slot[Parent[r]] \in Nat /\ Slot[r] \in Nat
  BY <1>3, ChainStep
<1>5. Slot[q] <= Slot[Parent[r]]
  BY <1>3, <1>4, ChainIsClosed
<1> QED BY <1>1, <1>4, <1>5

(* The ancestors of a block are ancestors of each other. *)
LEMMA ChainIsLinear ==
    ASSUME NEW r \in Roots, NEW p \in Chain[r], NEW q \in Chain[r]
    PROVE  p \in Chain[q] \/ q \in Chain[p]
<1> DEFINE Linear(b) == \A x, y \in Chain[b] : x \in Chain[y] \/ y \in Chain[x]
           Odd == {b \in Roots : ~Linear(b)}
<1>1. SUFFICES ASSUME Odd # {} PROVE FALSE
  OBVIOUS
<1>2. PICK b \in Odd : \A c \in Odd : Slot[b] <= Slot[c]
  BY <1>1, FirstBlock, Zenon
<1>3. b # Anchor
  BY <1>2, ChainStep
<1>4. Parent[b] \in Roots /\ Slot[Parent[b]] < Slot[b] /\ Slot[b] \in Nat /\ Slot[Parent[b]] \in Nat
  BY <1>2, <1>3, ChainStep
<1>5. Linear(Parent[b])
  BY <1>2, <1>4
<1>6. Chain[b] = {b} \cup Chain[Parent[b]]
  BY <1>2, <1>3, ChainStep
<1> QED BY <1>2, <1>5, <1>6

-----------------------------------------------------------------------------
(* get_ancestor. *)

Stops(s, slot) == {r \in Roots \cup {Parent[Anchor]} : r \notin s.blocks \/ Slot[r] <= slot}
Up == [r \in Roots \cup {Parent[Anchor]} |-> IF r \in Roots THEN Parent[r] ELSE r]
Height == [r \in Roots \cup {Parent[Anchor]} |-> IF r \in Roots THEN Slot[r] + 1 ELSE 0]

LEMMA UpFalls ==
    ASSUME NEW s \in Store, NEW slot
    PROVE  /\ Up \in [Roots \cup {Parent[Anchor]} -> Roots \cup {Parent[Anchor]}]
           /\ Height \in [Roots \cup {Parent[Anchor]} -> Nat]
           /\ Stops(s, slot) \in SUBSET (Roots \cup {Parent[Anchor]})
           /\ \A r \in (Roots \cup {Parent[Anchor]}) \ Stops(s, slot) :
                 /\ r \in s.blocks /\ r \in Roots /\ Up[r] = Parent[r]
                 /\ Height[Up[r]] < Height[r]
<1>1. \A r \in Roots : Slot[r] \in Nat /\ Parent[r] \in Roots \cup {Parent[Anchor]}
  BY TreeAssumption
<1>2. Parent[Anchor] \notin Roots /\ s.blocks \subseteq Roots
  BY TreeAssumption DEF Store
<1>3. /\ Up \in [Roots \cup {Parent[Anchor]} -> Roots \cup {Parent[Anchor]}]
      /\ Height \in [Roots \cup {Parent[Anchor]} -> Nat]
  BY <1>1 DEF Up, Height
<1>4. Stops(s, slot) \in SUBSET (Roots \cup {Parent[Anchor]})
  BY DEF Stops
<1>5. ASSUME NEW r \in (Roots \cup {Parent[Anchor]}) \ Stops(s, slot)
      PROVE  r \in s.blocks /\ r \in Roots /\ Up[r] = Parent[r] /\ Height[Up[r]] < Height[r]
  <2>1. r \in s.blocks /\ r \in Roots
    BY <1>2 DEF Stops
  <2>2. Up[r] = Parent[r] /\ Height[r] = Slot[r] + 1
    BY <2>1 DEF Up, Height
  <2>3. CASE r = Anchor
    BY <1>1, <1>2, <2>1, <2>2, <2>3 DEF Height
  <2>4. CASE r # Anchor
    <3>1. Parent[r] \in Roots /\ Slot[Parent[r]] < Slot[r]
      BY <2>1, <2>4, TreeAssumption
    <3> QED BY <1>1, <2>1, <2>2, <3>1 DEF Height
  <2> QED BY <2>1, <2>2, <2>3, <2>4
<1> QED BY <1>3, <1>4, <1>5

(* The equation that the definition of get_ancestor is written as. *)
LEMMA GetAncestorRecurses ==
    ASSUME NEW s \in Store, NEW slot
    PROVE  \E f : /\ TailRecurses(f, Roots \cup {Parent[Anchor]}, Stops(s, slot), Up)
                  /\ \A root : GetAncestor(s, root, slot) = f[root]
<1> DEFINE D == Roots \cup {Parent[Anchor]}
           Fits(g) == g = [r \in D |-> IF r \notin s.blocks \/ Slot[r] <= slot THEN r ELSE g[Parent[r]]]
           up == CHOOSE g : Fits(g)
<1>1. \A g : Fits(g) <=> TailRecurses(g, D, Stops(s, slot), Up)
  <2>1. ASSUME NEW g, NEW r \in D
        PROVE  (IF r \notin s.blocks \/ Slot[r] <= slot THEN r ELSE g[Parent[r]])
             = (IF r \in Stops(s, slot) THEN r ELSE g[Up[r]])
    <3>1. CASE r \in Stops(s, slot)
      BY <3>1 DEF Stops
    <3>2. CASE r \notin Stops(s, slot)
      BY <3>2, UpFalls DEF Stops
    <3> QED BY <3>1, <3>2
  <2> QED BY <2>1 DEF TailRecurses
<1>2. \E g : TailRecurses(g, D, Stops(s, slot), Up)
  <2>1. /\ Up \in [D -> D] /\ Height \in [D -> Nat] /\ Stops(s, slot) \in SUBSET D
        /\ \A r \in D \ Stops(s, slot) : Height[Up[r]] < Height[r]
    BY UpFalls
  <2> HIDE DEF D
  <2> QED BY ONLY <2>1, TailRecursion
<1>3. Fits(up)
  <2>1. \E g : Fits(g)
    BY <1>1, <1>2
  <2> HIDE DEF Fits
  <2> QED BY <2>1
<1>4. \A root : GetAncestor(s, root, slot) = up[root]
  BY DEF GetAncestor
<1> HIDE DEF up, Fits
<1> QED BY <1>1, <1>3, <1>4

LEMMA GetAncestorStep ==
    ASSUME NEW s \in Store, NEW slot, NEW r \in Roots \cup {Parent[Anchor]}
    PROVE  GetAncestor(s, r, slot) = IF r \notin s.blocks \/ Slot[r] <= slot THEN r
                                     ELSE GetAncestor(s, Parent[r], slot)
<1>1. PICK f : /\ TailRecurses(f, Roots \cup {Parent[Anchor]}, Stops(s, slot), Up)
               /\ \A root : GetAncestor(s, root, slot) = f[root]
  BY GetAncestorRecurses
<1>2. f[r] = IF r \in Stops(s, slot) THEN r ELSE f[Up[r]]
  BY <1>1 DEF TailRecurses
<1>3. r \notin Stops(s, slot) => Up[r] = Parent[r]
  BY UpFalls
<1> QED BY <1>1, <1>2, <1>3 DEF Stops

(* get_ancestor ends at an ancestor, or above the anchor, where it had to stop. *)
LEMMA GetAncestorEnds ==
    ASSUME NEW s \in Store, NEW slot, NEW r \in Roots, NEW a, a = GetAncestor(s, r, slot)
    PROVE  /\ a \in Chain[r] \cup {Parent[Anchor]}
           /\ a \notin s.blocks \/ Slot[a] <= slot
<1>1. PICK f : /\ TailRecurses(f, Roots \cup {Parent[Anchor]}, Stops(s, slot), Up)
               /\ \A root : GetAncestor(s, root, slot) = f[root]
  BY GetAncestorRecurses
<1> DEFINE D == Roots \cup {Parent[Anchor]}
           P == Chain[r] \cup {Parent[Anchor]}
           T == Stops(s, slot)
<1>2. P \in SUBSET D /\ r \in P
  BY ChainStep
<1>3. \A x \in P \ T : Up[x] \in P
  <2>1. ASSUME NEW x \in P \ T PROVE Up[x] \in P
    <3>1. x \in Roots /\ Up[x] = Parent[x] /\ x \in Chain[r]
      BY <1>2, UpFalls, TreeAssumption
    <3>2. CASE x = Anchor
      BY <3>1, <3>2
    <3>3. CASE x # Anchor
      <4>1. Parent[x] \in Chain[x]
        BY <3>1, <3>3, ChainStep
      <4>2. Chain[x] \subseteq Chain[r]
        BY <3>1, ChainIsClosed
      <4> QED BY <3>1, <4>1, <4>2
    <3> QED BY <3>2, <3>3
  <2> QED BY <2>1
<1>4. /\ Up \in [D -> D] /\ Height \in [D -> Nat] /\ T \in SUBSET D
      /\ \A x \in D \ T : Height[Up[x]] < Height[x]
      /\ TailRecurses(f, D, T, Up)
  BY <1>1, UpFalls
<1> HIDE DEF D, P, T
<1>5. f[r] \in T \cap P
  BY ONLY <1>2, <1>3, <1>4, TailRecursionEnds
<1> QED BY <1>1, <1>5 DEF P, T, Stops

-----------------------------------------------------------------------------
(* filter_block_tree. *)

(* A block is viable when the blocks from it to some viable leaf are in the store and none of *)
(* them is INVALID.                                                                           *)
LeadsTo(s, r, l) ==
    /\ l \in s.blocks /\ r \in Chain[l] /\ Children(s, l) = {} /\ ViableLeaf(s, l)
    /\ \A q \in Chain[l] : r \in Chain[q] => q \in s.blocks /\ s.status[q] # "Invalid"

Viable(s, r) == \E l \in s.blocks : LeadsTo(s, r, l)

LEMMA ChildOf ==
    ASSUME NEW s \in Store, NEW r \in s.blocks, NEW c \in Children(s, r)
    PROVE  /\ c \in s.blocks /\ c \in Roots /\ r \in Roots /\ Parent[c] = r /\ c # Anchor
           /\ Chain[c] = {c} \cup Chain[r] /\ r \in Chain[c] /\ Slot[r] < Slot[c]
<1>1. c \in s.blocks /\ Parent[c] = r /\ s.blocks \subseteq Roots
  BY DEF Children, Store
<1>2. c # Anchor
  BY <1>1, TreeAssumption
<1> QED BY <1>1, <1>2, ChainStep

LEMMA ViableStep ==
    ASSUME NEW s \in Store, NEW r \in s.blocks
    PROVE  Viable(s, r) <=> /\ s.status[r] # "Invalid"
                            /\ IF Children(s, r) = {} THEN ViableLeaf(s, r)
                                                      ELSE \E c \in Children(s, r) : Viable(s, c)
<1> DEFINE Rhs == /\ s.status[r] # "Invalid"
                  /\ IF Children(s, r) = {} THEN ViableLeaf(s, r)
                                            ELSE \E c \in Children(s, r) : Viable(s, c)
<1>0. s.blocks \subseteq Roots /\ r \in Roots /\ r \in Chain[r]
  BY ChainStep DEF Store
<1>1. ASSUME Viable(s, r) PROVE Rhs
  <2>1. PICK l \in s.blocks : LeadsTo(s, r, l)
    BY <1>1 DEF Viable
  <2>2. /\ l \in Roots /\ r \in Chain[l] /\ Children(s, l) = {} /\ ViableLeaf(s, l)
        /\ \A q \in Chain[l] : r \in Chain[q] => q \in s.blocks /\ s.status[q] # "Invalid"
    BY <1>0, <2>1 DEF LeadsTo
  <2>3. s.status[r] # "Invalid"
    BY <1>0, <2>2
  <2>4. CASE l = r
    BY <2>2, <2>3, <2>4
  <2>5. CASE l # r
    <3>1. PICK c \in Chain[l] \ Chain[r] : c # Anchor /\ Parent[c] = r
      BY <2>2, <2>5, ChildOnChain
    <3>2. c \in Roots /\ r \in Chain[c]
      BY <1>0, <2>2, <3>1, ChainStep
    <3>3. c \in s.blocks /\ c \in Children(s, r)
      BY <2>2, <3>1, <3>2 DEF Children
    <3>4. ASSUME NEW q \in Chain[l], c \in Chain[q] PROVE r \in Chain[q]
      BY <2>2, <3>2, <3>4, ChainStep, ChainIsClosed
    <3>5. LeadsTo(s, c, l)
      BY <2>1, <2>2, <3>1, <3>4 DEF LeadsTo
    <3>6. Viable(s, c)
      BY <2>1, <3>5 DEF Viable
    <3> QED BY <2>3, <3>3, <3>6
  <2> QED BY <2>4, <2>5
<1>2. ASSUME Rhs, Children(s, r) = {} PROVE Viable(s, r)
  <2>1. LeadsTo(s, r, r)
    BY <1>0, <1>2, ChainAntisymmetric DEF LeadsTo
  <2> QED BY <2>1 DEF Viable
<1>3. ASSUME Rhs, Children(s, r) # {} PROVE Viable(s, r)
  <2>1. PICK c \in Children(s, r) : Viable(s, c)
    BY <1>3
  <2>2. PICK l \in s.blocks : LeadsTo(s, c, l)
    BY <2>1 DEF Viable
  <2>3. /\ c \in s.blocks /\ c \in Roots /\ Parent[c] = r /\ Chain[c] = {c} \cup Chain[r] /\ r \in Chain[c]
    BY ChildOf
  <2>4. /\ l \in Roots /\ c \in Chain[l] /\ Children(s, l) = {} /\ ViableLeaf(s, l)
        /\ \A q \in Chain[l] : c \in Chain[q] => q \in s.blocks /\ s.status[q] # "Invalid"
    BY <1>0, <2>2 DEF LeadsTo
  <2>5. r \in Chain[l]
    BY <2>3, <2>4, ChainIsClosed
  <2>6. ASSUME NEW q \in Chain[l], r \in Chain[q] PROVE q \in s.blocks /\ s.status[q] # "Invalid"
    <3>1. CASE c \in Chain[q]
      BY <2>4, <3>1
    <3>2. CASE c \notin Chain[q]
      <4>1. q \in Roots /\ q \in Chain[c]
        BY <2>4, <3>2, ChainIsLinear, ChainStep
      <4>2. q # c
        BY <2>3, <3>2, ChainStep
      <4>3. q \in Chain[r]
        BY <2>3, <4>1, <4>2
      <4>4. q = r
        BY <1>0, <2>6, <4>1, <4>3, ChainAntisymmetric
      <4> QED BY <1>3, <4>4
    <3> QED BY <3>1, <3>2
  <2>7. LeadsTo(s, r, l)
    BY <2>2, <2>4, <2>5, <2>6 DEF LeadsTo
  <2> QED BY <2>7 DEF Viable
<1> HIDE DEF Rhs
<1>4. Viable(s, r) <=> Rhs
  BY <1>1, <1>2, <1>3
<1> QED BY <1>4 DEF Rhs

(* The blocks that filter_block_tree keeps: none is INVALID, and each has a kept child unless *)
(* it is a viable leaf.                                                                       *)
LEMMA FilterBlockTreeStep ==
    ASSUME NEW s \in Store, NEW r \in s.blocks
    PROVE  r \in FilterBlockTree(s) <=>
               /\ s.status[r] # "Invalid"
               /\ IF Children(s, r) = {} THEN ViableLeaf(s, r)
                                         ELSE Children(s, r) \cap FilterBlockTree(s) # {}
<1> DEFINE Fits(g) == g = [q \in s.blocks |->
                /\ s.status[q] # "Invalid"
                /\ IF Children(s, q) = {} THEN ViableLeaf(s, q) ELSE \E c \in Children(s, q) : g[c]]
           viable == CHOOSE g : Fits(g)
           v == [q \in s.blocks |-> Viable(s, q)]
<1>1. Fits(v)
  <2>1. ASSUME NEW q \in s.blocks
        PROVE  Viable(s, q) = (/\ s.status[q] # "Invalid"
                               /\ IF Children(s, q) = {} THEN ViableLeaf(s, q)
                                                         ELSE \E c \in Children(s, q) : v[c])
    <3>1. \A c \in Children(s, q) : v[c] = Viable(s, c)
      BY DEF Children
    <3> HIDE DEF v
    <3>2. (\E c \in Children(s, q) : v[c]) <=> \E c \in Children(s, q) : Viable(s, c)
      BY <3>1
    <3> DEFINE Rhs == /\ s.status[q] # "Invalid"
                      /\ IF Children(s, q) = {} THEN ViableLeaf(s, q) ELSE \E c \in Children(s, q) : v[c]
    <3>3. Viable(s, q) <=> Rhs
      BY <3>2, ViableStep
    <3>4. Viable(s, q) \in BOOLEAN
      BY DEF Viable
    <3> HIDE DEF Rhs
    <3>5. Viable(s, q) = Rhs
      BY <3>3, <3>4 DEF Rhs
    <3> QED BY <3>5 DEF Rhs
  <2> QED BY <2>1, Zenon
<1>2. Fits(viable)
  <2>1. \E g : Fits(g)
    BY <1>1
  <2> HIDE DEF Fits
  <2> QED BY <2>1
<1>3. FilterBlockTree(s) = {q \in s.blocks : viable[q]}
  BY DEF FilterBlockTree
<1> HIDE DEF viable
<1>4. viable[r] = (/\ s.status[r] # "Invalid"
                   /\ IF Children(s, r) = {} THEN ViableLeaf(s, r) ELSE \E c \in Children(s, r) : viable[c])
  BY <1>2, Zenon
<1>5. (\E c \in Children(s, r) : viable[c]) <=> Children(s, r) \cap FilterBlockTree(s) # {}
  BY <1>3 DEF Children
<1> HIDE DEF Fits
<1> QED BY <1>3, <1>4, <1>5

-----------------------------------------------------------------------------
(* get_head. *)

LEMMA WeightIsNatural == ASSUME NEW s, NEW r PROVE GetWeight(s, r) \in Nat
<1> DEFINE counts(v) == /\ s.latest[v] # NoVote
                        /\ v \notin s.equivocating
                        /\ GetAncestor(s, s.latest[v].root, Slot[r]) = r
           V == {v \in Validators : counts(v)}
<1>1. IsFiniteSet(V) /\ \A v \in V : Balance[v] \in Nat
  <2>1. V \subseteq Validators
    OBVIOUS
  <2> HIDE DEF V
  <2> QED BY <2>1, FS_Subset, WeightAssumption
<1>2. GetAttestationScore(s, r) = SumOf(Balance, V)
  BY DEF GetAttestationScore, SumOf
<1>3. GetAttestationScore(s, r) \in Nat
  <2> HIDE DEF V
  <2> QED BY <1>1, <1>2, SumIsNatural
<1> QED BY <1>3, WeightAssumption DEF GetWeight

(* Among finitely many children there is a heaviest one: roots break the ties. *)
LEMMA HeaviestExists ==
    ASSUME NEW s, NEW C \in SUBSET Roots, IsFiniteSet(C), C # {}
    PROVE  Heaviest(s, C) \in C
<1> DEFINE w == [r \in C |-> GetWeight(s, r)]
<1>1. w \in [C -> Nat] /\ \A r \in C : w[r] = GetWeight(s, r)
  BY WeightIsNatural
<1>2. PICK m \in C : \A y \in C : w[y] <= w[m]
  <2> HIDE DEF w
  <2> QED BY <1>1, GreatestWeight
<1> DEFINE M == {r \in C : w[r] = w[m]}
           root == [r \in M |-> r]
<1>3. M # {} /\ IsFiniteSet(M) /\ M \subseteq C
  <2>1. M \subseteq C /\ m \in M
    OBVIOUS
  <2> HIDE DEF M
  <2> QED BY <2>1, FS_Subset
<1>4. root \in [M -> Nat]
  BY TreeAssumption, Zenon
<1>5. PICK h \in M : \A y \in M : root[y] <= root[h]
  <2> HIDE DEF M, root
  <2> QED BY <1>3, <1>4, GreatestWeight
<1>6. \A y \in M : y <= h
  BY <1>5
<1>7. h \in C /\ w[h] = w[m]
  BY <1>5
<1>8. ASSUME NEW q \in C \ {h}
      PROVE  GetWeight(s, q) < GetWeight(s, h) \/ (GetWeight(s, q) = GetWeight(s, h) /\ q < h)
  <2>1. q \in Nat /\ h \in Nat /\ w[q] \in Nat /\ w[h] \in Nat
    BY <1>1, <1>7, TreeAssumption
  <2>2. w[q] <= w[h] /\ w[q] = GetWeight(s, q) /\ w[h] = GetWeight(s, h)
    BY <1>1, <1>2, <1>7
  <2>3. w[q] = w[h] => q <= h
    BY <1>6, <1>7
  <2> HIDE DEF w
  <2> QED BY <2>1, <2>2, <2>3
<1> DEFINE Top(r) ==
               \A q \in C \ {r} :
                   \/ GetWeight(s, q) < GetWeight(s, r)
                   \/ GetWeight(s, q) = GetWeight(s, r) /\ q < r
<1>9. Top(h)
  BY <1>8
<1>10. Heaviest(s, C) = CHOOSE r \in C : Top(r)
  BY DEF Heaviest
<1> HIDE DEF Top
<1> QED BY <1>7, <1>9, <1>10

(* get_head goes down from the base through blocks that filter_block_tree has kept, to one    *)
(* without a kept child.                                                                      *)
LEMMA GetHeadDescends ==
    ASSUME NEW s \in Store, IsFiniteSet(s.blocks), NEW base, base = EffectiveBase(s),
           NEW head, head = GetHead(s), NEW tree, tree = FilterBlockTree(s)
    PROVE  /\ base \notin tree => head = base
           /\ base \in tree => /\ head \in tree /\ base \in Chain[head]
                               /\ Children(s, head) \cap tree = {}
                               /\ \A q \in Chain[head] : base \in Chain[q] => q \in tree
<1> DEFINE D == s.blocks
           C(r) == Children(s, r) \cap tree
           T == {r \in D : C(r) = {}}
           nxt == [r \in D |-> IF C(r) = {} THEN r ELSE Heaviest(s, C(r))]
           Fits(g) == g = [r \in D |-> IF C(r) = {} THEN r ELSE g[Heaviest(s, C(r))]]
           down == CHOOSE g : Fits(g)
<1>1. GetHead(s) = IF base \in tree THEN down[base] ELSE base
  BY DEF GetHead
<1>2. SUFFICES ASSUME base \in tree
               PROVE  /\ head \in tree /\ base \in Chain[head]
                      /\ Children(s, head) \cap tree = {}
                      /\ \A q \in Chain[head] : base \in Chain[q] => q \in tree
  BY <1>1
<1>3. head = down[base]
  BY <1>1, <1>2
<1>4. D \subseteq Roots /\ tree \subseteq D
  BY DEF Store, FilterBlockTree
<1>5. ASSUME NEW r \in D, C(r) # {}
      PROVE  /\ Heaviest(s, C(r)) \in C(r) /\ nxt[r] = Heaviest(s, C(r))
             /\ nxt[r] \in D /\ nxt[r] \in tree /\ nxt[r] \in Children(s, r)
             /\ Slot[r] < Slot[nxt[r]] /\ Chain[nxt[r]] = {nxt[r]} \cup Chain[r]
  <2>1. C(r) \subseteq Roots /\ IsFiniteSet(C(r))
    <3>1. C(r) \subseteq D
      BY <1>4
    <3> HIDE DEF C
    <3> QED BY <1>4, <3>1, FS_Subset
  <2>2. Heaviest(s, C(r)) \in C(r)
    <3> HIDE DEF C
    <3> QED BY <1>5, <2>1, HeaviestExists
  <2>3. nxt[r] = Heaviest(s, C(r))
    BY <1>5
  <2>4. nxt[r] \in tree /\ nxt[r] \in Children(s, r)
    BY <2>2, <2>3
  <2> HIDE DEF nxt, C
  <2> QED BY <1>4, <2>2, <2>3, <2>4, ChildOf
<1>6. PICK top \in D : \A r \in D : Slot[r] <= Slot[top]
  <2> DEFINE w == [r \in D |-> Slot[r]]
  <2>1. w \in [D -> Nat] /\ D # {}
    BY <1>2, <1>4, TreeAssumption, Zenon
  <2>2. PICK m \in D : \A r \in D : w[r] <= w[m]
    <3> HIDE DEF w, D
    <3>1. IsFiniteSet(D)
      BY DEF D
    <3> QED BY <2>1, <3>1, GreatestWeight
  <2> QED BY <2>2
<1> DEFINE rank == [r \in D |-> Slot[top] - Slot[r]]
<1>7. \A r \in D : Slot[r] \in Nat /\ rank[r] = Slot[top] - Slot[r]
  BY <1>4, TreeAssumption
<1>8. rank \in [D -> Nat]
  <2>1. \A r \in D : Slot[top] - Slot[r] \in Nat
    <3> HIDE DEF D, rank
    <3> QED BY <1>6, <1>7
  <2> HIDE DEF D
  <2> QED BY <2>1
<1>9. nxt \in [D -> D] /\ T \in SUBSET D
  <2>1. ASSUME NEW r \in D PROVE nxt[r] \in D
    BY <1>5
  <2>2. nxt = [r \in D |-> nxt[r]]
    OBVIOUS
  <2>3. T \in SUBSET D
    OBVIOUS
  <2> HIDE DEF nxt, T, D
  <2> QED BY <2>1, <2>2, <2>3
<1>10. \A r \in D \ T : rank[nxt[r]] < rank[r]
  <2>1. ASSUME NEW r \in D \ T PROVE rank[nxt[r]] < rank[r]
    <3>1. r \in D /\ C(r) # {}
      OBVIOUS
    <3>2. nxt[r] \in D /\ Slot[r] < Slot[nxt[r]]
      BY <1>5, <3>1
    <3> HIDE DEF nxt, rank, D, T
    <3> QED BY ONLY <1>6, <1>7, <3>1, <3>2
  <2> QED BY <2>1
<1>11. \A g : Fits(g) <=> TailRecurses(g, D, T, nxt)
  <2>1. ASSUME NEW g, NEW r \in D
        PROVE  (IF C(r) = {} THEN r ELSE g[Heaviest(s, C(r))]) = (IF r \in T THEN r ELSE g[nxt[r]])
    BY <1>5, Zenon
  <2> HIDE DEF C, nxt, T, D
  <2> QED BY <2>1 DEF TailRecurses
<1>12. TailRecurses(down, D, T, nxt)
  <2>1. \E g : TailRecurses(g, D, T, nxt)
    <3> HIDE DEF D, T, nxt, rank
    <3> QED BY ONLY <1>8, <1>9, <1>10, TailRecursion
  <2>2. \E g : Fits(g)
    <3> HIDE DEF Fits, D, T, nxt
    <3> QED BY <1>11, <2>1
  <2>3. Fits(down)
    <3> HIDE DEF Fits
    <3> QED BY <2>2
  <2> HIDE DEF Fits, down, D, T, nxt
  <2> QED BY <1>11, <2>3
<1> DEFINE P == {r \in tree : base \in Chain[r] /\ \A q \in Chain[r] : base \in Chain[q] => q \in tree}
<1>13. P \in SUBSET D /\ base \in P
  <2>1. base \in Roots /\ base \in Chain[base]
    BY <1>2, <1>4, ChainStep
  <2>2. \A q \in Chain[base] : base \in Chain[q] => q = base
    BY <2>1, ChainAntisymmetric
  <2> QED BY <1>2, <1>4, <2>1, <2>2
<1>14. \A r \in P \ T : nxt[r] \in P
  <2>1. ASSUME NEW r \in P \ T PROVE nxt[r] \in P
    <3>1. r \in D /\ C(r) # {} /\ base \in Chain[r]
      BY <1>4
    <3>2. nxt[r] \in tree /\ Chain[nxt[r]] = {nxt[r]} \cup Chain[r]
      BY <1>5, <3>1
    <3> HIDE DEF nxt, C, D
    <3> QED BY <3>1, <3>2
  <2> QED BY <2>1
<1>15. down[base] \in T \cap P
  <2> HIDE DEF D, T, P, nxt, rank, down
  <2> QED BY ONLY <1>8, <1>9, <1>10, <1>12, <1>13, <1>14, TailRecursionEnds
<1> HIDE DEF down
<1> QED BY <1>3, <1>15
=============================================================================
