------------------------- MODULE EngineDriverProofs -------------------------
(***************************************************************************)
(* For every tree of blocks, every set of bad payloads, any number of      *)
(* importers and any size of the payload channel: the verdicts in the      *)
(* fork-choice store are those of the execution layer, and the head, safe  *)
(* and finalized blocks that an importer computes are one chain.           *)
(*                                                                         *)
(* What the driver holds between the answer and the write lock is part of  *)
(* the invariant: an INVALID answer is about a condemned block, and its    *)
(* latest valid hash, if there is one, is that of the last good ancestor.  *)
(* The store may have lost blocks in between; the walk over what is left   *)
(* still ends at a condemned block.  For the head changes the invariant    *)
(* says that what is missing below a block of the store lies at or below   *)
(* the freezer's split: no gap above the finalized block.                  *)
(***************************************************************************)
EXTENDS EngineDriver, ForkChoiceStoreProofs

Place(w) ==
    \/ w = Idle
    \/ w \in [at : {"checked", "inserted", "sent"}, root : Roots]
    \/ w.at = "computed" /\ w.root \in Roots

ImporterOK == \A i \in Importers : Place(importer[i])

DriverOK ==
    /\ driver.at = "newPayload" => driver.root \in Roots
    /\ driver.at = "invalid" => /\ Condemned(driver.root)
                                /\ driver.lvh \in {Null} \cup LatestValidHash(driver.root)

IInv ==
    /\ store \in Store
    /\ importer = [i \in Importers |-> importer[i]] /\ ImporterOK
    /\ queue \in Seq(Roots)
    /\ DriverOK
    /\ VerdictsAreTrue

Verdicts(status) ==
    \A r \in Roots : /\ status[r] = "Valid" => ~Condemned(r)
                     /\ status[r] = "Invalid" => Condemned(r)

-----------------------------------------------------------------------------
(* The operators. *)

(* Verdicts are inherited: INVALID by descendants, VALID by ancestors. *)
LEMMA CondemnedDescends ==
    ASSUME NEW r \in Roots, NEW q \in Roots, r \in Chain[q], Condemned(r)
    PROVE  Condemned(q)
BY ChainIsClosed DEF Condemned

LEMMA AnchorIsGood == ~Condemned(Anchor)
BY TreeAssumption, DriverAssumption DEF Condemned

(* resolve_invalid_block ends at a condemned block, whatever the store has lost. *)
LEMMA ResolvedIsCondemned ==
    ASSUME NEW s \in Store, NEW r \in Roots, Condemned(r), NEW lvh \in {Null} \cup LatestValidHash(r)
    PROVE  Condemned(ResolveInvalidBlock(s, r, lvh))
<1> DEFINE walk == WalkBack(s, r)
<1>1. lvh # Zero
  BY ChainStep, TreeAssumption DEF LatestValidHash, Null, Zero
<1>2. CASE lvh \in walk \ {r}
  <2>1. lvh \in Chain[r] /\ lvh # r /\ lvh \in Roots
    BY <1>2, ChainStep DEF WalkBack
  <2>2. PICK c \in Chain[r] \ Chain[lvh] : c # Anchor /\ Parent[c] = lvh
    BY <2>1, ChildOnChain
  <2>3. c \in Roots /\ Chain[c] = {c} \cup Chain[lvh]
    BY <2>2, ChainStep
  <2>4. c \in walk
    <3>1. Chain[r] \ Chain[lvh] \subseteq s.blocks
      BY <1>2 DEF WalkBack
    <3> QED BY <2>2, <2>3, <3>1 DEF WalkBack
  <2>5. lvh # Null
    BY <2>1, TreeAssumption DEF Null
  <2>6. PICK d \in Chain[r] : Parent[d] = lvh /\ Condemned(d)
    BY <2>5 DEF LatestValidHash
  <2>7. ASSUME NEW q \in walk, Parent[q] = lvh PROVE q = d
    <3>1. q # Anchor /\ d # Anchor
      BY <2>1, <2>6, <2>7, TreeAssumption
    <3> QED BY <2>6, <2>7, <3>1, OneChildOnChain DEF WalkBack
  <2>8. ResolveInvalidBlock(s, r, lvh) = CHOOSE q \in walk : Parent[q] = lvh
    BY <1>1, <1>2 DEF ResolveInvalidBlock
  <2> HIDE DEF walk
  <2>9. (CHOOSE q \in walk : Parent[q] = lvh) = d
    BY <2>2, <2>4, <2>7
  <2> QED BY <2>6, <2>8, <2>9, Zenon
<1>3. CASE lvh \notin walk \ {r}
  <2>1. ResolveInvalidBlock(s, r, lvh) = r
    BY <1>1, <1>3 DEF ResolveInvalidBlock
  <2> QED BY <2>1
<1> QED BY <1>2, <1>3

LEMMA InvalidateKeepsVerdicts ==
    ASSUME NEW s \in Store, NEW x, Condemned(x), Verdicts(s.status)
    PROVE  InvalidateFrom(s, x) \in Store /\ Verdicts(InvalidateFrom(s, x).status)
<1> DEFINE hit(q) == x \in Chain[q] /\ Chain[q] \ Chain[x] \subseteq s.blocks
           t == [q \in Roots |-> IF hit(q) THEN "Invalid" ELSE s.status[q]]
<1>1. x \in Roots
  BY DEF Condemned
<1>2. \A q \in Roots : hit(q) => Condemned(q)
  BY <1>1, CondemnedDescends
<1>3. InvalidateFrom(s, x) = [s EXCEPT !.status = t]
  BY DEF InvalidateFrom, Store
<1> HIDE DEF hit
<1>4. t \in [Roots -> Statuses]
  BY DEF Store, Statuses
<1>5. Verdicts(t)
  BY <1>2 DEF Verdicts
<1> HIDE DEF t
<1>6. InvalidateFrom(s, x) \in Store /\ InvalidateFrom(s, x).status = t
  BY <1>3, <1>4 DEF Store
<1> QED BY <1>5, <1>6 DEF Verdicts

LEMMA PromoteKeepsVerdicts ==
    ASSUME NEW s \in Store, NEW x \in Roots, ~Condemned(x), Verdicts(s.status)
    PROVE  PromoteValidAncestors(s, x) \in Store /\ Verdicts(PromoteValidAncestors(s, x).status)
<1> DEFINE undecided == {r \in Roots : s.status[r] \in {"None", "NotValidated"}}
           hit(r) == /\ r \in Chain[x] /\ Chain[x] \ Chain[r] \subseteq s.blocks
                     /\ {r} \cup (Chain[x] \ Chain[r]) \subseteq undecided
           t == [r \in Roots |-> IF hit(r) THEN "Valid" ELSE s.status[r]]
<1>1. \A q \in Roots : hit(q) => ~Condemned(q)
  BY CondemnedDescends
<1>2. PromoteValidAncestors(s, x) = [s EXCEPT !.status = t]
  BY DEF PromoteValidAncestors, Store
<1> HIDE DEF hit
<1>3. t \in [Roots -> Statuses]
  BY DEF Store, Statuses
<1>4. Verdicts(t)
  BY <1>1 DEF Verdicts
<1> HIDE DEF t
<1>5. PromoteValidAncestors(s, x) \in Store /\ PromoteValidAncestors(s, x).status = t
  BY <1>2, <1>3, Zenon DEF Store
<1> QED BY <1>4, <1>5 DEF Verdicts

LEMMA MarkKeepsVerdicts ==
    ASSUME NEW s \in Store, NEW x \in Roots, NEW v \in Statuses, Verdicts(s.status),
           v = "Valid" => ~Condemned(x), v # "Invalid"
    PROVE  MarkPayloadStatus(s, x, v) \in Store /\ Verdicts(MarkPayloadStatus(s, x, v).status)
<1> DEFINE t == [s.status EXCEPT ![x] = v]
<1>1. MarkPayloadStatus(s, x, v) = [s EXCEPT !.status = t]
  BY DEF MarkPayloadStatus, Store
<1>2. t \in [Roots -> Statuses] /\ Verdicts(t)
  BY DEF Store, Verdicts
<1> HIDE DEF t
<1>3. MarkPayloadStatus(s, x, v) \in Store /\ MarkPayloadStatus(s, x, v).status = t
  BY <1>1, <1>2 DEF Store
<1> QED BY <1>2, <1>3 DEF Verdicts

LEMMA SeedKeepsVerdicts ==
    ASSUME NEW s \in Store, NEW x \in Roots, Verdicts(s.status)
    PROVE  /\ MarkPayloadStatusIfAbsent(s, x) \in Store
           /\ Verdicts(MarkPayloadStatusIfAbsent(s, x).status)
<1> DEFINE t == [s.status EXCEPT ![x] = IF @ = "None" THEN "NotValidated" ELSE @]
<1>1. MarkPayloadStatusIfAbsent(s, x) = [s EXCEPT !.status = t]
  BY DEF MarkPayloadStatusIfAbsent, Store
<1>2. t \in [Roots -> Statuses] /\ Verdicts(t)
  BY DEF Store, Verdicts, Statuses
<1> HIDE DEF t
<1>3. MarkPayloadStatusIfAbsent(s, x) \in Store /\ MarkPayloadStatusIfAbsent(s, x).status = t
  BY <1>1, <1>2, Zenon DEF Store
<1> QED BY <1>2, <1>3 DEF Verdicts

(* on_tick touches no verdict; on_block only seeds the one of its block. *)
LEMMA OnTickStatus ==
    ASSUME NEW s \in Store, NEW t \in Nat
    PROVE  OnTick(s, t) \in Store /\ OnTick(s, t).status = s.status
<1> DEFINE crossed == (s.time + 1)..t
           v == [s EXCEPT !.time = t, !.boost = IF crossed = {} THEN @ ELSE Zero]
<1>1. v \in Store /\ v.status = s.status
  BY DEF Store
<1>2. OnTick(s, t) \in Store
  BY CrossSlotsFields DEF OnTick
<1>3. OnTick(s, t) \in {v, UpdateCheckpoints(v, v.unrealizedJ, v.unrealizedF)}
  BY DEF OnTick, CrossSlots
<1> HIDE DEF v
<1>4. UpdateCheckpoints(v, v.unrealizedJ, v.unrealizedF).status = v.status
  BY <1>1 DEF UpdateCheckpoints, Store
<1> QED BY <1>1, <1>2, <1>3, <1>4

LEMMA OnBlockKeepsVerdicts ==
    ASSUME NEW s \in Store, NEW r \in Roots, NEW now, NEW elected, Verdicts(s.status)
    PROVE  /\ OnBlock(s, r, now, elected) \in Store
           /\ Verdicts(OnBlock(s, r, now, elected).status)
<1> DEFINE i == InsertBlock(s, r)
           b == UpdateProposerBoostRoot(i, r, now, elected)
           c == UpdateCheckpoints(b, Justified[r], Finalized[r])
           d == UpdateUnrealizedCheckpoints(c, UnrealizedJ[r], UnrealizedF[r])
           e == UpdateCheckpoints(d, UnrealizedJ[r], UnrealizedF[r])
           t == [s.status EXCEPT ![r] = IF @ = "None" THEN "NotValidated" ELSE @]
<1>1. Verdicts(t)
  BY DEF Store, Verdicts, Statuses
<1>2. i \in Store /\ i.status = t
  BY DEF Store, InsertBlock, Statuses
<1> HIDE DEF i, t
<1>3. b \in Store /\ b.status = t
  BY <1>2 DEF Store, UpdateProposerBoostRoot
<1> HIDE DEF b
<1>4. c \in Store /\ c.status = t
  <2>1. c \in Store
    BY <1>3, UpdateCheckpointsStates, BlockCheckpoints
  <2> QED BY <1>3, <2>1 DEF UpdateCheckpoints, Store
<1> HIDE DEF c
<1>5. d \in Store /\ d.status = t
  <2>1. d \in Store
    BY <1>4, UpdateCheckpointsStates, BlockCheckpoints
  <2> QED BY <1>4, <2>1 DEF UpdateUnrealizedCheckpoints, Store
<1> HIDE DEF d
<1>6. e.status = t
  BY <1>5 DEF UpdateCheckpoints, Store
<1> HIDE DEF e
<1>7. OnBlock(s, r, now, elected) \in {d, e}
  BY DEF OnBlock, ComputePulledUpTip, i, b, c, d, e
<1>8. OnBlock(s, r, now, elected) \in Store
  BY OnBlockFields
<1> QED BY <1>1, <1>5, <1>6, <1>7, <1>8

-----------------------------------------------------------------------------
(* What forkchoiceUpdated is told. *)

(* latest_verified_ancestor goes up as long as the block is optimistic and its parent is there. *)
Unverified(s, r) == IsOptimistic(s, r) /\ Parent[r] # Zero

LEMMA LatestVerifiedAncestorStep ==
    ASSUME NEW s \in Store, NEW r \in Roots \cup {Parent[Anchor]}
    PROVE  LatestVerifiedAncestor(s, r) =
               IF ~Unverified(s, r) THEN r
               ELSE IF Parent[r] \notin s.blocks THEN s.finalized.root
               ELSE LatestVerifiedAncestor(s, Parent[r])
<1> DEFINE D == Roots \cup {Parent[Anchor]}
           F == s.finalized.root
           Fits(g) == g = [q \in D |-> IF ~IsOptimistic(s, q) \/ Parent[q] = Zero THEN q
                                       ELSE IF Parent[q] \notin s.blocks THEN F
                                       ELSE g[Parent[q]]]
           V == D \cup {F}
           T == {q \in D : Unverified(s, q) => Parent[q] \notin s.blocks}
           val == [q \in D |-> IF Unverified(s, q) THEN F ELSE q]
           step == [q \in D |-> [v \in V |-> v]]
           up == CHOOSE g : Fits(g)
<1>1. \A q \in D \ T : /\ q \in s.blocks /\ q \in Roots /\ Unverified(s, q) /\ Parent[q] \in s.blocks
                       /\ Up[q] = Parent[q] /\ Height[Up[q]] < Height[q]
  <2> SUFFICES ASSUME NEW q \in D \ T
               PROVE  /\ q \in s.blocks /\ q \in Roots /\ Unverified(s, q) /\ Parent[q] \in s.blocks
                      /\ Up[q] = Parent[q] /\ Height[Up[q]] < Height[q]
    OBVIOUS
  <2>1. q \in s.blocks /\ Unverified(s, q) /\ Parent[q] \in s.blocks /\ s.blocks \subseteq Roots
    BY DEF Unverified, IsOptimistic, Store
  <2>2. q # Anchor
    BY <2>1, TreeAssumption
  <2>3. Slot[q] \in Nat /\ Slot[Parent[q]] < Slot[q] /\ Slot[Parent[q]] \in Nat
    BY <2>1, <2>2, ChainStep
  <2> QED BY <2>1, <2>3 DEF Up, Height
<1>2. \E g : Fits(g)
  <2>1. /\ Up \in [D -> D] /\ Height \in [D -> Nat] /\ T \in SUBSET D /\ val \in [D -> V]
        /\ step \in [D -> [V -> V]] /\ \A q \in D \ T : Height[Up[q]] < Height[q]
    BY <1>1, UpFalls
  <2>2. PICK g : Recurses(g, D, T, val, step, Up)
    <3> HIDE DEF D, T, V, val, step
    <3> QED BY ONLY <2>1, Recursion
  <2>3. g \in [D -> V]
    <3> HIDE DEF D, T, V, val, step
    <3> QED BY ONLY <2>1, <2>2, RecursionType, Zenon
  <2>4. ASSUME NEW q \in D
        PROVE  (IF q \in T THEN val[q] ELSE step[q][g[Up[q]]])
             = (IF ~IsOptimistic(s, q) \/ Parent[q] = Zero THEN q
                ELSE IF Parent[q] \notin s.blocks THEN F ELSE g[Parent[q]])
    <3>1. CASE q \in T
      BY <3>1 DEF Unverified
    <3>2. CASE q \notin T
      <4>1. g[Up[q]] \in V
        BY <2>1, <2>3
      <4>2. step[q][g[Up[q]]] = g[Up[q]]
        BY <4>1
      <4> QED BY <1>1, <3>2, <4>2 DEF Unverified
    <3> QED BY <3>1, <3>2
  <2>5. Fits(g)
    <3> HIDE DEF D, T, V, val, step, F
    <3> QED BY <2>2, <2>4 DEF Recurses
  <2> QED BY <2>5
<1>3. Fits(up)
  <2> HIDE DEF Fits
  <2> QED BY <1>2
<1>4. \A root : LatestVerifiedAncestor(s, root) = up[root]
  BY DEF LatestVerifiedAncestor
<1> HIDE DEF up
<1>5. up[r] = IF ~IsOptimistic(s, r) \/ Parent[r] = Zero THEN r
              ELSE IF Parent[r] \notin s.blocks THEN F ELSE up[Parent[r]]
  BY <1>3
<1> QED BY <1>4, <1>5 DEF Unverified

(* It ends at an ancestor or at the finalized root, and does not leave the store. *)
LEMMA LatestVerifiedAncestorEnds ==
    ASSUME NEW s \in Store, NEW r \in Roots, NEW a, a = LatestVerifiedAncestor(s, r)
    PROVE  /\ a \in Chain[r] \cup {s.finalized.root}
           /\ r \in s.blocks /\ s.finalized.root \in s.blocks => a \in s.blocks
<1> DEFINE L(b) == LatestVerifiedAncestor(s, b)
           Fine(b) == /\ L(b) \in Chain[b] \cup {s.finalized.root}
                      /\ b \in s.blocks /\ s.finalized.root \in s.blocks => L(b) \in s.blocks
           Odd == {b \in Roots : ~Fine(b)}
<1>1. SUFFICES ASSUME Odd # {} PROVE FALSE
  OBVIOUS
<1>2. PICK b \in Odd : \A c \in Odd : Slot[b] <= Slot[c]
  BY <1>1, FirstBlock, Zenon
<1>3. b \in Chain[b] /\ s.blocks \subseteq Roots
  BY ChainStep DEF Store
<1>4. L(b) = IF ~Unverified(s, b) THEN b
             ELSE IF Parent[b] \notin s.blocks THEN s.finalized.root ELSE L(Parent[b])
  BY LatestVerifiedAncestorStep
<1> HIDE DEF L
<1>5. Unverified(s, b) /\ Parent[b] \in s.blocks
  BY <1>2, <1>3, <1>4
<1>6. b # Anchor /\ Parent[b] \in Roots
  BY <1>3, <1>5, TreeAssumption
<1>7. Slot[Parent[b]] < Slot[b] /\ Chain[Parent[b]] \subseteq Chain[b] /\ Slot[b] \in Nat /\ Slot[Parent[b]] \in Nat
  BY <1>6, ChainStep
<1>8. Fine(Parent[b])
  BY <1>2, <1>6, <1>7
<1> QED BY <1>2, <1>4, <1>5, <1>7, <1>8

(* The blocks from r down to x are all in the store. *)
Unbroken(s, r, x) == x \in Chain[r] /\ \A q \in Chain[r] : x \in Chain[q] => q \in s.blocks

LEMMA UnbrokenStep ==
    ASSUME NEW s \in Store, NEW r \in Roots, NEW x, Unbroken(s, r, x), r # x
    PROVE  /\ r # Anchor /\ r \in s.blocks /\ Parent[r] \in Roots /\ Parent[r] \in s.blocks
           /\ Unbroken(s, Parent[r], x) /\ Slot[Parent[r]] < Slot[r] /\ Chain[Parent[r]] \subseteq Chain[r]
           /\ x \in Chain[r]
<1>1. x \in Chain[r] /\ r \in Chain[r] /\ r # Anchor
  BY ChainStep DEF Unbroken
<1>2. /\ Parent[r] \in Roots /\ Chain[r] = {r} \cup Chain[Parent[r]] /\ Slot[Parent[r]] < Slot[r]
      /\ Parent[r] \in Chain[Parent[r]]
  BY <1>1, ChainStep
<1> QED BY <1>1, <1>2 DEF Unbroken

(* From a block above the finalized one it ends above the finalized one too, or where it ends   *)
(* from there.                                                                                  *)
LEMMA VerifiedAboveFinalized ==
    ASSUME NEW s \in Store, NEW r \in Roots, NEW x \in Roots, Unbroken(s, r, x)
    PROVE  \/ LatestVerifiedAncestor(s, r) = LatestVerifiedAncestor(s, x)
           \/ x \in Chain[LatestVerifiedAncestor(s, r)] /\ LatestVerifiedAncestor(s, r) \in Chain[r]
<1> DEFINE L(b) == LatestVerifiedAncestor(s, b)
           Fine(b) == Unbroken(s, b, x) => L(b) = L(x) \/ (x \in Chain[L(b)] /\ L(b) \in Chain[b])
           Odd == {b \in Roots : ~Fine(b)}
<1>1. SUFFICES ASSUME Odd # {} PROVE FALSE
  OBVIOUS
<1>2. PICK b \in Odd : \A c \in Odd : Slot[b] <= Slot[c]
  BY <1>1, FirstBlock, Zenon
<1>3. b # x /\ Unbroken(s, b, x)
  BY <1>2
<1>4. /\ Parent[b] \in Roots /\ Parent[b] \in s.blocks /\ Unbroken(s, Parent[b], x)
      /\ Slot[Parent[b]] < Slot[b] /\ Chain[Parent[b]] \subseteq Chain[b] /\ x \in Chain[b]
      /\ b \in Chain[b] /\ Slot[b] \in Nat /\ Slot[Parent[b]] \in Nat
  BY <1>3, UnbrokenStep, ChainStep
<1>5. L(b) = IF ~Unverified(s, b) THEN b
             ELSE IF Parent[b] \notin s.blocks THEN s.finalized.root ELSE L(Parent[b])
  BY LatestVerifiedAncestorStep
<1> HIDE DEF L
<1>6. L(b) = L(Parent[b])
  BY <1>2, <1>4, <1>5
<1>7. Fine(Parent[b])
  BY <1>2, <1>4
<1> QED BY <1>2, <1>4, <1>6, <1>7

(* So does get_ancestor, when it is asked for a slot that is not below the finalized block. *)
LEMMA AncestorAbove ==
    ASSUME NEW s \in Store, NEW r \in Roots, NEW x \in Roots, Unbroken(s, r, x),
           NEW slot \in Nat, Slot[x] <= slot
    PROVE  GetAncestor(s, r, slot) \in Chain[r] /\ Unbroken(s, GetAncestor(s, r, slot), x)
<1> DEFINE A(b) == GetAncestor(s, b, slot)
           Fine(b) == Unbroken(s, b, x) => A(b) \in Chain[b] /\ Unbroken(s, A(b), x)
           Odd == {b \in Roots : ~Fine(b)}
<1>1. SUFFICES ASSUME Odd # {} PROVE FALSE
  OBVIOUS
<1>2. PICK b \in Odd : \A c \in Odd : Slot[b] <= Slot[c]
  BY <1>1, FirstBlock, Zenon
<1>3. A(b) = IF b \notin s.blocks \/ Slot[b] <= slot THEN b ELSE A(Parent[b])
  BY GetAncestorStep
<1> HIDE DEF A
<1>4. A(b) = A(Parent[b]) /\ b # x /\ Unbroken(s, b, x)
  BY <1>2, <1>3, ChainStep
<1>5. /\ Parent[b] \in Roots /\ Unbroken(s, Parent[b], x)
      /\ Slot[Parent[b]] < Slot[b] /\ Chain[Parent[b]] \subseteq Chain[b]
      /\ Slot[b] \in Nat /\ Slot[Parent[b]] \in Nat
  BY <1>4, UnbrokenStep, ChainStep
<1>6. Fine(Parent[b])
  BY <1>2, <1>5
<1> QED BY <1>2, <1>4, <1>5, <1>6

-----------------------------------------------------------------------------
LEMMA AnchorIsFirst == ASSUME NEW r \in Roots, Slot[r] <= Slot[Anchor] PROVE r = Anchor
<1> DEFINE Odd == {b \in Roots \ {Anchor} : Slot[b] <= Slot[Anchor]}
<1>1. SUFFICES ASSUME Odd # {} PROVE FALSE
  OBVIOUS
<1>2. PICK b \in Odd : \A c \in Odd : Slot[b] <= Slot[c]
  BY <1>1, FirstBlock, Zenon
<1>3. Parent[b] \in Roots /\ Slot[Parent[b]] < Slot[b]
  BY TreeAssumption
<1>4. Slot[b] \in Nat /\ Slot[Parent[b]] \in Nat /\ Slot[Anchor] \in Nat
  BY <1>3, TreeAssumption
<1> QED BY <1>2, <1>3, <1>4

(* The anchor is the first block of its epoch. *)
Aligned == Slot[Anchor] = StartSlot(Epoch(Slot[Anchor]))

(* What is missing below a block of the store is final. *)
Lineage(s) ==
    \A q \in s.blocks : \A p \in Chain[q] :
        p \in s.blocks \/ Slot[p] <= StartSlot(s.finalized.epoch) \/ Slot[p] <= Slot[Anchor]

(* Nothing is missing between the head and a finalized block that is there. *)
LEMMA HeadAboveFinalized ==
    ASSUME NEW s, Sound(s), IsFiniteSet(s.blocks), Lineage(s),
           NEW head \in s.blocks, head = GetHead(s), NEW F, F = s.finalized.root
    PROVE  F \in Chain[head] /\ (F \in s.blocks => Unbroken(s, head, F))
<1> DEFINE J == s.justified.root
           base == EffectiveBase(s)
           tree == FilterBlockTree(s)
<1>1. /\ s \in Store /\ head \in Roots /\ F \in Roots /\ J \in Roots /\ F \in Chain[J]
      /\ \A q \in Chain[J] : Slot[q] <= StartSlot(s.finalized.epoch) => q \in Chain[F]
  BY SoundRoots DEF Sound, Store
<1>2. base = (IF J \in s.blocks THEN J ELSE F) /\ base \in Roots
  BY <1>1 DEF EffectiveBase
<1>3. Unbroken(s, head, base)
  <2>1. /\ base \notin tree => head = base
        /\ base \in tree => /\ base \in Chain[head]
                            /\ \A q \in Chain[head] : base \in Chain[q] => q \in tree
    BY <1>1, GetHeadDescends
  <2>2. tree \subseteq s.blocks
    BY DEF FilterBlockTree
  <2> HIDE DEF base, tree
  <2>3. CASE head = base
    BY <1>1, <2>3, ChainStep, ChainAntisymmetric DEF Unbroken
  <2> QED BY <2>1, <2>2, <2>3 DEF Unbroken
<1> HIDE DEF base, tree
<1>4. CASE J \notin s.blocks
  BY <1>2, <1>3, <1>4 DEF Unbroken
<1>5. CASE J \in s.blocks
  <2>1. J \in Chain[head] /\ \A q \in Chain[head] : J \in Chain[q] => q \in s.blocks
    BY <1>2, <1>3, <1>5 DEF Unbroken
  <2>2. F \in Chain[head]
    BY <1>1, <2>1, ChainIsClosed
  <2>3. ASSUME F \in s.blocks, NEW q \in Chain[head], F \in Chain[q] PROVE q \in s.blocks
    <3>1. q \in Roots
      BY <1>1, ChainStep
    <3>2. CASE J \in Chain[q]
      BY <2>1, <3>2
    <3>3. CASE q \in Chain[J]
      <4>1. CASE Slot[q] <= StartSlot(s.finalized.epoch)
        BY <1>1, <2>3, <3>1, <3>3, <4>1, ChainAntisymmetric
      <4>2. CASE Slot[q] <= Slot[Anchor]
        BY <2>3, <3>1, <4>2, AnchorIsFirst, TreeAssumption
      <4> QED BY <1>5, <3>3, <4>1, <4>2 DEF Lineage
    <3> QED BY <1>1, <2>1, <3>2, <3>3, ChainIsLinear
  <2> QED BY <2>2, <2>3 DEF Unbroken
<1> QED BY <1>4, <1>5

(* The finalized block is not later than the first slot of the justified epoch. *)
LEMMA FinalizedBeforeJustified ==
    ASSUME NEW s, Sound(s), Aligned
    PROVE  /\ StartSlot(s.justified.epoch) \in Nat
           /\ Slot[s.finalized.root] <= StartSlot(s.justified.epoch)
<1> DEFINE f == s.finalized
           j == s.justified
<1>1. /\ f \in FinalizedCheckpoints /\ f.epoch \in Nat /\ j.epoch \in Nat /\ f.epoch <= j.epoch
      /\ AnchorCheckpoint.epoch <= f.epoch /\ AnchorCheckpoint.epoch \in Nat /\ f.root \in Roots
  BY SoundRoots, AnchorIsCheckpoint DEF Sound, Sourced, Ordered, Store, Checkpoint
<1>2. StartSlot(f.epoch) \in Nat /\ StartSlot(j.epoch) \in Nat /\ StartSlot(f.epoch) <= StartSlot(j.epoch)
  <2>1. SlotsPerEpoch * f.epoch <= SlotsPerEpoch * j.epoch
    BY <1>1, ProductMonotone, EpochAssumption
  <2>2. /\ StartSlot(f.epoch) = SlotsPerEpoch * f.epoch /\ StartSlot(j.epoch) = SlotsPerEpoch * j.epoch
        /\ SlotsPerEpoch * f.epoch \in Nat /\ SlotsPerEpoch * j.epoch \in Nat
    BY <1>1, EpochAssumption DEF StartSlot
  <2> QED BY <2>1, <2>2
<1>3. Slot[f.root] <= StartSlot(f.epoch)
  <2>1. CASE f.epoch = AnchorCheckpoint.epoch
    <3>1. AnchorCheckpoint \in JustifiedCheckpoints /\ AnchorCheckpoint.root = Anchor
      BY DEF JustifiedCheckpoints, AnchorCheckpoint
    <3>2. f.root \in Chain[Anchor]
      BY <1>1, <2>1, <3>1, CasperAssumption
    <3>3. f.root = Anchor /\ f.epoch = Epoch(Slot[Anchor]) /\ Slot[Anchor] \in Nat
      BY <2>1, <3>2, TreeAssumption DEF AnchorCheckpoint
    <3> QED BY <3>3 DEF Aligned
  <2>2. CASE f.epoch # AnchorCheckpoint.epoch
    <3>1. f # AnchorCheckpoint
      BY <2>2
    <3>2. PICK r \in Roots : f \in {Finalized[r], UnrealizedF[r]}
      BY <1>1, <3>1 DEF FinalizedCheckpoints
    <3>3. AnchorCheckpoint.epoch < f.epoch
      BY <1>1, <2>2
    <3> QED BY <3>2, <3>3, HistoryAssumption
  <2> QED BY <2>1, <2>2
<1>4. Slot[f.root] \in Nat
  BY <1>1, TreeAssumption, Zenon
<1> QED BY <1>2, <1>3, <1>4

Consistent(c) ==
    /\ c.safe # Zero => c.safe \in Chain[c.head]
    /\ c.finalized # Zero => c.safe # Zero /\ c.finalized \in Chain[c.safe]

LEMMA ConsistentChange ==
    ASSUME NEW s, Sound(s), IsFiniteSet(s.blocks), Lineage(s), Aligned,
           NEW head \in s.blocks, head = GetHead(s)
    PROVE  Consistent(HeadChange(s, head))
<1> DEFINE F == s.finalized.root
           slot == StartSlot(s.justified.epoch)
           S == GetAncestor(s, head, slot)
           safe == LatestVerifiedAncestor(s, S)
           fin == LatestVerifiedAncestor(s, F)
<1>1. s \in Store /\ head \in Roots /\ F \in Roots /\ s.blocks \subseteq Roots /\ Exec = Roots
  BY SoundRoots, DriverAssumption DEF Sound, Store
<1>2. F \in Chain[head] /\ (F \in s.blocks => Unbroken(s, head, F))
  BY HeadAboveFinalized
<1>3. slot \in Nat /\ Slot[F] <= slot
  BY FinalizedBeforeJustified
<1>4. /\ HeadChange(s, head).head = head
      /\ HeadChange(s, head).safe = IF safe \in s.blocks THEN safe ELSE Zero
      /\ HeadChange(s, head).finalized = IF fin \in s.blocks THEN fin ELSE Zero
  BY <1>1 DEF HeadChange, ComputeSafeBlockHash, ComputeFinalizedBlockHash, GetCheckpointBlock,
              ExecutionBlockHashAtRoot
<1>5. /\ S \in Chain[head] \cup {Parent[Anchor]}
      /\ F \in s.blocks => S \in Chain[head] /\ Unbroken(s, S, F)
  <2>1. S \in Chain[head] \cup {Parent[Anchor]}
    BY <1>1, GetAncestorEnds
  <2>2. ASSUME F \in s.blocks PROVE S \in Chain[head] /\ Unbroken(s, S, F)
    <3>1. s \in Store /\ head \in Roots /\ F \in Roots /\ Unbroken(s, head, F) /\ slot \in Nat /\ Slot[F] <= slot
      BY <1>1, <1>2, <1>3, <2>2
    <3> HIDE DEF F, slot
    <3> QED BY ONLY <3>1, AncestorAbove
  <2> QED BY <2>1, <2>2
<1>6. S \in Roots => safe \in Chain[S] \cup {F} /\ (S \in s.blocks /\ F \in s.blocks => safe \in s.blocks)
  BY <1>1, LatestVerifiedAncestorEnds
<1>7. fin \in Chain[F]
  BY <1>1, LatestVerifiedAncestorEnds, ChainStep
<1>8. F \notin s.blocks => fin = F
  BY <1>1, LatestVerifiedAncestorStep DEF Unverified, IsOptimistic
<1>9. S = Parent[Anchor] => safe = S
  <2>1. Parent[Anchor] \notin s.blocks
    BY <1>1, TreeAssumption
  <2> QED BY <1>1, <2>1, LatestVerifiedAncestorStep DEF Unverified, IsOptimistic
<1>10. F \in s.blocks => safe = fin \/ F \in Chain[safe]
  <2>1. F \in s.blocks => S \in Roots /\ Unbroken(s, S, F)
    BY <1>1, <1>5, ChainStep
  <2> QED BY <1>1, <2>1, VerifiedAboveFinalized
<1> HIDE DEF slot, S, safe, fin
<1>11. ASSUME safe \in s.blocks PROVE safe \in Chain[head]
  <2>1. Parent[Anchor] \notin s.blocks
    BY <1>1, TreeAssumption
  <2>2. S \in Chain[head] /\ S \in Roots
    BY <1>1, <1>5, <1>9, <1>11, <2>1, ChainStep
  <2>3. Chain[S] \subseteq Chain[head]
    BY <1>1, <2>2, ChainIsClosed
  <2> QED BY <1>2, <1>6, <2>2, <2>3
<1>12. ASSUME fin \in s.blocks PROVE safe \in s.blocks /\ fin \in Chain[safe]
  <2>1. F \in s.blocks
    BY <1>8, <1>12
  <2>2. S \in Chain[head] /\ S \in Roots /\ S \in s.blocks
    BY <1>1, <1>5, <2>1, ChainStep DEF Unbroken
  <2>3. safe \in s.blocks /\ safe \in Roots
    BY <1>1, <1>6, <2>1, <2>2
  <2>4. CASE safe = fin
    BY <2>3, <2>4, ChainStep
  <2>5. CASE F \in Chain[safe]
    BY <1>7, <2>3, <2>5, ChainIsClosed
  <2> QED BY <1>10, <2>1, <2>3, <2>4, <2>5
<1>13. Zero \notin s.blocks
  BY <1>1, TreeAssumption, Zenon
<1> HIDE DEF F
<1> QED BY <1>4, <1>11, <1>12, <1>13 DEF Consistent

-----------------------------------------------------------------------------
(* The steps.  What an action leaves alone is settled first. *)

LEMMA VerdictsOfStore == VerdictsAreTrue <=> Verdicts(store.status)
BY DEF VerdictsAreTrue, Verdicts

LEMMA Starts == Init => IInv
<1> SUFFICES ASSUME Init PROVE IInv
  OBVIOUS
<1>1. store \in Store /\ store.status = InitStore.status
  BY InitStoreType, OnTickStatus, DriverAssumption DEF Init
<1>2. Verdicts(store.status)
  BY <1>1, AnchorIsGood DEF InitStore, Verdicts
<1>3. importer = [i \in Importers |-> importer[i]] /\ ImporterOK
  BY DEF Init, ImporterOK, Place
<1>4. queue \in Seq(Roots) /\ DriverOK
  BY DEF Init, DriverOK, Idle
<1> QED BY <1>1, <1>2, <1>3, <1>4, VerdictsOfStore DEF IInv

(* A step of importer i keeps the others as they are. *)
LEMMA ImporterMoves ==
    ASSUME IInv, NEW i \in Importers, NEW w, Place(w),
           importer' = [importer EXCEPT ![i] = w]
    PROVE  importer' = [j \in Importers |-> importer'[j]] /\ ImporterOK'
<1>1. importer = [j \in Importers |-> importer[j]]
  BY DEF IInv
<1>2. \A j \in Importers : importer'[j] = IF j = i THEN w ELSE importer[j]
  BY <1>1
<1>3. importer' = [j \in Importers |-> importer'[j]]
  BY <1>1
<1> QED BY <1>2, <1>3 DEF IInv, ImporterOK

LEMMA ImportPreserves ==
    ASSUME IInv, NEW i \in Importers, Importing(i) \/ \E r \in Fetched[i] : StartImport(i, r)
    PROVE  IInv'
<1>1. CASE \E r \in Fetched[i] : StartImport(i, r)
  <2> PICK r \in Fetched[i] : StartImport(i, r)
    BY <1>1
  <2> DEFINE w == [at |-> "checked", root |-> r]
  <2>1. Place(w)
    BY DriverAssumption DEF Place
  <2>2. importer' = [importer EXCEPT ![i] = w]
    BY DEF StartImport
  <2> HIDE DEF w
  <2>3. importer' = [j \in Importers |-> importer'[j]] /\ ImporterOK'
    BY <2>1, <2>2, ImporterMoves, Zenon
  <2> QED BY <2>3 DEF StartImport, IInv, DriverOK, VerdictsAreTrue
<1>2. CASE RunOnBlock(i)
  <2> DEFINE r == importer[i].root
  <2>1. r \in Roots
    BY <1>2 DEF RunOnBlock, IInv, ImporterOK, Place, Idle
  <2>2. CASE AcceptsBlock(store, r)
    <3> DEFINE w == [at |-> "inserted", root |-> r]
    <3>1. importer' = [importer EXCEPT ![i] = w] /\ Place(w)
      BY <1>2, <2>1, <2>2 DEF RunOnBlock, Place
    <3>2. store' = OnBlock(store, r, Now, FALSE)
      BY <1>2, <2>2 DEF RunOnBlock
    <3> HIDE DEF w, r
    <3>3. importer' = [j \in Importers |-> importer'[j]] /\ ImporterOK'
      BY <3>1, ImporterMoves
    <3>4. store' \in Store /\ Verdicts(store'.status)
      BY <2>1, <3>2, OnBlockKeepsVerdicts, VerdictsOfStore, Zenon DEF IInv
    <3> QED BY <1>2, <3>3, <3>4 DEF RunOnBlock, IInv, DriverOK, VerdictsAreTrue, Verdicts
  <2>3. CASE ~AcceptsBlock(store, r)
    <3>1. importer' = [importer EXCEPT ![i] = Idle] /\ UNCHANGED store
      BY <1>2, <2>3 DEF RunOnBlock
    <3>2. importer' = [j \in Importers |-> importer'[j]] /\ ImporterOK'
      BY <3>1, ImporterMoves, Zenon DEF Place
    <3> QED BY <1>2, <3>1, <3>2 DEF RunOnBlock, IInv, DriverOK, VerdictsAreTrue
  <2> QED BY <2>2, <2>3
<1>3. CASE SendPayload(i)
  <2>1. importer[i] \in [at : {"inserted"}, root : Roots]
    BY <1>3 DEF SendPayload, IInv, ImporterOK, Place, Idle
  <2>2. queue' \in Seq(Roots)
    BY <1>3, <2>1 DEF SendPayload, IInv
  <2> DEFINE w == [importer[i] EXCEPT !.at = "sent"]
  <2>3. importer' = [importer EXCEPT ![i] = w]
    BY <1>3 DEF SendPayload, IInv
  <2>4. Place(w)
    BY <2>1 DEF Place
  <2> HIDE DEF w
  <2>5. importer' = [j \in Importers |-> importer'[j]] /\ ImporterOK'
    BY <2>3, <2>4, ImporterMoves, Zenon
  <2> QED BY <1>3, <2>2, <2>5 DEF SendPayload, IInv, DriverOK, VerdictsAreTrue
<1>4. CASE ComputeHead(i)
  <2> DEFINE h == GetHead(store)
             w == IF h \in store.blocks
                  THEN [at |-> "computed", root |-> importer[i].root, change |-> HeadChange(store, h)]
                  ELSE Idle
  <2>1. importer[i].root \in Roots
    BY <1>4 DEF ComputeHead, IInv, ImporterOK, Place, Idle
  <2>2. importer' = [importer EXCEPT ![i] = w]
    BY <1>4 DEF ComputeHead, IInv
  <2>3. Place(w)
    BY <2>1 DEF Place
  <2> HIDE DEF w
  <2>4. importer' = [j \in Importers |-> importer'[j]] /\ ImporterOK'
    BY <2>2, <2>3, ImporterMoves, Zenon
  <2> QED BY <1>4, <2>4 DEF ComputeHead, IInv, DriverOK, VerdictsAreTrue
<1>5. CASE Publish(i)
  <2>1. importer[i].root \in Roots
    BY <1>5 DEF Publish, IInv, ImporterOK, Place, Idle
  <2>2. importer' = [importer EXCEPT ![i] = Idle]
    BY <1>5 DEF Publish
  <2>3. importer' = [j \in Importers |-> importer'[j]] /\ ImporterOK'
    BY <2>2, ImporterMoves, Zenon DEF Place
  <2>4. store' = MarkPayloadStatusIfAbsent(store, importer[i].root)
    BY <1>5 DEF Publish
  <2>5. store' \in Store /\ Verdicts(store'.status)
    BY <2>1, <2>4, SeedKeepsVerdicts, VerdictsOfStore DEF IInv
  <2> QED BY <1>5, <2>3, <2>5 DEF Publish, IInv, DriverOK, VerdictsAreTrue, Verdicts
<1> QED BY <1>1, <1>2, <1>3, <1>4, <1>5 DEF Importing

LEMMA DrivePreserves ==
    ASSUME IInv, Driving
    PROVE  IInv'
<1>0. store \in Store /\ Verdicts(store.status) /\ queue \in Seq(Roots) /\ DriverOK
  BY VerdictsOfStore DEF IInv
<1>1. CASE TakeHead \/ FcuReturns \/ MaybeEmitHeadChange
  <2>1. DriverOK'
    BY <1>1 DEF TakeHead, FcuReturns, MaybeEmitHeadChange, DriverOK, Idle
  <2> QED BY <1>1, <2>1 DEF TakeHead, FcuReturns, MaybeEmitHeadChange, IInv, ImporterOK, VerdictsAreTrue
<1>2. CASE FcuReturnsInvalid
  <2>1. DriverOK'
    BY <1>2 DEF FcuReturnsInvalid, DriverOK
  <2> QED BY <1>2, <2>1 DEF FcuReturnsInvalid, IInv, ImporterOK, VerdictsAreTrue
<1>3. CASE TakePayload
  <2>1. Head(queue) \in Roots /\ Tail(queue) \in Seq(Roots)
    BY <1>0, <1>3 DEF TakePayload
  <2>2. DriverOK'
    BY <1>3, <2>1 DEF TakePayload, DriverOK
  <2> QED BY <1>3, <2>1, <2>2 DEF TakePayload, IInv, ImporterOK, VerdictsAreTrue
<1>4. CASE NewPayloadReturnsValid
  <2> DEFINE m == MarkPayloadStatus(store, driver.root, "Valid")
  <2>1. driver.root \in Roots /\ ~Condemned(driver.root)
    BY <1>0, <1>4 DEF NewPayloadReturnsValid, DriverOK
  <2>2. m \in Store /\ Verdicts(m.status)
    BY <1>0, <2>1, MarkKeepsVerdicts DEF Statuses
  <2>3. store' = PromoteValidAncestors(m, driver.root)
    BY <1>4 DEF NewPayloadReturnsValid
  <2> HIDE DEF m
  <2>4. store' \in Store /\ Verdicts(store'.status)
    BY <2>1, <2>2, <2>3, PromoteKeepsVerdicts
  <2>5. DriverOK'
    BY <1>4 DEF NewPayloadReturnsValid, DriverOK, Idle
  <2> QED BY <1>4, <2>4, <2>5 DEF NewPayloadReturnsValid, IInv, ImporterOK, VerdictsAreTrue, Verdicts
<1>5. CASE NewPayloadReturnsNothing
  <2>1. driver.root \in Roots
    BY <1>0, <1>5 DEF NewPayloadReturnsNothing, DriverOK
  <2>2. store' = MarkPayloadStatus(store, driver.root, "NotValidated")
    BY <1>5 DEF NewPayloadReturnsNothing
  <2>3. store' \in Store /\ Verdicts(store'.status)
    BY <1>0, <2>1, <2>2, MarkKeepsVerdicts DEF Statuses
  <2>4. DriverOK'
    BY <1>5 DEF NewPayloadReturnsNothing, DriverOK, Idle
  <2> QED BY <1>5, <2>3, <2>4 DEF NewPayloadReturnsNothing, IInv, ImporterOK, VerdictsAreTrue, Verdicts
<1>6. CASE NewPayloadReturnsInvalid
  <2>1. DriverOK'
    BY <1>6 DEF NewPayloadReturnsInvalid, DriverOK
  <2> QED BY <1>6, <2>1 DEF NewPayloadReturnsInvalid, IInv, ImporterOK, VerdictsAreTrue
<1>7. CASE Invalidate
  <2> DEFINE x == ResolveInvalidBlock(store, driver.root, driver.lvh)
  <2>1. Condemned(driver.root) /\ driver.lvh \in {Null} \cup LatestValidHash(driver.root)
    BY <1>0, <1>7 DEF Invalidate, DriverOK
  <2>2. driver.root \in Roots
    BY <2>1 DEF Condemned
  <2>3. Condemned(x)
    BY <1>0, <2>1, <2>2, ResolvedIsCondemned
  <2>4. store' = InvalidateFrom(store, x)
    BY <1>7 DEF Invalidate
  <2> HIDE DEF x
  <2>5. store' \in Store /\ Verdicts(store'.status)
    BY <1>0, <2>3, <2>4, InvalidateKeepsVerdicts
  <2>6. DriverOK'
    BY <1>7 DEF Invalidate, DriverOK
  <2> QED BY <1>7, <2>5, <2>6 DEF Invalidate, IInv, ImporterOK, VerdictsAreTrue, Verdicts
<1> QED BY <1>1, <1>2, <1>3, <1>4, <1>5, <1>6, <1>7 DEF Driving

LEMMA FreezePreserves ==
    ASSUME IInv, FreezerMigrates \/ EvictFinalizedFromFc
    PROVE  IInv'
<1>1. CASE FreezerMigrates
  BY <1>1 DEF FreezerMigrates, IInv, ImporterOK, DriverOK, VerdictsAreTrue
<1>2. CASE EvictFinalizedFromFc
  <2> DEFINE out == evicting \cup {r \in store.blocks : Slot[r] < disk.split}
             t == [r \in Roots |-> IF r \in out THEN "None" ELSE store.status[r]]
             l == [v \in Validators |-> IF store.latest[v].root \in out THEN NoVote ELSE store.latest[v]]
  <2>1. store \in Store /\ Verdicts(store.status)
    BY VerdictsOfStore DEF IInv
  <2>2. store' = [store EXCEPT !.blocks = @ \ out, !.states = @ \ out, !.pulled = @ \ out,
                               !.status = t, !.latest = l]
    BY <1>2, <2>1 DEF EvictFinalizedFromFc, Store
  <2> HIDE DEF out
  <2>3. t \in [Roots -> Statuses] /\ Verdicts(t)
    BY <2>1 DEF Store, Statuses, Verdicts
  <2>4. l \in [Validators -> [epoch : Nat \cup {-1}, root : Roots \cup {Zero}]]
    BY <2>1 DEF Store, NoVote
  <2> HIDE DEF t, l
  <2>5. store' \in Store /\ store'.status = t
    BY <2>1, <2>2, <2>3, <2>4, Zenon DEF Store
  <2> QED BY <1>2, <2>3, <2>5
          DEF EvictFinalizedFromFc, IInv, ImporterOK, DriverOK, VerdictsAreTrue, Verdicts
<1> QED BY <1>1, <1>2

LEMMA StepPreserves == IInv /\ [Next]_vars => IInv'
<1> SUFFICES ASSUME IInv, [Next]_vars PROVE IInv'
  OBVIOUS
<1>1. CASE UNCHANGED vars
  BY <1>1 DEF vars, IInv, ImporterOK, DriverOK, VerdictsAreTrue
<1>2. CASE Next
  <2>1. CASE \E i \in Importers : Importing(i) \/ \E r \in Fetched[i] : StartImport(i, r)
    BY <2>1, ImportPreserves
  <2>2. CASE Driving
    BY <2>2, DrivePreserves
  <2>3. CASE FreezerMigrates \/ EvictFinalizedFromFc
    BY <2>3, FreezePreserves
  <2> QED BY <1>2, <2>1, <2>2, <2>3 DEF Next
<1> QED BY <1>1, <1>2

-----------------------------------------------------------------------------
(* What the freezer takes from the store is final, and the store's checkpoints stay sound.      *)

Intact(s, split) ==
    /\ Sound(s) /\ IsFiniteSet(s.blocks) /\ s.states \subseteq s.blocks
    /\ split \in Nat /\ (split <= StartSlot(s.finalized.epoch) \/ split = Slot[Anchor])
    /\ \A q \in s.blocks : \A p \in Chain[q] : p \in s.blocks \/ Slot[p] <= split

ImporterTyped(w) ==
    \/ w = Idle
    \/ w \in [at : {"checked", "inserted", "sent"}, root : Roots]
    \/ w \in [at : {"computed"}, root : Roots, change : Changes]

DriverTyped(d) ==
    \/ d = Idle
    \/ d \in [at : {"fcu"}, change : Changes]
    \/ d \in [at : {"newPayload"}, root : Roots]
    \/ d \in [at : {"invalid"}, root : Roots, lvh : Roots \cup {Null}, prev : Hashes]
    \/ d \in [at : {"emit"}, head : Roots, prev : Hashes]

Watches == [change : Changes, driver : BOOLEAN, freezer : BOOLEAN, unanswered : BOOLEAN]

Typed ==
    /\ \A i \in Importers : ImporterTyped(importer[i])
    /\ Len(queue) <= QueueSize
    /\ watch \in Watches /\ DriverTyped(driver)
    /\ disk \in [hot : SUBSET Roots, split : Nat] /\ evicting \subseteq Roots

Kept == Intact(store, disk.split) /\ \A r \in evicting : Slot[r] <= disk.split

LEMMA TypedSuffices == IInv /\ Typed => TypeOK
<1> SUFFICES ASSUME IInv, Typed PROVE TypeOK
  OBVIOUS
<1>1. store \in Store /\ \A k \in 1..Len(queue) : queue[k] \in Roots
  BY DEF IInv
<1> QED BY <1>1 DEF Typed, TypeOK, ImporterTyped, DriverTyped, Watches

LEMMA HashIsTyped == ASSUME NEW s, NEW r PROVE ExecutionBlockHashAtRoot(s, r) \in Hashes
BY TreeAssumption DEF ExecutionBlockHashAtRoot, Hashes

LEMMA HeadChangeIsTyped == ASSUME NEW s, NEW h \in Roots PROVE HeadChange(s, h) \in Changes
BY HashIsTyped DEF HeadChange, ComputeSafeBlockHash, ComputeFinalizedBlockHash, Changes, Hashes

LEMMA SendIsTyped == ASSUME NEW c \in Changes PROVE Send(c) \in Watches
BY DEF Send, Watches

(* get_head gives a block that exists, even where it is not in the store. *)
LEMMA HeadIsRoot == ASSUME NEW s, Sound(s), IsFiniteSet(s.blocks) PROVE GetHead(s) \in Roots
<1>1. s \in Store /\ s.finalized.root \in Roots /\ s.justified.root \in Roots /\ s.blocks \subseteq Roots
  BY SoundRoots DEF Sound, Store
<1>2. EffectiveBase(s) \in Roots /\ FilterBlockTree(s) \subseteq Roots
  BY <1>1 DEF EffectiveBase, FilterBlockTree
<1> QED BY <1>1, <1>2, GetHeadDescends

(* The handlers. *)
LEMMA SameTreeIntact ==
    ASSUME NEW s, NEW split, Intact(s, split), NEW u \in Store,
           u.blocks = s.blocks, u.states = s.states,
           u.justified = s.justified, u.unrealizedJ = s.unrealizedJ,
           u.finalized = s.finalized, u.unrealizedF = s.unrealizedF
    PROVE  Intact(u, split)
<1>1. Sound(u)
  BY SameCheckpointsSound DEF Intact
<1> QED BY <1>1 DEF Intact

(* A verdict changes none of this. *)
LEMMA StatusOnly ==
    ASSUME NEW s \in Store, NEW t \in [Roots -> Statuses], NEW u, u = [s EXCEPT !.status = t]
    PROVE  /\ u \in Store /\ \A split : Intact(s, split) => Intact(u, split)
<1>1. /\ u \in Store /\ u.blocks = s.blocks /\ u.states = s.states
      /\ u.justified = s.justified /\ u.unrealizedJ = s.unrealizedJ
      /\ u.finalized = s.finalized /\ u.unrealizedF = s.unrealizedF
  BY DEF Store
<1> QED BY <1>1, SameTreeIntact, Zenon

LEMMA StartSlotMonotone ==
    ASSUME NEW d \in Nat, NEW e \in Nat, d <= e
    PROVE  StartSlot(d) \in Nat /\ StartSlot(e) \in Nat /\ StartSlot(d) <= StartSlot(e)
<1>1. SlotsPerEpoch * d <= SlotsPerEpoch * e
  BY ProductMonotone, EpochAssumption
<1>2. \A x \in Nat : StartSlot(x) = SlotsPerEpoch * x /\ SlotsPerEpoch * x \in Nat
  BY EpochAssumption DEF StartSlot
<1> QED BY <1>1, <1>2

LEMMA OnBlockIntact ==
    ASSUME NEW s, NEW split, Intact(s, split), NEW r \in Roots \ {Anchor}, Parent[r] \in s.states,
           NEW now, NEW elected, NEW u, u = OnBlock(s, r, now, elected)
    PROVE  Intact(u, split)
<1>1. s \in Store /\ split \in Nat /\ s.finalized.epoch \in Nat
  BY DEF Intact, Sound, Store, Checkpoint
<1>2. Sound(u) /\ Keeps(s, u)
  BY OnBlockSound DEF Intact
<1>3. u.blocks = s.blocks \cup {r} /\ u.states = s.states \cup {r}
  BY <1>1, OnBlockTree
<1>4. IsFiniteSet(u.blocks) /\ u.states \subseteq u.blocks
  <2>1. IsFiniteSet(s.blocks) /\ s.states \subseteq s.blocks
    BY DEF Intact
  <2>2. IsFiniteSet(s.blocks \cup {r})
    BY <2>1, FS_AddElement
  <2> QED BY ONLY <1>3, <2>1, <2>2
<1>5. split <= StartSlot(u.finalized.epoch) \/ split = Slot[Anchor]
  <2>1. u.finalized.epoch \in Nat
    BY <1>2 DEF Sound, Store, Checkpoint
  <2>2. /\ StartSlot(s.finalized.epoch) \in Nat /\ StartSlot(u.finalized.epoch) \in Nat
        /\ StartSlot(s.finalized.epoch) <= StartSlot(u.finalized.epoch)
    BY <1>1, <1>2, <2>1, StartSlotMonotone DEF Keeps
  <2>3. split <= StartSlot(s.finalized.epoch) \/ split = Slot[Anchor]
    BY DEF Intact
  <2> HIDE DEF StartSlot
  <2> QED BY ONLY <1>1, <2>2, <2>3
<1>6. \A q \in u.blocks : \A p \in Chain[q] : p \in u.blocks \/ Slot[p] <= split
  <2>1. Parent[r] \in s.blocks /\ Chain[r] = {r} \cup Chain[Parent[r]]
    BY ChainStep DEF Intact
  <2> QED BY <1>3, <2>1 DEF Intact
<1> QED BY <1>1, <1>2, <1>4, <1>5, <1>6 DEF Intact

LEMMA EvictIntact ==
    ASSUME NEW s, NEW split, Intact(s, split), NEW out, \A r \in out : Slot[r] <= split,
           NEW u \in Store, u.blocks = s.blocks \ out, u.states = s.states \ out,
           u.justified = s.justified, u.unrealizedJ = s.unrealizedJ,
           u.finalized = s.finalized, u.unrealizedF = s.unrealizedF
    PROVE  Intact(u, split)
<1>1. Sound(u)
  BY SameCheckpointsSound DEF Intact
<1>2. IsFiniteSet(u.blocks) /\ u.states \subseteq u.blocks
  BY FS_Subset DEF Intact
<1>3. \A q \in u.blocks : \A p \in Chain[q] : p \in u.blocks \/ Slot[p] <= split
  BY DEF Intact
<1> QED BY <1>1, <1>2, <1>3 DEF Intact

LEMMA LineageOfIntact == ASSUME NEW s, NEW split, Intact(s, split) PROVE Lineage(s)
<1>1. s.blocks \subseteq Roots /\ s.finalized.epoch \in Nat /\ split \in Nat
  BY DEF Intact, Sound, Store, Checkpoint
<1>2. StartSlot(s.finalized.epoch) \in Nat
  BY <1>1, StartSlotMonotone
<1>3. \A q \in s.blocks : \A p \in Chain[q] : Slot[p] \in Nat
  BY <1>1, ChainStep
<1> QED BY <1>1, <1>2, <1>3 DEF Intact, Lineage

-----------------------------------------------------------------------------
(* The steps keep all of it; what an importer has computed is consistent if the anchor is      *)
(* aligned.                                                                                    *)

Announced(w) == w # Idle /\ w.at = "computed" => Consistent(w.change)
AllAnnounced == \A i \in Importers : Announced(importer[i])

LEMMA KeptStarts == Init => Typed /\ Kept /\ AllAnnounced
<1> SUFFICES ASSUME Init PROVE Typed /\ Kept /\ AllAnnounced
  OBVIOUS
<1>1. Typed
  <2>1. NoChange \in Changes
    BY DEF NoChange, Changes, Hashes
  <2>2. watch \in Watches
    BY <2>1, Zenon DEF Init, Send, Watches
  <2>3. Len(queue) <= QueueSize
    BY DriverAssumption DEF Init
  <2>4. disk \in [hot : SUBSET Roots, split : Nat] /\ evicting \subseteq Roots
    BY TreeAssumption DEF Init
  <2>5. \A i \in Importers : ImporterTyped(importer[i])
    BY DEF Init, ImporterTyped
  <2>6. DriverTyped(driver)
    BY DEF Init, DriverTyped
  <2> QED BY <2>2, <2>3, <2>4, <2>5, <2>6 DEF Typed
<1>2. Kept
  <2> DEFINE u == CrossSlots(InitStore, Now, (InitStore.time + 1)..Now)
  <2>1. Sound(u)
    BY InitSound, CrossSlotsSound, DriverAssumption
  <2>2. u.blocks = {Anchor} /\ u.states = {Anchor}
    <3>1. InitStore \in Store /\ Now \in Nat
      BY InitStoreType, DriverAssumption
    <3>2. u.blocks = InitStore.blocks
      BY ONLY <3>1, CrossSlotsFields
    <3>3. u.states = InitStore.states
      BY ONLY <3>1, CrossSlotsStates
    <3> HIDE DEF u
    <3> QED BY <3>2, <3>3 DEF InitStore
  <2>3. store = u
    BY DEF Init, OnTick
  <2> HIDE DEF u
  <2>4. IsFiniteSet({Anchor})
    BY FS_Singleton
  <2>5. Intact(u, Slot[Anchor])
    BY <2>1, <2>2, <2>4, TreeAssumption DEF Intact
  <2> QED BY <2>3, <2>5 DEF Init, Kept
<1>3. AllAnnounced
  BY DEF Init, AllAnnounced, Announced
<1> QED BY <1>1, <1>2, <1>3

LEMMA ImporterMovesTyped ==
    ASSUME IInv, Typed, NEW i \in Importers, NEW w, ImporterTyped(w),
           importer' = [importer EXCEPT ![i] = w]
    PROVE  /\ \A j \in Importers : ImporterTyped(importer'[j])
           /\ AllAnnounced /\ Announced(w) => AllAnnounced'
<1>1. importer = [j \in Importers |-> importer[j]]
  BY DEF IInv
<1>2. \A j \in Importers : importer'[j] = IF j = i THEN w ELSE importer[j]
  BY <1>1
<1>3. \A j \in Importers : ImporterTyped(importer[j])
  BY DEF Typed
<1>4. \A j \in Importers : ImporterTyped(importer'[j])
  BY <1>2, <1>3
<1>5. AllAnnounced /\ Announced(w) => \A j \in Importers : Announced(importer'[j])
  BY <1>2 DEF AllAnnounced
<1> QED BY <1>4, <1>5 DEF AllAnnounced, Announced

LEMMA StepTyped ==
    ASSUME Typed, \A j \in Importers : ImporterTyped(importer'[j]), Len(queue') <= QueueSize,
           watch' \in Watches, DriverTyped(driver'),
           disk' \in [hot : SUBSET Roots, split : Nat], evicting' \subseteq Roots
    PROVE  Typed'
BY DEF Typed, ImporterTyped, DriverTyped, Watches, Idle, Changes, Hashes, Null, Zero

(* The step an import is at says which record it holds. *)
LEMMA WhereImporterIs ==
    ASSUME NEW w, ImporterTyped(w)
    PROVE  /\ w.at \in {"checked", "inserted", "sent", "computed"} => w.root \in Roots
           /\ w.at = "computed" => w.change \in Changes
           /\ w.at = "inserted" => w \in [at : {"inserted"}, root : Roots]
<1>1. w = Idle => w.at = "idle"
  BY DEF Idle
<1> QED BY <1>1 DEF ImporterTyped

LEMMA ImportKeeps ==
    ASSUME IInv, Typed, Kept, NEW i \in Importers,
           Importing(i) \/ \E r \in Fetched[i] : StartImport(i, r)
    PROVE  Typed' /\ Kept' /\ (Aligned /\ AllAnnounced => AllAnnounced')
<1>0. /\ store \in Store /\ queue \in Seq(Roots) /\ Len(queue) <= QueueSize /\ watch \in Watches
      /\ DriverTyped(driver) /\ disk \in [hot : SUBSET Roots, split : Nat] /\ evicting \subseteq Roots
      /\ ImporterTyped(importer[i]) /\ Intact(store, disk.split)
  BY DEF IInv, Typed, Kept
<1>1. CASE \E r \in Fetched[i] : StartImport(i, r)
  <2> PICK r \in Fetched[i] : StartImport(i, r)
    BY <1>1
  <2> DEFINE w == [at |-> "checked", root |-> r]
  <2>1. ImporterTyped(w) /\ Announced(w)
    BY DriverAssumption DEF ImporterTyped, Announced
  <2>2. importer' = [importer EXCEPT ![i] = w] /\ UNCHANGED <<store, queue, watch, driver, disk, evicting>>
    BY DEF StartImport
  <2> HIDE DEF w
  <2>3. (\A j \in Importers : ImporterTyped(importer'[j])) /\ (AllAnnounced => AllAnnounced')
    BY <2>1, <2>2, ImporterMovesTyped
  <2>4. Typed'
    BY <1>0, <2>2, <2>3, StepTyped
  <2> QED BY <2>2, <2>3, <2>4 DEF Kept
<1>2. CASE RunOnBlock(i)
  <2> DEFINE r == importer[i].root
  <2>0. UNCHANGED <<queue, watch, driver, disk, evicting>>
    BY <1>2 DEF RunOnBlock
  <2>1. r \in Roots
    <3>1. importer[i].at = "checked"
      BY <1>2 DEF RunOnBlock
    <3> QED BY <1>0, <3>1, WhereImporterIs
  <2>2. CASE AcceptsBlock(store, r)
    <3> DEFINE w == [at |-> "inserted", root |-> r]
    <3>1. importer' = [importer EXCEPT ![i] = w] /\ ImporterTyped(w) /\ Announced(w)
      BY <1>2, <2>1, <2>2 DEF RunOnBlock, ImporterTyped, Announced
    <3>2. store' = OnBlock(store, r, Now, FALSE)
      BY <1>2, <2>2 DEF RunOnBlock
    <3>3. r # Anchor /\ Parent[r] \in store.states
      BY <1>0, <2>2, TreeAssumption DEF AcceptsBlock, Store
    <3> HIDE DEF w, r
    <3>4. (\A j \in Importers : ImporterTyped(importer'[j])) /\ (AllAnnounced => AllAnnounced')
      BY <3>1, ImporterMovesTyped, Zenon
    <3>5. Intact(store', disk.split)
      BY <1>0, <2>1, <3>2, <3>3, OnBlockIntact
    <3>6. Typed'
      BY <1>0, <2>0, <3>4, StepTyped
    <3> QED BY <2>0, <3>4, <3>5, <3>6 DEF Kept
  <2>3. CASE ~AcceptsBlock(store, r)
    <3>1. importer' = [importer EXCEPT ![i] = Idle] /\ UNCHANGED store
      BY <1>2, <2>3 DEF RunOnBlock
    <3>2. (\A j \in Importers : ImporterTyped(importer'[j])) /\ (AllAnnounced => AllAnnounced')
      BY <3>1, ImporterMovesTyped, Zenon DEF ImporterTyped, Announced
    <3>3. Typed'
      BY <1>0, <2>0, <3>2, StepTyped
    <3> QED BY <2>0, <3>1, <3>2, <3>3 DEF Kept
  <2> QED BY <2>2, <2>3
<1>3. CASE SendPayload(i)
  <2>0. UNCHANGED <<store, watch, driver, disk, evicting>>
    BY <1>3 DEF SendPayload
  <2>1. importer[i] \in [at : {"inserted"}, root : Roots]
    <3>1. importer[i].at = "inserted"
      BY <1>3 DEF SendPayload
    <3> QED BY <1>0, <3>1, WhereImporterIs
  <2>2. Len(queue') <= QueueSize
    <3>1. CASE Len(queue) < QueueSize
      <4>1. queue' = Append(queue, importer[i].root) /\ importer[i].root \in Roots
        BY <1>3, <2>1, <3>1 DEF SendPayload
      <4> QED BY <1>0, <3>1, <4>1, DriverAssumption
    <3>2. CASE ~(Len(queue) < QueueSize)
      BY <1>0, <1>3, <3>2 DEF SendPayload
    <3> QED BY <3>1, <3>2
  <2> DEFINE w == [importer[i] EXCEPT !.at = "sent"]
  <2>3. importer' = [importer EXCEPT ![i] = w]
    BY <1>3 DEF SendPayload, IInv
  <2>4. ImporterTyped(w) /\ Announced(w)
    BY <2>1 DEF ImporterTyped, Announced
  <2> HIDE DEF w
  <2>5. (\A j \in Importers : ImporterTyped(importer'[j])) /\ (AllAnnounced => AllAnnounced')
    BY <2>3, <2>4, ImporterMovesTyped
  <2>6. Typed'
    BY <1>0, <2>0, <2>2, <2>5, StepTyped
  <2> QED BY <2>0, <2>5, <2>6 DEF Kept
<1>4. CASE ComputeHead(i)
  <2> DEFINE h == GetHead(store)
             c == HeadChange(store, h)
             w == IF h \in store.blocks
                  THEN [at |-> "computed", root |-> importer[i].root, change |-> c]
                  ELSE Idle
  <2>0. UNCHANGED <<store, queue, watch, driver, disk, evicting>>
    BY <1>4 DEF ComputeHead
  <2>1. importer[i].root \in Roots
    <3>1. importer[i].at = "sent"
      BY <1>4 DEF ComputeHead
    <3> QED BY <1>0, <3>1, WhereImporterIs
  <2>2. importer' = [importer EXCEPT ![i] = w]
    BY <1>4 DEF ComputeHead, IInv
  <2>3. Sound(store) /\ IsFiniteSet(store.blocks) /\ Lineage(store) /\ h \in Roots
    BY <1>0, HeadIsRoot, LineageOfIntact DEF Intact
  <2>4. c \in Changes
    BY <2>3, HeadChangeIsTyped
  <2>5. Aligned /\ h \in store.blocks => Consistent(c)
    BY <2>3, ConsistentChange
  <2> HIDE DEF c, h
  <2>6. ImporterTyped(w) /\ (Aligned => Announced(w))
    BY <2>1, <2>4, <2>5 DEF ImporterTyped, Announced
  <2> HIDE DEF w
  <2>7. (\A j \in Importers : ImporterTyped(importer'[j])) /\ (AllAnnounced /\ Aligned => AllAnnounced')
    BY <2>2, <2>6, ImporterMovesTyped
  <2>8. Typed'
    BY <1>0, <2>0, <2>7, StepTyped
  <2> QED BY <2>0, <2>7, <2>8 DEF Kept
<1>5. CASE Publish(i)
  <2>0. UNCHANGED <<queue, driver, evicting>>
    BY <1>5 DEF Publish
  <2>1. importer[i].root \in Roots /\ importer[i].change \in Changes
    <3>1. importer[i].at = "computed"
      BY <1>5 DEF Publish
    <3> QED BY <1>0, <3>1, WhereImporterIs
  <2>2. importer' = [importer EXCEPT ![i] = Idle]
    BY <1>5 DEF Publish
  <2>3. (\A j \in Importers : ImporterTyped(importer'[j])) /\ (AllAnnounced => AllAnnounced')
    BY <2>2, ImporterMovesTyped, Zenon DEF ImporterTyped, Announced
  <2>4. Intact(store', disk.split)
    <3> DEFINE x == importer[i].root
               t == [store.status EXCEPT ![x] = IF @ = "None" THEN "NotValidated" ELSE @]
    <3>1. store' = [store EXCEPT !.status = t]
      BY <1>0, <1>5 DEF Publish, MarkPayloadStatusIfAbsent, Store
    <3>2. t \in [Roots -> Statuses]
      BY <1>0, <2>1, Zenon DEF Store, Statuses
    <3> HIDE DEF t
    <3> QED BY <1>0, <3>1, <3>2, StatusOnly
  <2>5. /\ watch' \in Watches /\ disk' \in [hot : SUBSET Roots, split : Nat]
        /\ disk'.split = disk.split
    <3>1. CASE UNCHANGED <<disk, watch>>
      BY <1>0, <3>1
    <3>2. CASE /\ disk' = [disk EXCEPT !.hot = @ \cup {importer[i].root}]
               /\ watch' = Send(importer[i].change)
      BY <1>0, <2>1, <3>2, SendIsTyped
    <3> QED BY <1>5, <3>1, <3>2 DEF Publish
  <2>6. Typed'
    BY <1>0, <2>0, <2>3, <2>5, StepTyped
  <2> QED BY <2>0, <2>3, <2>4, <2>5, <2>6 DEF Kept
<1> QED BY <1>1, <1>2, <1>3, <1>4, <1>5 DEF Importing

(* The driver and the freezer leave the importers alone. *)
LEMMA ImportersRest ==
    ASSUME Typed, importer' = importer
    PROVE  (\A j \in Importers : ImporterTyped(importer'[j])) /\ (AllAnnounced => AllAnnounced')
BY DEF Typed, AllAnnounced, Announced

(* The step the driver's loop is at says which fields it holds. *)
LEMMA WhereDriverIs ==
    ASSUME NEW d, DriverTyped(d)
    PROVE  /\ d.at = "invalid" => d.prev \in Hashes
           /\ d.at = "emit" => d.head \in Roots
<1>1. d = Idle => d.at = "idle"
  BY DEF Idle
<1> QED BY <1>1 DEF DriverTyped

LEMMA DriveKeeps ==
    ASSUME IInv, Typed, Kept, Driving
    PROVE  Typed' /\ Kept' /\ (AllAnnounced => AllAnnounced')
<1>0. /\ store \in Store /\ queue \in Seq(Roots) /\ Len(queue) <= QueueSize /\ watch \in Watches
      /\ DriverTyped(driver) /\ disk \in [hot : SUBSET Roots, split : Nat] /\ evicting \subseteq Roots
      /\ Intact(store, disk.split) /\ DriverOK
  BY DEF IInv, Typed, Kept
<1>rest. UNCHANGED <<importer, disk, evicting>>
  BY DEF Driving, TakeHead, FcuReturns, FcuReturnsInvalid, TakePayload, NewPayloadReturnsValid,
         NewPayloadReturnsNothing, NewPayloadReturnsInvalid, Invalidate, MaybeEmitHeadChange
<1> SUFFICES /\ Len(queue') <= QueueSize /\ watch' \in Watches /\ DriverTyped(driver')
             /\ Intact(store', disk.split)
  <2>1. Typed' /\ (AllAnnounced => AllAnnounced')
    BY <1>0, <1>rest, ImportersRest, StepTyped
  <2> QED BY <1>rest, <2>1 DEF Kept
<1>1. CASE TakeHead
  <2>1. driver' = [at |-> "fcu", change |-> watch.change] /\ UNCHANGED <<store, queue>>
    BY <1>1 DEF TakeHead
  <2>2. DriverTyped(driver')
    BY <1>0, <2>1 DEF DriverTyped, Watches
  <2>3. watch' \in Watches
    BY <1>0, <1>1, Zenon DEF TakeHead, Watches
  <2> QED BY <1>0, <2>1, <2>2, <2>3
<1>2. CASE FcuReturns
  <2> DEFINE missed == watch.change = driver.change /\ store.status[driver.change.head] = "Invalid"
             un == watch.unanswered \/ missed
  <2>1. driver' = Idle /\ watch' = [watch EXCEPT !.unanswered = un] /\ UNCHANGED <<store, queue>>
    BY <1>0, <1>2 DEF FcuReturns, Watches
  <2>2. un \in BOOLEAN
    BY Zenon
  <2> HIDE DEF un
  <2>3. watch' \in Watches
    BY <1>0, <2>1, <2>2 DEF Watches
  <2> QED BY <1>0, <2>1, <2>3 DEF DriverTyped
<1>3. CASE FcuReturnsInvalid
  <2>1. UNCHANGED <<store, queue, watch>> /\ driver.change.head \in Roots
    BY <1>3 DEF FcuReturnsInvalid, Condemned
  <2>2. PICK lvh \in {Null} \cup LatestValidHash(driver.change.head) :
           driver' = [at |-> "invalid", root |-> driver.change.head, lvh |-> lvh, prev |-> driver.change.head]
    BY <1>3 DEF FcuReturnsInvalid
  <2>3. lvh \in Roots \cup {Null}
    BY <2>1, ChainStep DEF LatestValidHash
  <2>4. DriverTyped(driver')
    BY <2>1, <2>2, <2>3 DEF DriverTyped, Hashes
  <2> QED BY <1>0, <2>1, <2>4
<1>4. CASE TakePayload
  <2>1. /\ queue # <<>> /\ queue' = Tail(queue) /\ UNCHANGED <<store, watch>>
        /\ driver' = [at |-> "newPayload", root |-> Head(queue)]
    BY <1>4 DEF TakePayload
  <2>2. Head(queue) \in Roots /\ Len(queue') <= QueueSize
    BY <1>0, <2>1, DriverAssumption
  <2> QED BY <1>0, <2>1, <2>2 DEF DriverTyped
<1>5. CASE NewPayloadReturnsValid
  <2> DEFINE m == MarkPayloadStatus(store, driver.root, "Valid")
             t == [store.status EXCEPT ![driver.root] = "Valid"]
             u == PromoteValidAncestors(m, driver.root)
  <2>1. driver.root \in Roots /\ driver' = Idle /\ UNCHANGED <<queue, watch>> /\ store' = u
    BY <1>0, <1>5 DEF NewPayloadReturnsValid, DriverOK
  <2>2. m = [store EXCEPT !.status = t] /\ t \in [Roots -> Statuses]
    BY <1>0, <2>1 DEF MarkPayloadStatus, Store, Statuses
  <2> HIDE DEF t, m
  <2>3. m \in Store /\ Intact(m, disk.split)
    BY <1>0, <2>2, StatusOnly
  <2>4. \E d \in [Roots -> Statuses] : u = [m EXCEPT !.status = d]
    <3> DEFINE undecided == {r \in Roots : m.status[r] \in {"None", "NotValidated"}}
               hit(r) == /\ r \in Chain[driver.root] /\ Chain[driver.root] \ Chain[r] \subseteq m.blocks
                         /\ {r} \cup (Chain[driver.root] \ Chain[r]) \subseteq undecided
               d == [r \in Roots |-> IF hit(r) THEN "Valid" ELSE m.status[r]]
    <3>1. u = [m EXCEPT !.status = d]
      BY <2>3 DEF PromoteValidAncestors, Store
    <3> HIDE DEF hit
    <3>2. d \in [Roots -> Statuses]
      BY <2>3 DEF Store, Statuses
    <3> QED BY <3>1, <3>2, Zenon
  <2> HIDE DEF u
  <2>5. Intact(u, disk.split)
    BY <2>3, <2>4, StatusOnly
  <2> QED BY <1>0, <2>1, <2>5 DEF DriverTyped
<1>6. CASE NewPayloadReturnsNothing
  <2> DEFINE t == [store.status EXCEPT ![driver.root] = "NotValidated"]
  <2>1. driver.root \in Roots /\ driver' = Idle /\ UNCHANGED <<queue, watch>>
    BY <1>0, <1>6 DEF NewPayloadReturnsNothing, DriverOK
  <2>2. store' = [store EXCEPT !.status = t] /\ t \in [Roots -> Statuses]
    BY <1>0, <1>6, <2>1 DEF NewPayloadReturnsNothing, MarkPayloadStatus, Store, Statuses
  <2> HIDE DEF t
  <2>3. Intact(store', disk.split)
    BY <1>0, <2>2, StatusOnly
  <2> QED BY <1>0, <2>1, <2>3 DEF DriverTyped
<1>7. CASE NewPayloadReturnsInvalid
  <2>1. UNCHANGED <<store, queue, watch>> /\ driver.root \in Roots
    BY <1>7 DEF NewPayloadReturnsInvalid, Condemned
  <2>2. PICK lvh \in {Null} \cup LatestValidHash(driver.root) :
           driver' = [at |-> "invalid", root |-> driver.root, lvh |-> lvh, prev |-> watch.change.head]
    BY <1>7 DEF NewPayloadReturnsInvalid
  <2>3. lvh \in Roots \cup {Null} /\ watch.change.head \in Hashes
    BY <1>0, <2>1, ChainStep DEF LatestValidHash, Watches, Changes
  <2>4. DriverTyped(driver')
    BY <2>1, <2>2, <2>3 DEF DriverTyped
  <2> QED BY <1>0, <2>1, <2>4
<1>8. CASE Invalidate
  <2> DEFINE x == ResolveInvalidBlock(store, driver.root, driver.lvh)
             u == InvalidateFrom(store, x)
  <2>0. /\ store' = u /\ driver' = [at |-> "emit", head |-> GetHead(store'), prev |-> driver.prev]
        /\ UNCHANGED <<queue, watch>> /\ driver.at = "invalid"
    BY <1>8 DEF Invalidate
  <2>1. driver.prev \in Hashes
    BY <1>0, <2>0, WhereDriverIs
  <2>2. \E d \in [Roots -> Statuses] : u = [store EXCEPT !.status = d]
    <3> HIDE DEF x
    <3> DEFINE hit(q) == x \in Chain[q] /\ Chain[q] \ Chain[x] \subseteq store.blocks
               d == [q \in Roots |-> IF hit(q) THEN "Invalid" ELSE store.status[q]]
    <3>1. u = [store EXCEPT !.status = d]
      BY <1>0 DEF InvalidateFrom, Store
    <3> HIDE DEF hit
    <3>2. d \in [Roots -> Statuses]
      BY <1>0 DEF Store, Statuses
    <3> QED BY <3>1, <3>2, Zenon
  <2> HIDE DEF u
  <2>3. Intact(u, disk.split)
    BY <1>0, <2>2, StatusOnly
  <2>4. GetHead(u) \in Roots
    BY <2>3, HeadIsRoot DEF Intact
  <2>5. DriverTyped(driver')
    BY <2>0, <2>1, <2>4 DEF DriverTyped
  <2> QED BY <1>0, <2>0, <2>3, <2>5
<1>9. CASE MaybeEmitHeadChange
  <2>0. driver.at = "emit"
    BY <1>9 DEF MaybeEmitHeadChange
  <2>1. driver' = Idle /\ UNCHANGED <<store, queue>> /\ driver.head \in Roots
    BY <1>0, <1>9, <2>0, WhereDriverIs DEF MaybeEmitHeadChange
  <2>2. watch' = watch \/ watch' = Send(HeadChange(store, driver.head))
    BY <1>9 DEF MaybeEmitHeadChange
  <2>3. Send(HeadChange(store, driver.head)) \in Watches
    BY <2>1, HeadChangeIsTyped, SendIsTyped
  <2> QED BY <1>0, <2>1, <2>2, <2>3 DEF DriverTyped
<1> QED BY <1>1, <1>2, <1>3, <1>4, <1>5, <1>6, <1>7, <1>8, <1>9 DEF Driving

(* Raising the split to the first finalized slot keeps a store intact. *)
LEMMA SplitRises ==
    ASSUME NEW s, NEW split, Intact(s, split), NEW final \in Nat, final > split,
           final = StartSlot(s.finalized.epoch)
    PROVE  Intact(s, final)
<1>1. s.blocks \subseteq Roots /\ split \in Nat
  BY DEF Intact, Sound, Store
<1>2. \A q \in s.blocks : \A p \in Chain[q] : Slot[p] \in Nat
  BY <1>1, ChainStep
<1>3. \A q \in s.blocks : \A p \in Chain[q] : p \in s.blocks \/ Slot[p] <= split
  BY DEF Intact
<1>4. \A q \in s.blocks : \A p \in Chain[q] : p \in s.blocks \/ Slot[p] <= final
  <2>1. final \in Nat /\ final > split
    OBVIOUS
  <2> QED BY ONLY <1>1, <1>2, <1>3, <2>1
<1> QED BY <1>4 DEF Intact

LEMMA FreezeKeeps ==
    ASSUME IInv, Typed, Kept, FreezerMigrates \/ EvictFinalizedFromFc
    PROVE  Typed' /\ Kept' /\ (AllAnnounced => AllAnnounced')
<1>0. /\ store \in Store /\ Len(queue) <= QueueSize /\ watch \in Watches
      /\ DriverTyped(driver) /\ disk \in [hot : SUBSET Roots, split : Nat] /\ evicting \subseteq Roots
      /\ Intact(store, disk.split) /\ \A r \in evicting : Slot[r] <= disk.split
  BY DEF IInv, Typed, Kept
<1>rest. UNCHANGED <<importer, queue, driver>>
  BY DEF FreezerMigrates, EvictFinalizedFromFc
<1> SUFFICES /\ watch' \in Watches /\ disk' \in [hot : SUBSET Roots, split : Nat]
             /\ evicting' \subseteq Roots /\ Kept'
  <2>1. Typed' /\ (AllAnnounced => AllAnnounced')
    BY <1>0, <1>rest, ImportersRest, StepTyped
  <2> QED BY <2>1
<1>1. CASE FreezerMigrates
  <2> DEFINE final == StartSlot(store.finalized.epoch)
             moved == {r \in disk.hot : disk.split < Slot[r] /\ Slot[r] <= final}
  <2>1. watch' \in Watches /\ store' = store
    BY <1>0, <1>1, Zenon DEF FreezerMigrates, Watches
  <2>2. CASE UNCHANGED <<disk, evicting>>
    BY <1>0, <2>1, <2>2 DEF Kept
  <2>3. CASE final > disk.split /\ disk' = [hot |-> disk.hot \ moved, split |-> final] /\ evicting' = moved
    <3>1. store.finalized.epoch \in Nat
      BY <1>0 DEF Store, Checkpoint
    <3>2. final \in Nat
      BY <3>1, StartSlotMonotone
    <3>3. disk'.split = final /\ disk' \in [hot : SUBSET Roots, split : Nat] /\ evicting' \subseteq Roots
          /\ \A r \in evicting' : Slot[r] <= final
      BY <1>0, <2>3, <3>2
    <3> HIDE DEF moved
    <3>4. Intact(store, final)
      BY <1>0, <2>3, <3>2, SplitRises
    <3> HIDE DEF final
    <3> QED BY <2>1, <3>3, <3>4 DEF Kept
  <2> QED BY <1>1, <2>2, <2>3 DEF FreezerMigrates
<1>2. CASE EvictFinalizedFromFc
  <2> DEFINE out == evicting \cup {r \in store.blocks : Slot[r] < disk.split}
             t == [r \in Roots |-> IF r \in out THEN "None" ELSE store.status[r]]
             l == [v \in Validators |-> IF store.latest[v].root \in out THEN NoVote ELSE store.latest[v]]
  <2>1. store' = [store EXCEPT !.blocks = @ \ out, !.states = @ \ out, !.pulled = @ \ out,
                               !.status = t, !.latest = l]
    BY <1>0, <1>2 DEF EvictFinalizedFromFc, Store
  <2>2. UNCHANGED <<watch, disk>> /\ evicting' = {}
    BY <1>2 DEF EvictFinalizedFromFc
  <2>3. \A r \in out : Slot[r] <= disk.split
    <3>1. \A r \in store.blocks : Slot[r] \in Nat
      BY <1>0, TreeAssumption DEF Store
    <3> QED BY <1>0, <3>1
  <2> HIDE DEF out
  <2>4. t \in [Roots -> Statuses]
    BY <1>0 DEF Store, Statuses
  <2>5. l \in [Validators -> [epoch : Nat \cup {-1}, root : Roots \cup {Zero}]]
    BY <1>0 DEF Store, NoVote
  <2> HIDE DEF t, l
  <2>6. /\ store' \in Store /\ store'.blocks = store.blocks \ out /\ store'.states = store.states \ out
        /\ store'.justified = store.justified /\ store'.unrealizedJ = store.unrealizedJ
        /\ store'.finalized = store.finalized /\ store'.unrealizedF = store.unrealizedF
    BY <1>0, <2>1, <2>4, <2>5 DEF Store
  <2>7. Intact(store', disk.split)
    BY <1>0, <2>3, <2>6, EvictIntact
  <2> QED BY <1>0, <2>2, <2>7 DEF Kept
<1> QED BY <1>1, <1>2

LEMMA StepKeeps ==
    IInv /\ Typed /\ Kept /\ [Next]_vars => Typed' /\ Kept' /\ (Aligned /\ AllAnnounced => AllAnnounced')
<1> SUFFICES ASSUME IInv, Typed, Kept, [Next]_vars
             PROVE  Typed' /\ Kept' /\ (Aligned /\ AllAnnounced => AllAnnounced')
  OBVIOUS
<1>1. CASE UNCHANGED vars
  <2>1. UNCHANGED <<store, importer, queue, watch, driver, disk, evicting>>
    BY <1>1 DEF vars
  <2>2. Typed'
    BY <2>1 DEF Typed
  <2> QED BY <2>1, <2>2, ImportersRest DEF Kept
<1>2. CASE Next
  <2>1. CASE \E i \in Importers : Importing(i) \/ \E r \in Fetched[i] : StartImport(i, r)
    BY <2>1, ImportKeeps
  <2>2. CASE Driving
    BY <2>2, DriveKeeps
  <2>3. CASE FreezerMigrates \/ EvictFinalizedFromFc
    BY <2>3, FreezeKeeps
  <2> QED BY <1>2, <2>1, <2>2, <2>3 DEF Next
<1> QED BY <1>1, <1>2

-----------------------------------------------------------------------------
(* A verdict in payload_statuses is the execution layer's: whatever is imported, evicted,       *)
(* asked twice or dropped between an answer and its effect, apply_invalid_payload condemns no   *)
(* good block and promote_valid_ancestors clears no bad one.                                    *)
THEOREM VerdictsStayTrue == Spec => []VerdictsAreTrue
<1>1. IInv => VerdictsAreTrue
  BY DEF IInv
<1> QED BY Starts, StepPreserves, <1>1, PTL DEF Spec

(* Every variable of the importers, the driver and the freezer keeps its type, however they      *)
(* interleave; payload_tx never holds more than its capacity, and get_head always names a block. *)
THEOREM TypeCorrect == Spec => []TypeOK
BY Starts, StepPreserves, KeptStarts, StepKeeps, TypedSuffices, PTL DEF Spec

(* A HeadChange that an importer computes is one chain, finalized below safe below head, while   *)
(* the freezer takes blocks away and verdicts arrive: latest_verified_ancestor of the finalized  *)
(* block and of the checkpoint block end on the same walk.  The anchor is taken to be the first  *)
(* block of its epoch, as genesis is: get_checkpoint_block walks past an anchor that is not.     *)
THEOREM HeadChangesAreConsistent == Aligned => (Spec => []HeadChangeConsistent)
<1> SUFFICES ASSUME Aligned PROVE Spec => []HeadChangeConsistent
  OBVIOUS
<1>1. AllAnnounced => HeadChangeConsistent
  BY DEF AllAnnounced, Announced, Consistent, HeadChangeConsistent
<1>2. IInv /\ Typed /\ Kept /\ AllAnnounced /\ [Next]_vars => AllAnnounced'
  BY StepKeeps
<1> QED BY Starts, StepPreserves, KeptStarts, StepKeeps, <1>1, <1>2, PTL DEF Spec
=============================================================================
