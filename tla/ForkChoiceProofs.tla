-------------------------- MODULE ForkChoiceProofs --------------------------
(***************************************************************************)
(* Proofs about the fork-choice store, for every tree of blocks and every  *)
(* number of slots per epoch.  The inductive invariant follows field by    *)
(* field from what ForkChoiceStoreProofs says of the handlers.             *)
(***************************************************************************)
EXTENDS ForkChoice, ForkChoiceStoreProofs

-----------------------------------------------------------------------------
(* The inductive invariant, as a property of a store. *)

(* The unrealized justification of the store covers the one of every block. *)
Covered(s) == \A r \in s.blocks \ {Anchor} : UnrealizedJ[r].epoch <= s.unrealizedJ.epoch

(* The store has the blocks its checkpoints name and the ancestors of every block it has. *)
Rooted(s) ==
    /\ IsFiniteSet(s.blocks) /\ s.states \subseteq s.blocks
    /\ \A r \in s.blocks : Chain[r] \subseteq s.blocks
    /\ s.justified.root \in s.blocks /\ s.unrealizedJ.root \in s.blocks
    /\ s.finalized.root \in s.blocks /\ s.unrealizedF.root \in s.blocks

Good(s) == Sound(s) /\ Covered(s) /\ Rooted(s)

LEMMA InitGood == Good(InitStore)
<1>1. Covered(InitStore)
  BY DEF Covered, InitStore
<1>2. Rooted(InitStore)
  <2>1. IsFiniteSet({Anchor})
    BY FS_Singleton
  <2> QED BY <2>1, TreeAssumption DEF Rooted, InitStore, AnchorCheckpoint
<1> QED BY <1>1, <1>2, InitSound DEF Good

LEMMA CrossSlotsGood ==
    ASSUME NEW s, Good(s), NEW t \in Nat, NEW crossed, NEW u, u = CrossSlots(s, t, crossed)
    PROVE  Good(u) /\ Keeps(s, u)
<1>1. Sound(u) /\ Keeps(s, u)
  BY CrossSlotsSound DEF Good
<1>2. /\ u.blocks = s.blocks /\ u.unrealizedJ = s.unrealizedJ /\ u.unrealizedF = s.unrealizedF
      /\ u.justified \in {s.justified, s.unrealizedJ} /\ u.finalized \in {s.finalized, s.unrealizedF}
  BY CrossSlotsFields DEF Good, Sound, Promote
<1>3. Covered(u)
  BY <1>2 DEF Good, Covered
<1>4. Rooted(u)
  <2>1. u.states = s.states
    BY CrossSlotsStates DEF Good, Sound
  <2> QED BY <1>2, <2>1 DEF Good, Rooted
<1> QED BY <1>1, <1>3, <1>4 DEF Good

(* A checkpoint that a block brings in names a block of its chain, which the store has. *)
LEMMA PromotedRoot ==
    ASSUME NEW old \in Checkpoint, NEW r \in Roots, NEW B, old.root \in B, Chain[r] \subseteq B,
           AnchorCheckpoint.epoch <= old.epoch,
           NEW new \in {Justified[r], Finalized[r], UnrealizedJ[r], UnrealizedF[r]}
    PROVE  /\ Promote(old, new) \in Checkpoint /\ Promote(old, new).root \in B
           /\ AnchorCheckpoint.epoch <= Promote(old, new).epoch
<1>1. new \in Checkpoint /\ AnchorCheckpoint.epoch \in Nat
  BY BlockCheckpoints, AnchorIsCheckpoint DEF Checkpoint
<1>2. new.epoch > old.epoch => new.root \in B
  <2>1. AnchorCheckpoint.epoch < new.epoch => new.root \in Chain[r]
    BY HistoryAssumption
  <2> QED BY <1>1, <2>1 DEF Checkpoint
<1> QED BY <1>1, <1>2 DEF Promote, Checkpoint

LEMMA OnBlockRooted ==
    ASSUME NEW s, Good(s), NEW r \in Roots \ {Anchor}, NEW now, NEW elected, Parent[r] \in s.states,
           NEW u, u = OnBlock(s, r, now, elected)
    PROVE  Rooted(u)
<1> DEFINE B == s.blocks \cup {r}
<1>1. /\ s \in Store /\ Rooted(s) /\ AnchorCheckpoint.epoch \in Nat
      /\ s.justified \in Checkpoint /\ s.unrealizedJ \in Checkpoint
      /\ s.finalized \in Checkpoint /\ s.unrealizedF \in Checkpoint
  BY AnchorIsCheckpoint DEF Good, Sound, Store, Checkpoint
<1>2. /\ AnchorCheckpoint.epoch <= s.finalized.epoch /\ AnchorCheckpoint.epoch <= s.justified.epoch
      /\ AnchorCheckpoint.epoch <= s.unrealizedF.epoch /\ AnchorCheckpoint.epoch <= s.unrealizedJ.epoch
  BY <1>1 DEF Good, Sound, Ordered, Sourced, Checkpoint
<1>3. u.blocks = B /\ u.states = s.states \cup {r}
  BY <1>1, OnBlockTree
<1>4. \A q \in B : Chain[q] \subseteq B
  <2>1. Parent[r] \in s.blocks /\ Chain[r] = {r} \cup Chain[Parent[r]]
    BY <1>1, ChainStep DEF Rooted
  <2> QED BY <1>1, <2>1 DEF Rooted
<1>5. IsFiniteSet(B)
  BY <1>1, FS_AddElement DEF Rooted
<1>6. /\ s.justified.root \in B /\ s.unrealizedJ.root \in B
      /\ s.finalized.root \in B /\ s.unrealizedF.root \in B /\ r \in B /\ s.states \subseteq B
  BY <1>1 DEF Rooted
<1> HIDE DEF B
<1>7. Chain[r] \subseteq B
  BY <1>4, <1>6
<1> DEFINE j == Promote(s.justified, Justified[r])
           f == Promote(s.finalized, Finalized[r])
<1>8. /\ j \in Checkpoint /\ j.root \in B /\ AnchorCheckpoint.epoch <= j.epoch
      /\ f \in Checkpoint /\ f.root \in B /\ AnchorCheckpoint.epoch <= f.epoch
  BY <1>1, <1>2, <1>6, <1>7, PromotedRoot
<1>9. /\ Promote(s.unrealizedJ, UnrealizedJ[r]).root \in B
      /\ Promote(s.unrealizedF, UnrealizedF[r]).root \in B
  BY <1>1, <1>2, <1>6, <1>7, PromotedRoot
<1>10. /\ u.unrealizedJ = Promote(s.unrealizedJ, UnrealizedJ[r])
       /\ u.unrealizedF = Promote(s.unrealizedF, UnrealizedF[r])
       /\ u.justified = j \/ u.justified = Promote(j, UnrealizedJ[r])
       /\ u.finalized = f \/ u.finalized = Promote(f, UnrealizedF[r])
  <2>1. s \in Store /\ r \in Roots /\ u = OnBlock(s, r, now, elected)
    BY <1>1
  <2> QED BY ONLY <2>1, OnBlockFields DEF j, f
<1> HIDE DEF j, f
<1>11. Promote(j, UnrealizedJ[r]).root \in B /\ Promote(f, UnrealizedF[r]).root \in B
  BY <1>7, <1>8, PromotedRoot
<1>12. u.justified.root \in B /\ u.finalized.root \in B
  BY <1>8, <1>10, <1>11
<1> QED BY <1>3, <1>4, <1>5, <1>6, <1>9, <1>10, <1>12 DEF Rooted

LEMMA OnBlockGood ==
    ASSUME NEW s, Good(s), NEW r \in Roots \ {Anchor}, NEW now, NEW elected, Parent[r] \in s.states,
           NEW u, u = OnBlock(s, r, now, elected)
    PROVE  Good(u) /\ Keeps(s, u)
<1>1. Sound(u) /\ Keeps(s, u)
  BY OnBlockSound DEF Good
<1>2. Covered(u)
  <2>1. \A q \in Roots : UnrealizedJ[q] \in Checkpoint
    BY BlockCheckpoints
  <2>2. s.blocks \subseteq Roots /\ Covered(s) /\ s.unrealizedJ \in Checkpoint
    BY DEF Good, Sound, Store
  <2>3. u.blocks = s.blocks \cup {r} /\ u.unrealizedJ = Promote(s.unrealizedJ, UnrealizedJ[r])
    BY OnBlockFields DEF Good, Sound
  <2> QED BY <2>1, <2>2, <2>3 DEF Covered, Promote, Checkpoint
<1>3. Rooted(u)
  BY OnBlockRooted
<1> QED BY <1>1, <1>2, <1>3 DEF Good

(* Votes, slashings and payload verdicts leave the checkpoints and the clock of a store alone. *)
SameCore(s, u) ==
    /\ u.time = s.time /\ u.boost = s.boost /\ u.blocks = s.blocks /\ u.states = s.states
    /\ u.justified = s.justified /\ u.finalized = s.finalized
    /\ u.unrealizedJ = s.unrealizedJ /\ u.unrealizedF = s.unrealizedF

LEMMA SameCoreGood ==
    ASSUME NEW s, Good(s), NEW u \in Store, SameCore(s, u)
    PROVE  Good(u) /\ Keeps(s, u)
<1>1. s.finalized.epoch \in Nat
  BY DEF Good, Sound, Store, Checkpoint
<1> QED BY <1>1 DEF SameCore, Good, Sound, Ordered, Sourced, Covered, Rooted, Keeps

LEMMA UpdateLatestMessagesCore ==
    ASSUME NEW s \in Store, NEW V \in SUBSET Validators, NEW a \in Votes,
           NEW u, u = UpdateLatestMessages(s, V, a)
    PROVE  u \in Store /\ SameCore(s, u)
<1> DEFINE latest == [v \in Validators |->
                  IF v \in V \ s.equivocating /\ a.target.epoch > s.latest[v].epoch
                  THEN [epoch |-> a.target.epoch, root |-> a.root] ELSE s.latest[v]]
           L == [Validators -> [epoch : Nat \cup {-1}, root : Roots \cup {Zero}]]
<1>1. a.target \in Checkpoint /\ a.root \in Roots
  BY VoteAssumption
<1>2. latest \in L
  BY <1>1 DEF Store, Checkpoint
<1>3. u = [s EXCEPT !.checkpointStates = s.checkpointStates \cup {a.target}, !.latest = latest]
  BY DEF UpdateLatestMessages, Store
<1>4. s.checkpointStates \cup {a.target} \in SUBSET Checkpoint
  BY <1>1 DEF Store
<1> HIDE DEF latest
<1> QED BY <1>2, <1>3, <1>4 DEF Store, SameCore

LEMMA InvalidateFromCore ==
    ASSUME NEW s \in Store, NEW r, NEW u, u = InvalidateFrom(s, r)
    PROVE  u \in Store /\ SameCore(s, u)
<1> DEFINE status == [q \in Roots |->
                IF r \in Chain[q] /\ Chain[q] \ Chain[r] \subseteq s.blocks
                THEN "Invalid" ELSE s.status[q]]
<1>1. status \in [Roots -> Statuses]
  BY DEF Store, Statuses
<1>2. u = [s EXCEPT !.status = status]
  BY DEF InvalidateFrom, Store
<1> HIDE DEF status
<1> QED BY <1>1, <1>2 DEF Store, SameCore

-----------------------------------------------------------------------------
(* The actions. *)

(* No reading of the clock is ahead of it. *)
Clocked ==
    /\ clock \in Nat /\ reading \in Nat \cup {NoReading}
    /\ store.time <= clock /\ reading <= clock

IInv == Good(store) /\ Clocked /\ BoostIsFresh

StepKeeps == IInv' /\ Keeps(store, store')

(* The part of the pull-up that a step has to preserve. *)
Realized(s) ==
    \A r \in s.blocks \ {Anchor} :
        Epoch(Slot[r]) < Epoch(s.time) => UnrealizedJ[r].epoch <= s.justified.epoch

LEMMA InitInv == Init => IInv /\ PulledUp
<1> SUFFICES ASSUME Init PROVE IInv /\ PulledUp
  OBVIOUS
<1>1. Good(store)
  BY InitGood DEF Init
<1>2. Clocked /\ BoostIsFresh /\ PulledUp
  BY TreeAssumption DEF Init, InitStore, Clocked, BoostIsFresh, PulledUp, NoReading
<1> QED BY <1>1, <1>2 DEF IInv

LEMMA TickInv == ASSUME IInv, Tick PROVE StepKeeps
<1>1. store.finalized.epoch \in Nat /\ store.time \in Nat
  BY DEF IInv, Good, Sound, Store, Checkpoint
<1> QED BY <1>1 DEF IInv, Tick, StepKeeps, Clocked, BoostIsFresh, Keeps, NoReading

LEMMA TickerReadsInv == ASSUME IInv, TickerReads PROVE StepKeeps
<1>1. store.finalized.epoch \in Nat /\ store.time \in Nat
  BY DEF IInv, Good, Sound, Store, Checkpoint
<1> QED BY <1>1 DEF IInv, TickerReads, StepKeeps, Clocked, BoostIsFresh, Keeps, NoReading

LEMMA TickerTicksInv == ASSUME IInv, TickerTicks PROVE StepKeeps
<1> DEFINE crossed == (store.time + 1)..reading
<1>1. store' = CrossSlots(store, reading, crossed) /\ reading \in Nat
  BY DEF TickerTicks, OnTick, IInv, Clocked
<1> HIDE DEF crossed
<1>2. Good(store') /\ Keeps(store, store')
  BY <1>1, CrossSlotsGood DEF IInv
<1>3. /\ store'.time = reading /\ store'.blocks = store.blocks
      /\ store'.boost = IF crossed = {} THEN store.boost ELSE Zero
  <2>1. store \in Store
    BY DEF IInv, Good, Sound
  <2> QED BY <1>1, <2>1, CrossSlotsFields
<1>4. Clocked'
  BY <1>1, <1>3 DEF TickerTicks, Clocked, IInv, NoReading
<1>5. BoostIsFresh'
  <2>1. SUFFICES ASSUME store'.boost # Zero
                 PROVE  store'.boost \in store'.blocks /\ store'.time <= Slot[store'.boost] + MaxDelay
    BY DEF BoostIsFresh
  <2>2. crossed = {} /\ store'.boost = store.boost
    BY <1>3, <2>1
  <2>3. store.time \in Nat /\ store.blocks \subseteq Roots
    BY DEF IInv, Good, Sound, Store
  <2>4. reading <= store.time
    BY <1>1, <2>2, <2>3, NothingCrossed DEF crossed
  <2>5. store.boost \in store.blocks /\ store.time <= Slot[store.boost] + MaxDelay
    BY <2>1, <2>2 DEF IInv, BoostIsFresh
  <2>6. Slot[store.boost] \in Nat
    BY <2>3, <2>5, TreeAssumption, Zenon
  <2> QED BY <1>1, <1>3, <2>2, <2>3, <2>4, <2>5, <2>6, BoundAssumption
<1> QED BY <1>2, <1>4, <1>5 DEF StepKeeps, IInv

(* The importer's nudge takes the store to the slot it read, over one slot boundary at most. *)
LEMMA NudgeGood ==
    ASSUME NEW s, Good(s), NEW now \in Nat, NEW u, u = Nudge(s, now)
    PROVE  /\ Good(u) /\ Keeps(s, u)
           /\ u.blocks = s.blocks
           /\ u.time = IF now > s.time THEN now ELSE s.time
           /\ u.boost = IF now > s.time THEN Zero ELSE s.boost
<1>1. s \in Store /\ s.finalized.epoch \in Nat /\ s.time \in Nat
  BY DEF Good, Sound, Store, Checkpoint
<1>2. CASE now > s.time
  <2> DEFINE crossed == {k \in {now} : k > s.time}
  <2>1. u = CrossSlots(s, now, crossed)
    BY <1>2 DEF Nudge, OnTickPerSlot
  <2>2. crossed # {}
    BY <1>2
  <2> HIDE DEF crossed
  <2>3. Good(u) /\ Keeps(s, u)
    BY <2>1, CrossSlotsGood
  <2>4. u.blocks = s.blocks /\ u.time = now /\ u.boost = Zero
    BY <1>1, <2>1, <2>2, CrossSlotsFields
  <2> QED BY <1>2, <2>3, <2>4
<1>3. CASE ~(now > s.time)
  BY <1>1, <1>3 DEF Nudge, Keeps
<1> QED BY <1>2, <1>3

LEMMA ImportBlockInv ==
    ASSUME IInv, NEW r \in Roots \ {Anchor}, NEW now \in Readings, NEW elected \in BOOLEAN,
           ImportBlock(r, now, elected)
    PROVE  StepKeeps
<1> DEFINE s == Nudge(store, now)
<1>1. /\ clock \in Nat /\ clock' = clock /\ reading' = reading /\ reading <= clock
      /\ reading \in Nat \cup {NoReading}
      /\ now \in Nat /\ now <= clock /\ clock <= now + MaxDelay /\ store.time <= clock
      /\ store' = IF AcceptsBlock(s, r) THEN OnBlock(s, r, now, elected) ELSE s
  BY BoundAssumption DEF ImportBlock, Readings, IInv, Clocked
<1>2. /\ Good(s) /\ Keeps(store, s) /\ s.blocks = store.blocks
      /\ s.time = IF now > store.time THEN now ELSE store.time
      /\ s.boost = IF now > store.time THEN Zero ELSE store.boost
  BY <1>1, NudgeGood DEF IInv
<1> HIDE DEF s
<1>3. s.time <= clock /\ s.time \in Nat
  BY <1>1, <1>2 DEF Good, Sound, Store
<1>4. s.boost # Zero => s.boost \in s.blocks /\ s.time <= Slot[s.boost] + MaxDelay
  BY <1>2 DEF IInv, BoostIsFresh
<1>5. CASE ~AcceptsBlock(s, r)
  BY <1>1, <1>2, <1>3, <1>4, <1>5 DEF StepKeeps, IInv, Clocked, BoostIsFresh
<1>6. CASE AcceptsBlock(s, r)
  <2>1. store' = OnBlock(s, r, now, elected) /\ s \in Store
    BY <1>1, <1>2, <1>6 DEF Good, Sound
  <2>2. Good(store') /\ Keeps(s, store')
    BY <1>2, <1>6, <2>1, OnBlockGood DEF AcceptsBlock
  <2>3. /\ store'.time = s.time /\ store'.blocks = s.blocks \cup {r}
        /\ store'.boost = IF now = Slot[r] /\ elected /\ s.boost = Zero THEN r ELSE s.boost
    BY <2>1, OnBlockFields
  <2>4. Keeps(store, store')
    BY <1>2, <2>2 DEF Keeps, Good, Sound, IInv, Store, Checkpoint
  <2>5. BoostIsFresh'
    BY <1>1, <1>3, <1>4, <2>3, BoundAssumption DEF BoostIsFresh
  <2> QED BY <1>1, <1>3, <2>2, <2>3, <2>4, <2>5 DEF StepKeeps, IInv, Clocked
<1> QED BY <1>5, <1>6

LEMMA SameCoreInv ==
    ASSUME IInv, store' \in Store, SameCore(store, store'), clock' = clock, reading' = reading
    PROVE  StepKeeps
<1>1. Good(store') /\ Keeps(store, store')
  BY SameCoreGood DEF IInv
<1> QED BY <1>1 DEF StepKeeps, IInv, Clocked, BoostIsFresh, SameCore

LEMMA OnAttestationInv ==
    ASSUME IInv, NEW a \in Votes, NEW V \in SUBSET Validators, NEW fromBlock \in BOOLEAN,
           OnAttestation(a, V, fromBlock)
    PROVE  StepKeeps /\ SameCore(store, store')
<1>1. store' \in Store /\ SameCore(store, store')
  BY UpdateLatestMessagesCore DEF OnAttestation, IInv, Good, Sound
<1> QED BY <1>1, SameCoreInv DEF OnAttestation

LEMMA OnAttesterSlashingInv ==
    ASSUME IInv, NEW V \in SUBSET Equivocators, OnAttesterSlashing(V)
    PROVE  StepKeeps /\ SameCore(store, store')
<1>1. store \in Store /\ V \subseteq Validators
  BY VoteAssumption DEF IInv, Good, Sound
<1>2. store' \in Store /\ SameCore(store, store')
  BY <1>1 DEF OnAttesterSlashing, Store, SameCore
<1> QED BY <1>2, SameCoreInv DEF OnAttesterSlashing

LEMMA ApplyInvalidPayloadInv ==
    ASSUME IInv, NEW r \in Judged, ApplyInvalidPayload(r)
    PROVE  StepKeeps /\ SameCore(store, store')
<1>1. store' \in Store /\ SameCore(store, store')
  BY InvalidateFromCore DEF ApplyInvalidPayload, IInv, Good, Sound
<1> QED BY <1>1, SameCoreInv DEF ApplyInvalidPayload

LEMMA NextInv == IInv /\ [Next]_vars => StepKeeps
<1> SUFFICES ASSUME IInv, [Next]_vars PROVE StepKeeps
  OBVIOUS
<1>1. CASE Tick BY <1>1, TickInv
<1>2. CASE TickerReads BY <1>2, TickerReadsInv
<1>3. CASE TickerTicks BY <1>3, TickerTicksInv
<1>4. CASE \E r \in Roots \ {Anchor}, now \in Readings, elected \in BOOLEAN : ImportBlock(r, now, elected)
  BY <1>4, ImportBlockInv
<1>5. CASE \E a \in Votes, V \in SUBSET Validators, fromBlock \in BOOLEAN : OnAttestation(a, V, fromBlock)
  BY <1>5, OnAttestationInv
<1>6. CASE \E V \in SUBSET Equivocators : OnAttesterSlashing(V)
  BY <1>6, OnAttesterSlashingInv
<1>7. CASE \E r \in Judged : ApplyInvalidPayload(r)
  BY <1>7, ApplyInvalidPayloadInv
<1>8. CASE UNCHANGED vars
  <2>1. store' = store /\ clock' = clock /\ reading' = reading
    BY <1>8 DEF vars
  <2>2. store' \in Store /\ SameCore(store, store')
    BY <2>1 DEF IInv, Good, Sound, SameCore
  <2> QED BY <2>1, <2>2, SameCoreInv
<1> QED BY <1>1, <1>2, <1>3, <1>4, <1>5, <1>6, <1>7, <1>8 DEF Next

-----------------------------------------------------------------------------
(* The theorems. *)

LEMMA Invariance == Spec => []IInv
<1>1. Init => IInv
  BY InitInv
<1>2. IInv /\ [Next]_vars => IInv'
  BY NextInv DEF StepKeeps
<1> QED BY <1>1, <1>2, PTL DEF Spec

(* The ticker, the importers and the voters leave every field of the store well typed, for    *)
(* every block tree.                                                                          *)
THEOREM TypeCorrect == Spec => []TypeOK
<1>1. IInv => TypeOK
  BY DEF IInv, Good, Sound, Clocked, TypeOK
<1> QED BY <1>1, Invariance, PTL

(* update_checkpoints and update_unrealized_checkpoints promote the two checkpoints one by    *)
(* one; on every order of blocks and ticks justification stays at or above finality.          *)
THEOREM CheckpointsStayOrdered == Spec => []CheckpointsOrdered
<1>1. IInv => CheckpointsOrdered
  BY DEF IInv, Good, Sound, Ordered, CheckpointsOrdered
<1> QED BY <1>1, Invariance, PTL

LEMMA JustifiedDescends == IInv => JustifiedOnFinalizedChain
BY SoundRoots DEF IInv, Good, JustifiedOnFinalizedChain

(* get_head starts on the finalized chain: the justified and the finalized checkpoint come    *)
(* from different blocks, and accountable safety puts them on one chain.                      *)
THEOREM HeadStartsOnFinalizedChain == Spec => []JustifiedOnFinalizedChain
BY JustifiedDescends, Invariance, PTL

(* get_head descends from the justified root through blocks that filter_block_tree has kept,  *)
(* whatever the votes are: the head is in the store, on the finalized chain, and nothing      *)
(* between the base and it is INVALID.                                                        *)
THEOREM HeadStaysSound == Spec => []HeadIsSound
<1>1. IInv => HeadIsSound
  <2> SUFFICES ASSUME IInv PROVE HeadIsSound
    OBVIOUS
  <2> DEFINE head == GetHead(store)
             base == EffectiveBase(store)
             tree == FilterBlockTree(store)
  <2>1. /\ store \in Store /\ Rooted(store) /\ store.blocks \subseteq Roots
        /\ store.finalized.root \in Chain[store.justified.root]
    BY JustifiedDescends DEF IInv, Good, Sound, JustifiedOnFinalizedChain, Store
  <2>2. base = store.justified.root /\ base \in store.blocks /\ base \in Roots
    BY <2>1 DEF EffectiveBase, Rooted
  <2>3. /\ base \notin tree => head = base
        /\ base \in tree => /\ head \in tree /\ base \in Chain[head]
                            /\ \A q \in Chain[head] : base \in Chain[q] => q \in tree
    BY <2>1, GetHeadDescends DEF Rooted
  <2> HIDE DEF head, base, tree
  <2>4. head \in store.blocks /\ base \in Chain[head] /\ head \in Roots
    <3>1. tree \subseteq store.blocks
      BY DEF tree, FilterBlockTree
    <3> QED BY <2>1, <2>2, <2>3, <3>1, ChainStep
  <2>5. store.finalized.root \in Chain[head]
    BY <2>1, <2>2, <2>4, ChainIsClosed
  <2>6. ASSUME head # base, NEW r \in Chain[head] \ Chain[base] PROVE store.status[r] # "Invalid"
    <3>1. base \in Chain[r]
      BY <2>4, <2>6, ChainIsLinear
    <3>2. r \in tree
      <4>1. base \in tree
        BY <2>3, <2>6
      <4> QED BY <2>3, <2>6, <3>1, <4>1
    <3>3. r \in store.blocks
      BY <3>2 DEF tree, FilterBlockTree
    <3> QED BY <2>1, <3>2, <3>3, FilterBlockTreeStep DEF tree
  <2> QED BY <2>4, <2>5, <2>6 DEF HeadIsSound, head, base
<1> QED BY <1>1, Invariance, PTL

(* No block, tick, vote, slashing or payload verdict takes finality back or moves it to       *)
(* another branch.                                                                            *)
THEOREM FinalityIsStable == Spec => FinalityNeverReverts
<1> DEFINE A == /\ store'.finalized.epoch >= store.finalized.epoch
                /\ store.finalized.root \in Chain[store'.finalized.root]
<1>1. IInv /\ [Next]_vars => A
  <2> SUFFICES ASSUME IInv, [Next]_vars PROVE A
    OBVIOUS
  <2>1. IInv' /\ Keeps(store, store')
    BY NextInv DEF StepKeeps
  <2>2. /\ store.finalized \in FinalizedCheckpoints /\ store'.finalized \in FinalizedCheckpoints
        /\ AnchorCheckpoint.epoch <= store.finalized.epoch
        /\ store.finalized.epoch \in Nat /\ store'.finalized.epoch \in Nat
    BY <2>1 DEF IInv, Good, Sound, Sourced, Store, Checkpoint
  <2>3. store.finalized.epoch <= store'.finalized.epoch
    BY <2>1 DEF Keeps
  <2> QED BY <2>2, <2>3, CasperAssumption
<1> QED BY <1>1, Invariance, PTL DEF Spec, FinalityNeverReverts

(* The proposer boost outlives its slot by no more than an importer waits for the lock.       *)
THEOREM BoostExpires == Spec => []BoostIsFresh
<1>1. IInv => BoostIsFresh
  BY DEF IInv
<1> QED BY <1>1, Invariance, PTL

-----------------------------------------------------------------------------
(* The pull-up, when the nudge never takes the store over more than one slot boundary. *)

LEMMA CrossSlotsRealizes ==
    ASSUME NEW s, Good(s), Realized(s), NEW t \in Nat, NEW crossed,
           Epoch(s.time) < Epoch(t) => \E k \in crossed : k % SlotsPerEpoch = 0,
           NEW u, u = CrossSlots(s, t, crossed)
    PROVE  Realized(u)
<1>1. /\ s \in Store /\ s.time \in Nat /\ s.blocks \subseteq Roots
      /\ s.justified \in Checkpoint /\ s.unrealizedJ \in Checkpoint /\ Covered(s)
  BY DEF Good, Sound, Store
<1> SUFFICES ASSUME NEW r \in u.blocks \ {Anchor}, Epoch(Slot[r]) < Epoch(u.time)
             PROVE  UnrealizedJ[r].epoch <= u.justified.epoch
  BY DEF Realized
<1>2. /\ u.time = t /\ u.blocks = s.blocks
      /\ u.justified = IF \E k \in crossed : k % SlotsPerEpoch = 0
                       THEN Promote(s.justified, s.unrealizedJ) ELSE s.justified
  <2>1. s \in Store /\ t \in Nat /\ u = CrossSlots(s, t, crossed)
    BY <1>1
  <2> QED BY ONLY <2>1, CrossSlotsFields
<1>3. /\ r \in s.blocks \ {Anchor} /\ UnrealizedJ[r] \in Checkpoint
      /\ Epoch(Slot[r]) \in Nat /\ Epoch(s.time) \in Nat /\ Epoch(t) \in Nat
      /\ UnrealizedJ[r].epoch <= s.unrealizedJ.epoch
  BY <1>1, <1>2, BlockCheckpoints, EpochBounds, TreeAssumption, Zenon DEF Covered
<1>4. CASE \E k \in crossed : k % SlotsPerEpoch = 0
  <2>1. u.justified = Promote(s.justified, s.unrealizedJ)
    BY <1>2, <1>4
  <2>2. u.justified.epoch \in Nat /\ s.unrealizedJ.epoch <= u.justified.epoch
    BY <1>1, <2>1, PromoteRises
  <2>3. UnrealizedJ[r].epoch \in Nat /\ s.unrealizedJ.epoch \in Nat
    BY <1>1, <1>3 DEF Checkpoint
  <2>4. UnrealizedJ[r].epoch <= s.unrealizedJ.epoch
    BY <1>3
  <2> QED BY ONLY <2>2, <2>3, <2>4
<1>5. CASE ~\E k \in crossed : k % SlotsPerEpoch = 0
  <2>1. u.justified = s.justified
    BY <1>2, <1>5
  <2>2. Epoch(Slot[r]) < Epoch(s.time)
    BY <1>2, <1>3, <1>5
  <2> QED BY <1>3, <2>1, <2>2 DEF Realized
<1> QED BY <1>4, <1>5

LEMMA OnBlockRealizes ==
    ASSUME NEW s, Good(s), Realized(s), NEW r \in Roots, NEW now, NEW elected,
           NEW u, u = OnBlock(s, r, now, elected)
    PROVE  Realized(u)
<1>1. s \in Store /\ s.blocks \subseteq Roots /\ s.justified \in Checkpoint
  BY DEF Good, Sound, Store
<1>2. /\ u.time = s.time /\ u.blocks = s.blocks \cup {r}
      /\ u.justified = IF Epoch(Slot[r]) < Epoch(s.time)
                       THEN Promote(Promote(s.justified, Justified[r]), UnrealizedJ[r])
                       ELSE Promote(s.justified, Justified[r])
  <2>1. s \in Store /\ r \in Roots /\ u = OnBlock(s, r, now, elected)
    BY <1>1
  <2>2. u.time = s.time /\ u.blocks = s.blocks \cup {r}
    BY ONLY <2>1, OnBlockFields
  <2>3. IF Epoch(Slot[r]) < Epoch(s.time)
        THEN u.justified = Promote(Promote(s.justified, Justified[r]), UnrealizedJ[r])
        ELSE u.justified = Promote(s.justified, Justified[r])
    BY ONLY <2>1, OnBlockFields
  <2> QED BY <2>2, <2>3
<1>3. Justified[r] \in Checkpoint /\ UnrealizedJ[r] \in Checkpoint
  BY BlockCheckpoints
<1>4. /\ u.justified.epoch \in Nat /\ s.justified.epoch <= u.justified.epoch
      /\ Epoch(Slot[r]) < Epoch(s.time) => UnrealizedJ[r].epoch <= u.justified.epoch
  <2> DEFINE p == Promote(s.justified, Justified[r])
             q == Promote(p, UnrealizedJ[r])
  <2>1. p \in Checkpoint /\ p.epoch \in Nat /\ s.justified.epoch <= p.epoch
    BY <1>1, <1>3, PromoteCheckpoint, PromoteRises, Zenon
  <2>2. u.justified = IF Epoch(Slot[r]) < Epoch(s.time) THEN q ELSE p
    BY <1>2
  <2> HIDE DEF p
  <2>3. q.epoch \in Nat /\ p.epoch <= q.epoch /\ UnrealizedJ[r].epoch <= q.epoch
    BY <1>3, <2>1, PromoteRises
  <2> HIDE DEF q
  <2>4. s.justified.epoch \in Nat
    BY <1>1 DEF Checkpoint
  <2> QED BY <2>1, <2>2, <2>3, <2>4
<1> SUFFICES ASSUME NEW q \in u.blocks \ {Anchor}, Epoch(Slot[q]) < Epoch(u.time)
             PROVE  UnrealizedJ[q].epoch <= u.justified.epoch
  BY DEF Realized
<1>5. CASE q = r
  BY <1>2, <1>4, <1>5
<1>6. CASE q # r
  <2>1. q \in s.blocks \ {Anchor} /\ q \in Roots
    BY <1>1, <1>2, <1>6
  <2>2. UnrealizedJ[q].epoch <= s.justified.epoch
    BY <1>2, <2>1 DEF Realized
  <2>3. UnrealizedJ[q].epoch \in Nat /\ s.justified.epoch \in Nat
    BY <1>1, <2>1, BlockCheckpoints DEF Checkpoint
  <2> QED BY <1>4, <2>2, <2>3
<1> QED BY <1>5, <1>6

LEMMA NextRealizes ==
    ASSUME IInv, Realized(store), MaxLag <= 1, [Next]_vars
    PROVE  Realized(store')
<1>1. Good(store) /\ store.time \in Nat
  BY DEF IInv, Good, Sound, Store
<1>2. CASE SameCore(store, store')
  BY <1>2 DEF SameCore, Realized
<1>3. CASE TickerTicks
  <2> DEFINE crossed == (store.time + 1)..reading
  <2>1. store' = CrossSlots(store, reading, crossed) /\ reading \in Nat
    BY <1>3 DEF TickerTicks, OnTick, IInv, Clocked
  <2>2. Epoch(store.time) < Epoch(reading) => \E k \in crossed : k % SlotsPerEpoch = 0
    BY <1>1, <2>1, EpochStartCrossed
  <2> HIDE DEF crossed
  <2> QED BY <1>1, <2>1, <2>2, CrossSlotsRealizes
<1>4. ASSUME NEW r \in Roots \ {Anchor}, NEW now \in Readings, NEW elected \in BOOLEAN,
             ImportBlock(r, now, elected)
      PROVE  Realized(store')
  <2> DEFINE s == Nudge(store, now)
  <2>1. /\ now \in Nat /\ now - store.time <= MaxLag
        /\ store' = IF AcceptsBlock(s, r) THEN OnBlock(s, r, now, elected) ELSE s
    BY <1>4 DEF ImportBlock, Readings
  <2>2. Good(s)
    BY <1>1, <2>1, NudgeGood
  <2>3. Realized(s)
    <3>1. CASE now > store.time
      <4> DEFINE crossed == {k \in {now} : k > store.time}
      <4>1. s = CrossSlots(store, now, crossed)
        BY <3>1 DEF Nudge, OnTickPerSlot
      <4>2. now = store.time + 1
        BY <1>1, <2>1, <3>1, BoundAssumption
      <4>3. Epoch(store.time) < Epoch(now) => \E k \in crossed : k % SlotsPerEpoch = 0
        <5>1. SUFFICES ASSUME Epoch(store.time) < Epoch(now)
                       PROVE  now % SlotsPerEpoch = 0
          BY <3>1
        <5>2. PICK k \in (store.time + 1)..now : k % SlotsPerEpoch = 0
          BY <1>1, <2>1, <5>1, EpochStartCrossed
        <5> QED BY <1>1, <4>2, <5>2
      <4> HIDE DEF crossed, s
      <4> QED BY <1>1, <2>1, <4>1, <4>3, CrossSlotsRealizes
    <3>2. CASE ~(now > store.time)
      BY <3>2 DEF Nudge
    <3> QED BY <3>1, <3>2
  <2> HIDE DEF s
  <2> QED BY <2>1, <2>2, <2>3, OnBlockRealizes
<1>5. CASE Tick \/ TickerReads \/ UNCHANGED vars
  BY <1>2, <1>5 DEF Tick, TickerReads, vars, SameCore
<1>6. CASE \/ \E a \in Votes, V \in SUBSET Validators, fromBlock \in BOOLEAN : OnAttestation(a, V, fromBlock)
           \/ \E V \in SUBSET Equivocators : OnAttesterSlashing(V)
           \/ \E r \in Judged : ApplyInvalidPayload(r)
  BY <1>2, <1>6, OnAttestationInv, OnAttesterSlashingInv, ApplyInvalidPayloadInv
<1> QED BY <1>3, <1>4, <1>5, <1>6 DEF Next

(* on_tick_per_slot realizes the unrealized checkpoints when a tick enters an epoch; as long  *)
(* as the importer's nudge spans at most one slot, no block of a past epoch is forgotten.     *)
(* With a longer nudge the property fails: PullUpMissed.cfg.                                  *)
THEOREM PullUpIsComplete == MaxLag <= 1 => (Spec => []PulledUp)
<1> SUFFICES ASSUME MaxLag <= 1 PROVE Spec => []PulledUp
  OBVIOUS
<1>1. Init => PulledUp
  BY InitInv
<1>2. IInv /\ PulledUp /\ [Next]_vars => PulledUp'
  BY NextRealizes DEF PulledUp, Realized
<1> QED BY <1>1, <1>2, Invariance, PTL DEF Spec
=============================================================================
